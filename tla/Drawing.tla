------------------------------ MODULE Drawing ------------------------------
(***************************************************************************)
(* How a row of cells becomes what is painted (st-native/src/runs.rs,      *)
(* paint.rs): merged backgrounds and runs of text that share a style, laid *)
(* out into the buffers of the frame before; shaped lines are cached.      *)
(***************************************************************************)
EXTENDS Naturals, Sequences, SequencesExt, FiniteSets, FiniteSetsExt

CONSTANTS Columns  \* of the rows that are checked

Space == <<" ">>

(* The cells told apart: blank, text of two styles, an underlined blank, a  *)
(* blank on a background, a box-drawing character, a wide character and its *)
(* spacer, and a letter with a combining mark from the side table           *)
Cell ==
  [blank |-> [text |-> Space, style |-> "plain", bg |-> "default", flag |-> "none"],
   x |-> [text |-> <<"x">>, style |-> "plain", bg |-> "default", flag |-> "none"],
   y |-> [text |-> <<"y">>, style |-> "under", bg |-> "default", flag |-> "none"],
   line |-> [text |-> Space, style |-> "under", bg |-> "default", flag |-> "none"],
   paper |-> [text |-> Space, style |-> "plain", bg |-> "paper", flag |-> "none"],
   box |-> [text |-> <<"#">>, style |-> "plain", bg |-> "paper", flag |-> "none"],
   wide |-> [text |-> <<"W">>, style |-> "plain", bg |-> "paper", flag |-> "wide"],
   spacer |-> [text |-> Space, style |-> "plain", bg |-> "default", flag |-> "spacer"],
   mark |-> [text |-> <<"e", "^">>, style |-> "plain", bg |-> "default", flag |-> "none"]]

CellAt(row, col) == IF col < Len(row) THEN Cell[row[col + 1]] ELSE Cell.blank

(* resolve_style, StyleKey: a selected cell has the selection's background  *)
IsSelected(sel, col) == sel # <<>> /\ sel[1] <= col /\ col <= sel[2]
Key(cell, selected) == <<cell.style, selected>>
IsPlain(key) == key[1] = "plain"
Paper(cell, selected) == IF selected THEN "selection" ELSE cell.bg
IsSprite(cell) == cell.flag # "wide" /\ cell.text = <<"#">>

(***************************************************************************)
(* layout_row_into                                                         *)
(***************************************************************************)
PushBg(spans, col, cells, color) ==
  IF spans # <<>> /\ Last(spans).color = color /\ Last(spans).col + Last(spans).cells = col
  THEN [spans EXCEPT ![Len(spans)].cells = @ + cells]
  ELSE Append(spans, [col |-> col, cells |-> cells, color |-> color])

(* append_run: the first `used` runs are live, the rest is of the row that  *)
(* was laid out here before                                                 *)
AppendRun(s, run) ==
  LET last == s.runs[s.used] IN
  IF /\ ~run.wide /\ s.used > 0
     /\ ~last.wide /\ last.sprite = run.sprite /\ last.key = run.key /\ last.col + last.cells = run.col
  THEN [s EXCEPT !.runs[s.used].cells = @ + run.cells, !.runs[s.used].text = @ \o run.text]
  ELSE [s EXCEPT !.runs = IF s.used = Len(@) THEN Append(@, run) ELSE [@ EXCEPT ![s.used + 1] = run],
                 !.used = @ + 1]

LayCell(s, row, cols, sel, col) ==
  LET cell == CellAt(row, col)
      selected == IsSelected(sel, col)
      width == IF cell.flag = "wide" THEN Min({2, cols - col}) ELSE 1
      paper == Paper(cell, selected)
      run == [col |-> col, cells |-> width, text |-> cell.text, key |-> Key(cell, selected),
              wide |-> cell.flag = "wide", sprite |-> IsSprite(cell)]
  IN IF col # s.col THEN s
     ELSE IF cell.flag = "spacer" THEN [s EXCEPT !.col = @ + 1]
     ELSE [AppendRun(s, run) EXCEPT
             !.backgrounds = IF paper = "default" THEN @ ELSE PushBg(@, col, width, paper),
             !.col = @ + width]

IsDroppable(run) == IsPlain(run.key) /\ Range(run.text) \subseteq {" "}

(* trim_trailing_blanks: one run at most is left to trim, the ones of only  *)
(* blanks were dropped                                                      *)
TrimTrailingBlanks(runs) ==
  LET last == Last(runs)
      kept == Max({0} \cup {n \in DOMAIN last.text : last.text[n] # " "})
  IN IF runs = <<>> \/ ~IsPlain(last.key) \/ last.wide \/ last.sprite THEN runs
     ELSE [runs EXCEPT ![Len(runs)].text = SubSeq(@, 1, kept),
                       ![Len(runs)].cells = @ - (Len(last.text) - kept)]

(* Mutant: `truncate(used)` is left out *)
Live_All(s) == s.runs

Live(s) == SubSeq(s.runs, 1, s.used)

LayoutRowInto(layout, row, cols, sel) ==
  LET laid == FoldLeft(LAMBDA s, n : LayCell(s, row, cols, sel, n - 1),
                       [backgrounds |-> <<>>, runs |-> layout.runs, used |-> 0, col |-> 0],
                       [n \in 1..cols |-> n])
  IN [backgrounds |-> laid.backgrounds,
      runs |-> TrimTrailingBlanks(SelectSeq(Live(laid), LAMBDA run : ~IsDroppable(run)))]

Fresh == [backgrounds |-> <<>>, runs |-> <<>>]

(***************************************************************************)
(* What is painted: a run forces each base glyph to a column of its own,   *)
(* a mark stays on its base                                                *)
(***************************************************************************)
Bases(text) == {n \in DOMAIN text : text[n] # "^"}
GlyphOf(text, nth) ==
  LET first == CHOOSE n \in Bases(text) : Cardinality({m \in Bases(text) : m < n}) = nth
      after == {n \in Bases(text) : n > first}
  IN SubSeq(text, first, (IF after = {} THEN Len(text) + 1 ELSE Min(after)) - 1)

Covers(span, col) == span.col <= col /\ col < span.col + span.cells
Painted(layout, col) ==
  {[glyph |-> GlyphOf(run.text, IF run.wide THEN 0 ELSE col - run.col), key |-> run.key] :
     run \in {r \in Range(layout.runs) : Covers(r, col)}}

(* glyph_at counts characters, marks too                                    *)
GlyphAt(layout, col) ==
  LET runs == SelectSeq(layout.runs, LAMBDA run : Covers(run, col))
      offset == IF runs[1].wide THEN 0 ELSE col - runs[1].col
  IN IF runs = <<>> \/ offset >= Len(runs[1].text) THEN <<>> ELSE <<runs[1].text[offset + 1]>>

(***************************************************************************)
(* RunCache: entries with the time of their last use                       *)
(***************************************************************************)
Evict(entries, capacity) ==
  LET target == capacity - (capacity \div 4)
      ages == SetToSortSeq(Range(entries), <)
      cutoff == ages[Cardinality(DOMAIN entries) - target + 1]
  IN IF Cardinality(DOMAIN entries) <= capacity THEN entries
     ELSE [key \in {k \in DOMAIN entries : entries[k] >= cutoff} |-> entries[key]]

(* shaped_line: looked up, else shaped and inserted; each ticks the clock   *)
ShapedLine(cache, key, capacity) ==
  LET hit == key \in DOMAIN cache.entries
      clock == cache.clock + IF hit THEN 1 ELSE 2
  IN [clock |-> clock, shaped |-> cache.shaped + IF hit THEN 0 ELSE 1,
      entries |-> IF hit THEN [cache.entries EXCEPT ![key] = clock]
                  ELSE Evict([k \in DOMAIN cache.entries \cup {key} |->
                                IF k = key THEN clock ELSE cache.entries[k]], capacity)]
EmptyCache == [clock |-> 0, shaped |-> 0, entries |-> [k \in {} |-> 0]]
-----------------------------------------------------------------------------
Rows == UNION {[1..n -> DOMAIN Cell] : n \in 0..Columns}
Selections == {<<>>} \cup {<<a, b>> : a \in 0..1, b \in 1 .. Columns - 1}

Lead(row, col) == CellAt(row, col).flag # "spacer" /\ ~(col > 0 /\ CellAt(row, col - 1).flag = "wide")
Owner(row, col) == IF col > 0 /\ CellAt(row, col - 1).flag = "wide" /\ CellAt(row, col).flag # "wide"
                   THEN col - 1 ELSE col
WellFormed(row) ==
  \A col \in 0 .. Columns - 1 :
    /\ CellAt(row, col).flag = "spacer" => col = 0 \/ CellAt(row, col - 1).flag = "wide"
    /\ CellAt(row, col).flag = "wide" /\ col + 1 < Columns => CellAt(row, col + 1).flag = "spacer"

(* Each column shows its own cell and nothing else, whatever the buffers    *)
(* held; a block cursor shows the glyph it covers, unless a mark comes      *)
(* before it in its run                                                    *)
Drawn(old, row, sel) ==
  LET layout == LayoutRowInto(LayoutRowInto(Fresh, old, Columns, <<>>), row, Columns, sel)
      Cols == 0 .. Columns - 1
  IN /\ layout = LayoutRowInto(Fresh, row, Columns, sel)
     /\ \A col \in Cols :
          LET own == Owner(row, col)
              cell == CellAt(row, own)
              selected == IsSelected(sel, own)
              papers == {span.color : span \in {b \in Range(layout.backgrounds) : Covers(b, col)}}
              looks == [glyph |-> cell.text, key |-> Key(cell, selected)]
          IN /\ Cardinality({run \in Range(layout.runs) : Covers(run, col)}) <= 1
             /\ cell.flag # "spacer" => papers = {Paper(cell, selected)} \ {"default"}
             /\ cell.flag = "spacer" => papers = {} /\ Painted(layout, col) = {}
             /\ cell.flag # "spacer" => \/ Painted(layout, col) = {looks}
                                        \/ cell.text = Space /\ cell.style = "plain" /\ Painted(layout, col) = {}
             /\ \/ \E run \in Range(layout.runs) : Covers(run, col) /\ "^" \in Range(run.text)
                \/ GlyphAt(layout, col) = IF Painted(layout, col) = {} THEN <<>> ELSE cell.text
     /\ \A run \in Range(layout.runs) : run.sprite <=> Range(run.text) \subseteq {"#"}

(* The cache holds the lines used last, the newest among them, and shapes a *)
(* screen that fits into what eviction leaves only once                    *)
Cached(keys, capacity) ==
  LET after == [n \in 0 .. Len(keys) |->
                  FoldLeft(LAMBDA c, k : ShapedLine(c, k, capacity), EmptyCache, SubSeq(keys, 1, n))]
      Latest(k, n) == Max({0} \cup {m \in 1..n : keys[m] = k})
  IN \A n \in 1 .. Len(keys) :
       LET held == DOMAIN after[n].entries IN
       /\ keys[n] \in held /\ Cardinality(held) <= capacity
       /\ \A k \in held, gone \in Range(SubSeq(keys, 1, n)) \ held : Latest(k, n) > Latest(gone, n)
       /\ Cardinality(Range(keys)) <= capacity - (capacity \div 4) =>
            after[n].shaped = Cardinality(Range(SubSeq(keys, 1, n)))
=============================================================================
