------------------------------ MODULE Sprites ------------------------------
(***************************************************************************)
(* The box-drawing and block characters, drawn from the cell box instead   *)
(* of the font (st-native/src/sprites.rs, paint.rs).  A length is a        *)
(* multiple of 1/144 of a pixel, so that the halves, eighths and thirds of *)
(* a cell are whole; a rectangle is its four edges.                        *)
(***************************************************************************)
EXTENDS Naturals, FiniteSets, FiniteSetsExt, Functions

Px == 144
Round(x) == ((x + Px \div 2) \div Px) * Px  \* f32::round of what is not negative

Rect(x0, y0, x1, y1) == [x0 |-> x0, y0 |-> y0, x1 |-> x1, y1 |-> y1]

(* The strokes of a cell: their weights, and the distance of double lines   *)
Light(w) == Max({Px, Round(w \div 8)})
Heavy(w) == 2 * Light(w) + Px
Apart(w) == Max({Light(w), Round(w \div 6)})
Thickness(w, weight) == CASE weight = "none" -> 0 [] weight = "light" -> Light(w) [] weight = "heavy" -> Heavy(w)

(***************************************************************************)
(* Single lines: every combination of four arms is a character             *)
(***************************************************************************)
Weights == {"none", "light", "heavy"}
Sides == {"up", "down", "left", "right"}
ArmSets == {arms \in [Sides -> Weights] : \E s \in Sides : arms[s] # "none"}

(* How far beyond the centre an arm goes: across the thickest line it meets *)
Reach(w, own, crossing) == Max({Thickness(w, own)} \cup {Thickness(w, c) : c \in crossing}) \div 2

ArmRects(arms, w, h) ==
  LET k == [s \in Sides |-> Thickness(w, arms[s])]
      cx == w \div 2
      cy == h \div 2
      Across(s) == Reach(w, arms[s], IF s \in {"left", "right"} THEN {arms["up"], arms["down"]}
                                     ELSE {arms["left"], arms["right"]})
      Arm(s) == CASE s = "left" -> Rect(0, cy - (k[s] \div 2), cx + Across(s), cy + (k[s] \div 2))
                  [] s = "right" -> Rect(cx - Across(s), cy - (k[s] \div 2), w, cy + (k[s] \div 2))
                  [] s = "up" -> Rect(cx - (k[s] \div 2), 0, cx + (k[s] \div 2), cy + Across(s))
                  [] s = "down" -> Rect(cx - (k[s] \div 2), cy - Across(s), cx + (k[s] \div 2), h)
  IN {Arm(s) : s \in {s \in Sides : k[s] > 0}}

(***************************************************************************)
(* Double lines: a character by what its name says of <<up, down, left,    *)
(* right>> (0 nothing, 1 single, 2 double), and the strokes drawn for it   *)
(***************************************************************************)
Edge0 == "edge0"
Minus == "minus"
Centre == "centre"
Plus == "plus"
Edge1 == "edge1"
SH(y, x0, x1) == [along |-> "h", at |-> y, from |-> x0, to |-> x1]
SV(x, y0, y1) == [along |-> "v", at |-> x, from |-> y0, to |-> y1]

(* Two strokes of the same reach on both sides of the centre                *)
PairH(from, to) == {SH(Minus, from, to), SH(Plus, from, to)}
PairV(from, to) == {SV(Minus, from, to), SV(Plus, from, to)}

DoubleStrokes(name) ==
  CASE name = <<0, 0, 2, 2>> -> PairH(Edge0, Edge1)
    [] name = <<2, 2, 0, 0>> -> PairV(Edge0, Edge1)
    [] name = <<0, 1, 0, 2>> -> {SV(Centre, Minus, Edge1)} \cup PairH(Centre, Edge1)
    [] name = <<0, 2, 0, 1>> -> {SH(Centre, Minus, Edge1)} \cup PairV(Centre, Edge1)
    [] name = <<0, 2, 0, 2>> -> {SV(Minus, Minus, Edge1), SV(Plus, Plus, Edge1),
                                 SH(Minus, Minus, Edge1), SH(Plus, Plus, Edge1)}
    [] name = <<0, 1, 2, 0>> -> {SV(Centre, Minus, Edge1)} \cup PairH(Edge0, Centre)
    [] name = <<0, 2, 1, 0>> -> {SH(Centre, Edge0, Plus)} \cup PairV(Centre, Edge1)
    [] name = <<0, 2, 2, 0>> -> {SV(Plus, Minus, Edge1), SV(Minus, Plus, Edge1),
                                 SH(Minus, Edge0, Plus), SH(Plus, Edge0, Minus)}
    [] name = <<1, 0, 0, 2>> -> {SV(Centre, Edge0, Plus)} \cup PairH(Centre, Edge1)
    [] name = <<2, 0, 0, 1>> -> {SH(Centre, Minus, Edge1)} \cup PairV(Edge0, Centre)
    [] name = <<2, 0, 0, 2>> -> {SV(Minus, Edge0, Plus), SV(Plus, Edge0, Minus),
                                 SH(Plus, Minus, Edge1), SH(Minus, Plus, Edge1)}
    [] name = <<1, 0, 2, 0>> -> {SV(Centre, Edge0, Plus)} \cup PairH(Edge0, Centre)
    [] name = <<2, 0, 1, 0>> -> {SH(Centre, Edge0, Plus)} \cup PairV(Edge0, Centre)
    [] name = <<2, 0, 2, 0>> -> {SV(Plus, Edge0, Plus), SV(Minus, Edge0, Minus),
                                 SH(Plus, Edge0, Plus), SH(Minus, Edge0, Minus)}
    [] name = <<1, 1, 0, 2>> -> {SV(Centre, Edge0, Edge1)} \cup PairH(Centre, Edge1)
    [] name = <<2, 2, 0, 1>> -> {SH(Centre, Plus, Edge1)} \cup PairV(Edge0, Edge1)
    [] name = <<2, 2, 0, 2>> -> PairV(Edge0, Edge1) \cup PairH(Plus, Edge1)
    [] name = <<1, 1, 2, 0>> -> {SV(Centre, Edge0, Edge1)} \cup PairH(Edge0, Centre)
    [] name = <<2, 2, 1, 0>> -> {SH(Centre, Edge0, Minus)} \cup PairV(Edge0, Edge1)
    [] name = <<2, 2, 2, 0>> -> PairV(Edge0, Edge1) \cup PairH(Edge0, Minus)
    [] name = <<0, 1, 2, 2>> -> PairH(Edge0, Edge1) \cup {SV(Centre, Plus, Edge1)}
    [] name = <<0, 2, 1, 1>> -> {SH(Centre, Edge0, Edge1)} \cup PairV(Centre, Edge1)
    [] name = <<0, 2, 2, 2>> -> PairH(Edge0, Edge1) \cup PairV(Plus, Edge1)
    [] name = <<1, 0, 2, 2>> -> PairH(Edge0, Edge1) \cup {SV(Centre, Edge0, Minus)}
    [] name = <<2, 0, 1, 1>> -> {SH(Centre, Edge0, Edge1)} \cup PairV(Edge0, Centre)
    [] name = <<2, 0, 2, 2>> -> PairH(Edge0, Edge1) \cup PairV(Edge0, Minus)
    [] name = <<1, 1, 2, 2>> -> PairH(Edge0, Edge1) \cup {SV(Centre, Edge0, Edge1)}
    [] name = <<2, 2, 1, 1>> -> {SH(Centre, Edge0, Edge1)} \cup PairV(Edge0, Edge1)
    [] name = <<2, 2, 2, 2>> -> PairH(Edge0, Edge1) \cup PairV(Edge0, Edge1)

(* The names there are: all of a character's lines of a direction are alike *)
Names ==
  {n \in [1..4 -> 0..2] :
     /\ \E s \in 1..4 : n[s] = 2
     /\ {n[1], n[2]} \in {{0}, {0, 1}, {0, 2}, {1}, {2}} /\ {n[3], n[4]} \in {{0}, {0, 1}, {0, 2}, {1}, {2}}
     /\ n \notin {<<2, 0, 0, 0>>, <<0, 2, 0, 0>>, <<0, 0, 2, 0>>, <<0, 0, 0, 2>>}}

At(p, length, d) ==
  CASE p = Edge0 -> 0 [] p = Minus -> (length \div 2) - d [] p = Centre -> length \div 2
    [] p = Plus -> (length \div 2) + d [] p = Edge1 -> length

DoubleRects(name, w, h) ==
  LET t == Light(w)
      d == Apart(w)
      End(p, length, away) == IF p \in {Edge0, Edge1} THEN At(p, length, d)
                              ELSE IF away = "start" THEN At(p, length, d) - (t \div 2)
                              ELSE At(p, length, d) + (t \div 2)
      Drawn(s) ==
        IF s.along = "h"
        THEN Rect(End(s.from, w, "start"), At(s.at, h, d) - (t \div 2), End(s.to, w, "end"), At(s.at, h, d) + (t \div 2))
        ELSE Rect(At(s.at, w, d) - (t \div 2), End(s.from, h, "start"), At(s.at, w, d) + (t \div 2), End(s.to, h, "end"))
  IN {Drawn(s) : s \in DoubleStrokes(name)}

(***************************************************************************)
(* Dashes, arcs and blocks                                                 *)
(***************************************************************************)
DashNames == {<<count, weight, lying>> : count \in 2..4, weight \in {"light", "heavy"}, lying \in BOOLEAN}
Dashes(count, weight, w, h, lying) ==
  LET k == Thickness(w, weight)
      period == (IF lying THEN w ELSE h) \div count
      gap == Min({Max({period \div 3, Px}), period \div 2})
      From(i) == (i * period) + (gap \div 2)
      To(i) == From(i) + period - gap
      Beside(length) == (length \div 2) - (k \div 2)
  IN {IF lying THEN Rect(From(i), Beside(h), To(i), Beside(h) + k) ELSE Rect(Beside(w), From(i), Beside(w) + k, To(i))
      : i \in 0 .. count - 1}

Corners == {"top_left", "top_right", "bottom_right", "bottom_left"}
ArcBounds(corner, w, h) ==
  LET half == Light(w) \div 2
      left == corner \in {"top_left", "bottom_left"}
      top == corner \in {"top_left", "top_right"}
  IN Rect(IF left THEN (w \div 2) - half ELSE 0, IF top THEN (h \div 2) - half ELSE 0,
          IF left THEN w ELSE (w \div 2) + half, IF top THEN h ELSE (h \div 2) + half)

(* paint_arc: a border on the two edges that meet at the rounded corner     *)
ArcRects(corner, w, h) ==
  LET b == ArcBounds(corner, w, h)
      t == Light(w)
      top == corner \in {"top_left", "top_right"}
      left == corner \in {"top_left", "bottom_left"}
  IN {Rect(b.x0, IF top THEN b.y0 ELSE b.y1 - t, b.x1, IF top THEN b.y0 + t ELSE b.y1),
      Rect(IF left THEN b.x0 ELSE b.x1 - t, b.y0, IF left THEN b.x0 + t ELSE b.x1, b.y1)}

Lower(n, w, h) == {Rect(0, h - (n * (h \div 8)), w, h)}
LeftBlock(n, w, h) == {Rect(0, 0, n * (w \div 8), h)}
Quadrant(q, w, h) ==
  LET hw == w \div 2
      hh == h \div 2
  IN CASE q = "ul" -> Rect(0, 0, hw, hh) [] q = "ur" -> Rect(hw, 0, w, hh)
       [] q = "ll" -> Rect(0, hh, hw, h) [] q = "lr" -> Rect(hw, hh, w, h)
Halves(name, w, h) ==
  CASE name = "upper" -> {Rect(0, 0, w, h \div 2)} [] name = "right" -> {Rect(w \div 2, 0, w, h)}
    [] name = "upper eighth" -> {Rect(0, 0, w, h \div 8)} [] name = "right eighth" -> {Rect(w - (w \div 8), 0, w, h)}

(* Everything that is drawn from the cell box                               *)
SpriteFor(w, h) ==
  {ArmRects(arms, w, h) : arms \in ArmSets} \cup {DoubleRects(name, w, h) : name \in Names}
  \cup {Dashes(d[1], d[2], w, h, d[3]) : d \in DashNames} \cup {ArcRects(c, w, h) : c \in Corners}
  \cup {Lower(n, w, h) : n \in 1..8} \cup {LeftBlock(n, w, h) : n \in 1..7}
  \cup {{Quadrant(q, w, h) : q \in some} : some \in SUBSET {"ul", "ur", "ll", "lr"}}
  \cup {Halves(name, w, h) : name \in {"upper", "right", "upper eighth", "right eighth"}}

(* snap_rect: every edge to a device pixel, and never nothing               *)
Snap(r, ox, oy) ==
  LET x0 == Round(ox + r.x0)
      y0 == Round(oy + r.y0)
  IN Rect(x0, y0, Max({Round(ox + r.x1), x0 + Px}), Max({Round(oy + r.y1), y0 + Px}))
SnapAll(rects, ox, oy) == {Snap(r, ox, oy) : r \in rects}
-----------------------------------------------------------------------------
(* Cells of whole and of broken sizes, somewhere in the grid                *)
Sizes == {<<1008, 2016>>, <<1152, 2304>>, <<1224, 2448>>, <<2880, 4608>>}
Places == {<<n, m>> : n \in 0..2, m \in 0..1}
Cells == {<<size, place>> : size \in Sizes, place \in Places}

(* The strokes that reach a grid line, as their extent along it             *)
Meet(rects, side, line) ==
  CASE side = "left" -> {<<r.y0, r.y1>> : r \in {r \in rects : r.x0 = line}}
    [] side = "right" -> {<<r.y0, r.y1>> : r \in {r \in rects : r.x1 = line}}
    [] side = "up" -> {<<r.x0, r.x1>> : r \in {r \in rects : r.y0 = line}}
    [] side = "down" -> {<<r.x0, r.x1>> : r \in {r \in rects : r.y1 = line}}

All(weight) == [s \in Sides |-> weight]
NameOf(s) == CASE s = "up" -> 1 [] s = "down" -> 2 [] s = "left" -> 3 [] s = "right" -> 4

(* Every character meets its neighbours on each side where and as wide as   *)
(* the line its name gives that side, which is the same for all of them    *)
Joined(cell) ==
  LET w == cell[1][1]
      h == cell[1][2]
      ox == cell[2][1] * w
      oy == cell[2][2] * h
      Line(s) == Round(CASE s = "left" -> ox [] s = "right" -> ox + w [] s = "up" -> oy [] s = "down" -> oy + h)
      Ends(rects, s) == Meet(SnapAll(rects, ox, oy), s, Line(s))
      Own(weight, s) == CASE weight = "none" -> {}
                          [] weight = "double" -> Ends(DoubleRects(<<2, 2, 2, 2>>, w, h), s)
                          [] OTHER -> Ends(ArmRects(All(weight), w, h), s)
      Named(n) == CASE n = 0 -> "none" [] n = 1 -> "light" [] n = 2 -> "double"
  IN \A s \in Sides :
       /\ \A arms \in ArmSets : Ends(ArmRects(arms, w, h), s) = Own(arms[s], s)
       /\ \A name \in Names : Ends(DoubleRects(name, w, h), s) = Own(Named(name[NameOf(s)]), s)
       /\ \A c \in Corners :
            Ends(ArcRects(c, w, h), s) =
              IF s \in {IF c \in {"top_left", "bottom_left"} THEN "right" ELSE "left",
                       IF c \in {"top_left", "top_right"} THEN "down" ELSE "up"}
              THEN Own("light", s) ELSE {}

(* Strokes at right angles leave no notch: single lines go across each      *)
(* other, and a double line that ends inside its cell ends in another one  *)
(* over its whole width                                                    *)
Lying(r) == r.x1 - r.x0 > r.y1 - r.y0
Crossed(rects) ==
  \A r, o \in rects : Lying(r) /\ ~Lying(o) => r.x0 <= o.x0 /\ o.x1 <= r.x1 /\ o.y0 <= r.y0 /\ r.y1 <= o.y1

Within(outer, end) == outer.x0 <= end.x0 /\ end.x1 <= outer.x1 /\ outer.y0 <= end.y0 /\ end.y1 <= outer.y1
Closed(rects, w, h) ==
  LET Inside(r) == IF Lying(r) THEN {Rect(x, r.y0, x, r.y1) : x \in {r.x0, r.x1} \ {0, w}}
                   ELSE {Rect(r.x0, y, r.x1, y) : y \in {r.y0, r.y1} \ {0, h}}
  IN \A r \in rects : \A end \in Inside(r) : \E o \in rects \ {r} : Within(o, end)

(* Characters that share a cell or a border between them leave no gap and   *)
(* do not overlap: halves, eighths, quadrants; dashes of two pixels and more  *)
(* stay apart, from cell to cell too                                       *)
Tiles(a, b) == a.x1 <= b.x0 \/ b.x1 <= a.x0 \/ a.y1 <= b.y0 \/ b.y1 <= a.y0
Area(r) == ((r.x1 - r.x0) \div Px) * ((r.y1 - r.y0) \div Px)
Fills(rects, whole) ==
  /\ \A a, b \in rects : a = b \/ Tiles(a, b)
  /\ FoldFunctionOnSet(+, 0, [r \in rects |-> Area(r)], rects) = Area(whole)

Tiled(cell) ==
  LET w == cell[1][1]
      h == cell[1][2]
      ox == cell[2][1] * w
      oy == cell[2][2] * h
      Fill(rects) == Fills(SnapAll(rects, ox, oy), Snap(Rect(0, 0, w, h), ox, oy))
  IN /\ \A arms \in ArmSets : Crossed(ArmRects(arms, w, h))
     /\ \A name \in Names : Closed(DoubleRects(name, w, h), w, h)
     /\ Fill(Halves("upper", w, h) \cup Lower(4, w, h)) /\ Fill(Halves("upper eighth", w, h) \cup Lower(7, w, h))
     /\ Fill(LeftBlock(4, w, h) \cup Halves("right", w, h)) /\ Fill(LeftBlock(7, w, h) \cup Halves("right eighth", w, h))
     /\ Fill({Quadrant(q, w, h) : q \in {"ul", "ur", "ll", "lr"}})
     /\ \A n \in 1..7 : \A r \in SnapAll(Lower(n, w, h), ox, oy), b \in SnapAll(Lower(n + 1, w, h), ox, oy) :
          b.y0 < r.y0 /\ b.y1 = r.y1
     /\ \A d \in DashNames :
          LET lying == d[3]
              here == SnapAll(Dashes(d[1], d[2], w, h, lying), ox, oy)
              next == SnapAll(Dashes(d[1], d[2], w, h, lying), IF lying THEN ox + w ELSE ox, IF lying THEN oy ELSE oy + h)
          IN w >= 2 * Px * d[1] =>
               /\ Cardinality(here) = d[1]
               /\ \A a, b \in here \cup next : a = b \/ (IF lying THEN a.x1 < b.x0 \/ b.x1 < a.x0 ELSE a.y1 < b.y0 \/ b.y1 < a.y0)
     /\ \A rects \in SpriteFor(w, h) : \A r \in SnapAll(rects, ox, oy) : Within(Snap(Rect(0, 0, w, h), ox, oy), r)
=============================================================================
