------------------------------ MODULE Palette ------------------------------
(***************************************************************************)
(* The colours a cell is painted in (st-client-core/src/palette.rs): a     *)
(* theme as React writes it (st-native/src/theme.rs) becomes a palette, a  *)
(* style is resolved against it when the cell is painted.                  *)
(***************************************************************************)
EXTENDS Naturals, Sequences, SequencesExt, FiniteSetsExt

Byte == 0..255
Rgb == Byte \X Byte \X Byte
Grey(level) == <<level, level, level>>

(***************************************************************************)
(* theme.rs: a colour is a text of digits, a list of numbers or neither.   *)
(* Bad stands for a character that is no hexadecimal digit.                *)
(***************************************************************************)
Bad == 16
None == <<>>
Some(color) == <<color>>

ParseHex(digits) ==
  LET byte(i) == 16 * digits[i] + digits[i + 1] IN
  IF Bad \in Range(digits) THEN None
  ELSE IF Len(digits) = 3 THEN Some(<<17 * digits[1], 17 * digits[2], 17 * digits[3]>>)
  ELSE IF Len(digits) \in {6, 8} THEN Some(<<byte(1), byte(3), byte(5)>>)
  ELSE None

ParseColor(value) ==
  IF "hex" \in DOMAIN value THEN ParseHex(value.hex)
  ELSE IF "list" \in DOMAIN value /\ Len(value.list) >= 3
       THEN Some([i \in 1..3 |-> Min({255, value.list[i]})])
  ELSE None

Given(theme, name, default) ==
  LET color == IF name \in DOMAIN theme THEN ParseColor(theme[name]) ELSE None
  IN IF color = None THEN default ELSE color[1]

(***************************************************************************)
(* palette.rs: the table of 256 colours                                    *)
(***************************************************************************)
CubeComponent(c) == IF c = 0 THEN 0 ELSE 55 + 40 * c
CubeRgb(index) ==
  LET i == index - 16
  IN <<CubeComponent(i \div 36), CubeComponent((i \div 6) % 6), CubeComponent(i % 6)>>
GreyRgb(index) == Grey(8 + 10 * (index - 232))

Rebuild(ansi) == [i \in Byte |-> IF i < 16 THEN ansi[i] ELSE IF i < 232 THEN CubeRgb(i) ELSE GreyRgb(i)]

\* Two of the sixteen are told apart from the rest of the default theme.
DefaultAnsi == [i \in 0..15 |-> IF i = 1 THEN <<205, 49, 49>> ELSE IF i = 9 THEN <<241, 76, 76>> ELSE Grey(2 * i)]

\* set_ansi rebuilds the table; a list too short leaves the later entries alone.
PaletteFromJson(theme) ==
  LET list == IF "ansi" \in DOMAIN theme THEN theme.ansi ELSE <<>>
      entry(i) == IF i < Len(list) THEN ParseColor(list[i + 1]) ELSE None
      ansi == [i \in 0..15 |-> IF entry(i) = None THEN DefaultAnsi[i] ELSE entry(i)[1]]
  IN [fg |-> Given(theme, "fg", Grey(212)), bg |-> Given(theme, "bg", Grey(30)),
      selectionBg |-> Given(theme, "selectionBg", <<58, 61, 65>>),
      selectionFg |-> IF "selectionFg" \in DOMAIN theme THEN ParseColor(theme.selectionFg) ELSE None,
      boldIsBright |-> "boldIsBright" \in DOMAIN theme /\ theme.boldIsBright,
      table |-> Rebuild(ansi)]

(***************************************************************************)
(* resolve_style                                                           *)
(***************************************************************************)
Default == [kind |-> "default"]
Indexed(i) == [kind |-> "indexed", index |-> i]
True(rgb) == [kind |-> "rgb", rgb |-> rgb]

Resolve(palette, color, default) ==
  CASE color.kind = "default" -> default
    [] color.kind = "indexed" -> palette.table[color.index]
    [] color.kind = "rgb" -> color.rgb

Brighten(color) == IF color.kind = "indexed" /\ color.index < 8 THEN Indexed(color.index + 8) ELSE color

\* The nearest to 0.7 of each channel.
Scale(rgb) == [i \in 1..3 |-> (7 * rgb[i] + 5) \div 10]

ResolveStyle(palette, style, selected) ==
  LET bright == palette.boldIsBright /\ "bold" \in style.attrs
      own == Resolve(palette, IF bright THEN Brighten(style.fg) ELSE style.fg, palette.fg)
      paper == Resolve(palette, style.bg, palette.bg)
      swapped == "inverse" \in style.attrs
      bg == IF selected THEN palette.selectionBg ELSE IF swapped THEN own ELSE paper
      ink == IF selected /\ palette.selectionFg # None THEN palette.selectionFg[1]
             ELSE IF swapped THEN paper ELSE own
      fg == IF "hidden" \in style.attrs THEN bg ELSE IF "dim" \in style.attrs THEN Scale(ink) ELSE ink
  IN [fg |-> fg, bg |-> bg,
      underline |-> Resolve(palette, style.underline, fg),
      bgIsDefault |-> style.bg = Default /\ ~swapped /\ ~selected]
-----------------------------------------------------------------------------
Hex(digits) == [hex |-> digits]
List(numbers) == [list |-> numbers]
Colors == {Default, Indexed(1), Indexed(9), Indexed(244), True(<<5, 100, 255>>)}
Attrs == SUBSET {"bold", "dim", "inverse", "hidden"}

\* What React may send of a theme.
Red == Hex(<<15, 0, 0>>)
Blue == Hex(<<0, 0, 0, 0, 15, 15, 8, 0>>)
Themes ==
  {[fg |-> Red], [bg |-> Blue, selectionFg |-> Red], [selectionBg |-> List(<<300, 4, 3>>), boldIsBright |-> TRUE],
   [ansi |-> <<Red, Hex(<<Bad, 0, 0>>), Blue>>, fg |-> Hex(<<1, 2>>)], [ansi |-> <<List(<<1, 2>>), Blue>>, boldIsBright |-> TRUE],
   [selectionFg |-> Hex(<<>>)]}
Painters == [theme : Themes, fg : Colors, bg : Colors, attrs : Attrs]

Before(a, b) == \E i \in 1..3 : a[i] < b[i] /\ \A j \in 1 .. i - 1 : a[j] = b[j]

\* The colours above the sixteen are xterm's whatever the theme, each its own.
Tabled(palette) ==
  /\ \A i \in Byte : palette.table[i] \in Rgb
  /\ \A i \in 16..230 : Before(palette.table[i], palette.table[i + 1])
  /\ palette.table[16] = Grey(0) /\ palette.table[231] = Grey(255)
  /\ \A i \in 232..254 : Before(palette.table[i], palette.table[i + 1])
  /\ palette.table[232] = Grey(8) /\ palette.table[255] = Grey(238)

\* A cell without a quad shows the element's own background (element.rs).
Behind(palette, looks) == IF looks.bgIsDefault THEN palette.bg ELSE looks.bg

\* Whatever the theme, what shows behind a character is what its style resolved to and
\* hidden text is invisible on it; reversing swaps the two colours; the selection lies over
\* reversed cells too and leaves each character its colour, unless the theme has one.
Inked(p) ==
  LET palette == PaletteFromJson(p.theme)
      style(attrs, fg, bg) == [fg |-> fg, bg |-> bg, underline |-> Default, attrs |-> attrs]
      looks(selected) == ResolveStyle(palette, style(p.attrs, p.fg, p.bg), selected)
      plain == p.attrs \ {"inverse", "dim", "hidden"}
      upright == ResolveStyle(palette, style(plain, p.fg, p.bg), FALSE)
      reversed == ResolveStyle(palette, style(plain \cup {"inverse"}, p.fg, p.bg), FALSE)
  IN /\ Tabled(palette)
     /\ \A selected \in BOOLEAN :
          /\ Behind(palette, looks(selected)) = looks(selected).bg
          /\ "hidden" \in p.attrs => looks(selected).fg = Behind(palette, looks(selected))
          /\ \A i \in 1..3 : looks(selected).fg[i] \in Byte
          /\ looks(selected).underline = looks(selected).fg
     /\ looks(TRUE).bg = palette.selectionBg
     /\ <<reversed.fg, reversed.bg>> = <<upright.bg, upright.fg>>
     /\ p.attrs \cap {"dim", "hidden"} = {} /\ palette.selectionFg = None => looks(TRUE).fg = looks(FALSE).fg
     /\ palette.selectionFg # None /\ p.attrs \cap {"dim", "hidden"} = {} => looks(TRUE).fg = palette.selectionFg[1]
=============================================================================
