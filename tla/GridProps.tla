----------------------------- MODULE GridProps ------------------------------
(***************************************************************************)
(* The props of a <terminal-grid> (st-native/src/props.rs, theme.rs): React*)
(* sets one at a time, only those that changed, null for one that is gone, *)
(* and the element answers what has to be done again.  A value is one of   *)
(* the spellings of its prop, or else not a value of it.                   *)
(***************************************************************************)
EXTENDS Naturals, Sequences, SequencesExt

(* What each spelling of a prop stands for                                  *)
Parse ==
  [surfaceId |-> [n7 |-> "7", text7 |-> "7", n8 |-> "8"], socketPath |-> [a |-> "a", b |-> "b"],
   buildId |-> [a |-> "a", b |-> "b"], attachMode |-> [active |-> "active", Passive |-> "passive"],
   fontFamily |-> [Menlo |-> "Menlo", trimmed |-> "Menlo", Fira |-> "Fira"],
   fontSize |-> [n13 |-> "13", text13 |-> "13", n0 |-> "4", nan |-> "4", n9999 |-> "200"],
   lineHeight |-> [n1 |-> "1", n0 |-> "0.8", n9 |-> "4"], theme |-> [dark |-> "dark", part |-> "dark bg, default fg"],
   cursorStyle |-> [block |-> "block", bar |-> "beam", Underline |-> "underline"], cursorBlink |-> [yes |-> "yes", no |-> "no"],
   padding |-> [n4 |-> "4 4 4 4", pair |-> "1 2 1 2", four |-> "1 2 3 4", sides |-> "1 4 4 6"],
   passthroughKeys |-> [list |-> "list", typo |-> "list", other |-> "other"],
   scrollbar |-> [always |-> "always", off |-> "never", auto |-> "auto"], focused |-> [yes |-> "yes", no |-> "no"],
   wordChars |-> [some |-> "some"], altScreenScroll |-> [off |-> "off", arrows |-> "arrows"],
   backspaceSendsDel |-> [yes |-> "yes", no |-> "no"], altSendsEsc |-> [yes |-> "yes", no |-> "no"]]

Keys == DOMAIN Parse
Default ==
  [surfaceId |-> "none", socketPath |-> "none", buildId |-> "st-native", attachMode |-> "active", fontFamily |-> "Menlo",
   fontSize |-> "14", lineHeight |-> "1", theme |-> "default", cursorStyle |-> "block", cursorBlink |-> "yes",
   padding |-> "4 4 4 6", passthroughKeys |-> "none", scrollbar |-> "auto", focused |-> "none", wordChars |-> "default",
   altScreenScroll |-> "arrows", backspaceSendsDel |-> "yes", altSendsEsc |-> "yes"]

Redo(key) ==
  CASE key \in {"surfaceId", "socketPath", "attachMode"} -> {"attach"}
    [] key \in {"fontFamily", "fontSize", "lineHeight", "padding"} -> {"metrics"}
    [] key = "focused" -> {"focus"} [] OTHER -> {}

(* A build id that is none is ignored, any other prop goes to its default   *)
NextOf(props, key, value) ==
  IF value \in DOMAIN Parse[key] THEN Parse[key][value] ELSE IF key = "buildId" THEN props[key] ELSE Default[key]

Set(grid, key, value) ==
  LET next == NextOf(grid.props, key, value)
  IN [props |-> [grid.props EXCEPT ![key] = next],
      effect |-> grid.effect \cup (IF key = "theme" THEN {"theme"} ELSE IF next # grid.props[key] THEN Redo(key) ELSE {})]

(* Everything a shaped line depends on                                      *)
FontKey(props) == <<props.fontFamily, props.fontSize, props.lineHeight>>
-----------------------------------------------------------------------------
Updates == UNION {{<<key, value>> : value \in DOMAIN Parse[key] \cup {"null"}} : key \in Keys}
SetAll(props, updates) == FoldLeft(LAMBDA g, u : Set(g, u[1], u[2]), [props |-> props, effect |-> {}], updates)

(* The props are those React has now, whatever they were and in whatever    *)
(* order they came; what a change needs is done again, and nothing for a   *)
(* prop that is set to what it is                                          *)
Declared(update) ==
  \A first, other \in Updates :
    LET before == SetAll(Default, <<first>>).props
        after == SetAll(before, <<update>>)
    IN /\ first[1] = update[1] /\ update[1] # "buildId" => after.props = SetAll(Default, <<update>>).props
       /\ first[1] = other[1] /\ other[1] # update[1] =>
            SetAll(before, <<update, other>>) = SetAll(before, <<other, update>>)
       /\ SetAll(after.props, <<update>>).effect \subseteq {"theme"}
       /\ FontKey(after.props) # FontKey(before) => "metrics" \in after.effect
       /\ \E k \in {"surfaceId", "socketPath", "attachMode"} : after.props[k] # before[k] => "attach" \in after.effect
=============================================================================
