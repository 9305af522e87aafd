----------------------------- MODULE LayoutTree -----------------------------
(***************************************************************************)
(* The tree of Splits as the code has it, a recursive value, worked on by  *)
(* recursive functions (st-proto/src/control.rs, persist.rs, actor.rs,     *)
(* packages/app/src/state/layout.ts), next to the paths of module Layout:  *)
(* the operators on paths compute what the recursive functions compute.    *)
(***************************************************************************)
EXTENDS Layout, FiniteSets

CONSTANTS
  Surfaces,   (* the Surfaces a Tab may show, numbers in order of creation   *)
  Ratios      (* ratios a client may ask for, in thousandths                 *)

VARIABLES
  tree,       (* the layout of a Tab, or None when its last Pane closed      *)
  paths       (* the same in paths                                           *)

None == [kind |-> "none"]
TreeLeaf(u) == [kind |-> "leaf", surface |-> u]
TreeSplit(r, a, b) == [kind |-> "split", ratio |-> r, first |-> a, second |-> b]

RECURSIVE TreeLeaves(_)
TreeLeaves(t) ==
  CASE t.kind = "none" -> <<>>
    [] t.kind = "leaf" -> <<t.surface>>
    [] OTHER -> TreeLeaves(t.first) \o TreeLeaves(t.second)

RECURSIVE SplitTree(_, _, _)
SplitTree(t, u, new) ==
  IF t.kind = "leaf"
    THEN IF t.surface = u THEN TreeSplit(Half, TreeLeaf(u), TreeLeaf(new)) ELSE t
    ELSE IF u \in ToSet(TreeLeaves(t.first))
           THEN [t EXCEPT !.first = SplitTree(@, u, new)]
           ELSE [t EXCEPT !.second = SplitTree(@, u, new)]

(* without_leaf, of a Pane of the tree *)
RECURSIVE WithoutTree(_, _)
WithoutTree(t, u) ==
  IF t.kind = "leaf" THEN None
  ELSE IF u \in ToSet(TreeLeaves(t.first))
         THEN LET rest == WithoutTree(t.first, u)
              IN IF rest = None THEN t.second ELSE [t EXCEPT !.first = rest]
         ELSE LET rest == WithoutTree(t.second, u)
              IN IF rest = None THEN t.first ELSE [t EXCEPT !.second = rest]

(* persist_layout and reseed_layout, the Panes of keep being known *)
RECURSIVE KeptTree(_, _)
KeptTree(t, keep) ==
  IF t = None THEN None
  ELSE IF t.kind = "leaf" THEN IF t.surface \in keep THEN t ELSE None
  ELSE LET a == KeptTree(t.first, keep)
           b == KeptTree(t.second, keep)
       IN IF a = None THEN b ELSE IF b = None THEN a ELSE TreeSplit(t.ratio, a, b)

RECURSIVE RatioTree(_, _, _)
RatioTree(t, path, r) ==
  IF path = <<>> THEN [t EXCEPT !.ratio = Clamped(r)]
  ELSE IF Head(path) = 0 THEN [t EXCEPT !.first = RatioTree(@, Tail(path), r)]
  ELSE [t EXCEPT !.second = RatioTree(@, Tail(path), r)]

RECURSIVE FirstOf(_)
FirstOf(t) == IF t.kind = "leaf" THEN t.surface ELSE FirstOf(t.first)

RECURSIVE SiblingOf(_, _)
SiblingOf(t, u) ==
  IF t.kind = "leaf" THEN None
  ELSE IF t.first = TreeLeaf(u) THEN TreeLeaf(FirstOf(t.second))
  ELSE IF t.second = TreeLeaf(u) THEN TreeLeaf(FirstOf(t.first))
  ELSE LET found == SiblingOf(t.first, u)
       IN IF found # None THEN found ELSE SiblingOf(t.second, u)

RECURSIVE PathsOf(_)
PathsOf(t) ==
  CASE t.kind = "none" -> NoLayout
    [] t.kind = "leaf" -> Leaf(t.surface)
    [] OTHER ->
       LET a == PathsOf(t.first)
           b == PathsOf(t.second)
           Under(side, S) == {<<side>> \o p : p \in S}
       IN [pane  |-> [p \in Under(0, DOMAIN a.pane) \cup Under(1, DOMAIN b.pane) |->
                        IF p[1] = 0 THEN a.pane[Tail(p)] ELSE b.pane[Tail(p)]],
           ratio |-> [p \in {<<>>} \cup Under(0, DOMAIN a.ratio) \cup Under(1, DOMAIN b.ratio) |->
                        IF p = <<>> THEN t.ratio
                        ELSE IF p[1] = 0 THEN a.ratio[Tail(p)] ELSE b.ratio[Tail(p)]]]

-----------------------------------------------------------------------------
Shown == ToSet(TreeLeaves(tree))

Init ==
  \E u \in Surfaces : tree = TreeLeaf(u) /\ paths = Leaf(u)

Split == \E u \in Shown, new \in Surfaces \ Shown :
  /\ tree' = SplitTree(tree, u, new)
  /\ paths' = SplitLeaf(paths, u, new)

Close == \E u \in Shown :
  /\ tree' = WithoutTree(tree, u)
  /\ paths' = WithoutLeaf(paths, u)

Ratio == \E p \in DOMAIN paths.ratio, r \in Ratios :
  /\ tree' = RatioTree(tree, p, r)
  /\ paths' = SetRatio(paths, p, r)

Next == tree # None /\ (Split \/ Close \/ Ratio)

Spec == Init /\ [][Next]_<<tree, paths>>

-----------------------------------------------------------------------------
(* The two representations stay the same tree (split_leaf, without_leaf,    *)
(* set_ratio), and dropping Panes, whichever, collapses the same Splits in  *)
(* both: what is persisted of a Tab and what is restarted of it             *)
(* (persist_layout, reseed_layout).                                         *)
SameTree ==
  /\ paths = PathsOf(tree) /\ LeafSeq(paths) = TreeLeaves(tree)
  /\ \A keep \in SUBSET Shown : Collapsed(paths, keep) = PathsOf(KeptTree(tree, keep))

(* The client moves the focus to a Pane that is still there when the one    *)
(* that had it is gone, next to where it was (siblingLeaf of layout.ts      *)
(* against without_leaf of the server).                                     *)
FocusSurvives ==
  \A u \in Shown : Cardinality(Shown) > 1 =>
    LET next == SiblingOf(tree, u).surface IN
    /\ next = SiblingLeaf(paths, u)
    /\ next \in ToSet(TreeLeaves(WithoutTree(tree, u)))
=============================================================================
