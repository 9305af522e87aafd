------------------------------- MODULE Layout -------------------------------
(***************************************************************************)
(* The tree of Splits of a Tab (st-proto/src/control.rs, Layout).  A tree  *)
(* is kept as its leaves: a path of 0s (first) and 1s (second) from the    *)
(* root leads to every Pane and to every Split.                            *)
(***************************************************************************)
EXTENDS Naturals, Sequences, SequencesExt

(* The numbers of a finite set from the smallest to the largest, and what a   *)
(* sequence has at those positions                                          *)
Ordered(numbers) == [k \in 1..Cardinality(numbers) |->
                       CHOOSE i \in numbers : Cardinality({j \in numbers : j < i}) = k - 1]
Picked(s, places) == [k \in 1..Cardinality(places) |-> s[Ordered(places)[k]]]

(* SplitRatio, in thousandths *)
Half == 500
Clamped(r) == IF r < 100 THEN 100 ELSE IF r > 900 THEN 900 ELSE r

Leaf(u) == [pane |-> [p \in {<<>>} |-> u], ratio |-> <<>>]

(* The tree with no Pane, which no Tab ever shows *)
NoLayout == [pane |-> <<>>, ratio |-> <<>>]

Leaves(l) == Range(l.pane)
(* The Surfaces of a tree in tree order, the first side of a Split before    *)
(* the second (leaves)                                                      *)
Before(p, q) == \E i \in DOMAIN p \cap DOMAIN q :
                  SubSeq(p, 1, i - 1) = SubSeq(q, 1, i - 1) /\ p[i] < q[i]
LeafSeq(l) ==
  [i \in 1..Cardinality(DOMAIN l.pane) |->
     l.pane[CHOOSE p \in DOMAIN l.pane : Cardinality({q \in DOMAIN l.pane : Before(q, p)}) = i - 1]]

FirstLeaf(l) == l.pane[CHOOSE p \in DOMAIN l.pane : \A i \in DOMAIN p : p[i] = 0]

SplitLeaf_NewFirst(l, u, new) ==
  LET at == CHOOSE p \in DOMAIN l.pane : l.pane[p] = u
  IN [pane  |-> [p \in (DOMAIN l.pane \ {at}) \cup {Append(at, 0), Append(at, 1)} |->
                   IF p = Append(at, 0) THEN new ELSE IF p = Append(at, 1) THEN u ELSE l.pane[p]],
      ratio |-> [p \in DOMAIN l.ratio \cup {at} |-> IF p = at THEN Half ELSE l.ratio[p]]]

(* split_leaf: the Pane becomes the first half of an even Split *)
SplitLeaf(l, u, new) ==
  LET at     == CHOOSE p \in DOMAIN l.pane : l.pane[p] = u
      halves == {Append(at, 0), Append(at, 1)}
  IN [pane  |-> [p \in (DOMAIN l.pane \ {at}) \cup halves |->
                   IF p = Append(at, 0) THEN u ELSE IF p = Append(at, 1) THEN new ELSE l.pane[p]],
      ratio |-> [p \in DOMAIN l.ratio \cup {at} |-> IF p = at THEN Half ELSE l.ratio[p]]]

(* The Panes showing a member of keep, and every Split left with one side   *)
(* collapsed into it (without_leaf; persist_layout; reseed_layout).         *)
Collapsed(l, keep) ==
  LET kept     == {p \in DOMAIN l.pane : l.pane[p] \in keep}
      Alive(q) == \E p \in kept : IsPrefix(q, p)
      Fork(p, i) == Alive(Append(SubSeq(p, 1, i - 1), 1 - p[i]))
      Trim(p)  == Picked(p, {i \in DOMAIN p : Fork(p, i)})
      splits   == {p \in DOMAIN l.ratio : Alive(Append(p, 0)) /\ Alive(Append(p, 1))}
  IN [pane  |-> [q \in {Trim(p) : p \in kept} |-> l.pane[CHOOSE p \in kept : Trim(p) = q]],
      ratio |-> [q \in {Trim(p) : p \in splits} |-> l.ratio[CHOOSE p \in splits : Trim(p) = q]]]

WithoutLeaf(l, u) == Collapsed(l, Leaves(l) \ {u})

SetRatio(l, path, r) == [l EXCEPT !.ratio[path] = Clamped(r)]

(* layout.ts: the Pane that takes the focus when the one showing u closes,  *)
(* the first of its sibling's                                               *)
SiblingLeaf(l, u) ==
  LET at      == CHOOSE p \in DOMAIN l.pane : l.pane[p] = u
      sibling == Append(Front(at), 1 - Last(at))
  IN l.pane[CHOOSE p \in DOMAIN l.pane :
              IsPrefix(sibling, p) /\ \A i \in Len(at) + 1..Len(p) : p[i] = 0]

(* The same tree over the Surfaces that take the place of its own *)
Respawned(l, instead) == [l EXCEPT !.pane = [p \in DOMAIN @ |-> instead[@[p]]]]
=============================================================================
