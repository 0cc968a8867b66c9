----------------------------- MODULE SearchTrees -----------------------------
(***************************************************************************)
(* tree.c: binary search trees, AVL trees and red-black trees, as values.   *)
(* A tree is Nil or a node with two trees.  What a call returns when it     *)
(* leaves no tree is marked: Fault stands for a NULL that was dereferenced, *)
(* Loop for a node that became its own child.                               *)
(*                                                                         *)
(* Recursion is by functions on the trees no higher than the one it starts  *)
(* from, so that the operators can be proved about.                         *)
(***************************************************************************)
EXTENDS Integers, Sequences

Nil == [mark |-> "nil"]
Fault == [mark |-> "fault"]
Loop == [mark |-> "loop"]
Marks == {Nil, Fault, Loop}

Colors == {"red", "black"}
Node(k, color, l, r) == [key |-> k, color |-> color, left |-> l, right |-> r]
Leaf(k, color) == Node(k, color, Nil, Nil)

\* The trees of at most n levels.
TreesUpTo[n \in Nat] ==
  IF n = 0 THEN {Nil}
  ELSE {Nil} \cup [key : Int, color : Colors,
                   left : TreesUpTo[n - 1], right : TreesUpTo[n - 1]]

Height(t) ==
  LET from[n \in Nat] == IF t \in TreesUpTo[n] THEN n ELSE from[n + 1] IN from[0]
UpTo(t) == TreesUpTo[Height(t)]

\* A node whose children are replaced; a fault below is a fault of the call.
Hang(t, l, r) ==
  IF Fault \in {t, l, r} THEN Fault
  ELSE IF Loop \in {t, l, r} THEN Loop ELSE Node(t.key, t.color, l, r)
HangLeft(t, l) == IF t = Fault THEN Fault ELSE Hang(t, l, t.right)
HangRight(t, r) == IF t = Fault THEN Fault ELSE Hang(t, t.left, r)
HangOn(t, side, s) == IF side = "left" THEN HangLeft(t, s) ELSE HangRight(t, s)
Paint(t, color) ==
  IF t \in Marks THEN t ELSE Node(t.key, color, t.left, t.right)

\* The nodes of a tree.
Nodes(t) ==
  LET nodes[s \in UpTo(t)] ==
        IF s = Nil THEN {} ELSE {s} \cup nodes[s.left] \cup nodes[s.right]
  IN  nodes[t]

(* What tree_traverse hands to display in order.                             *)
InOrder(t) ==
  LET walk[s \in UpTo(t)] ==
        IF s = Nil THEN <<>> ELSE walk[s.left] \o <<s.key>> \o walk[s.right]
  IN  walk[t]

\* The node found, or Nil.
Lookup(t, k) ==
  LET lookup[s \in UpTo(t)] ==
        IF s = Nil \/ s.key = k THEN s
        ELSE IF k < s.key THEN lookup[s.left] ELSE lookup[s.right]
  IN  lookup[t]

Attach(t, k) ==
  LET attach[s \in UpTo(t)] ==
        IF s = Nil THEN Leaf(k, "black")
        ELSE IF k < s.key THEN HangLeft(s, attach[s.left])
        ELSE HangRight(s, attach[s.right])
  IN  attach[t]

-----------------------------------------------------------------------------
(* Binary search tree: removal.                                             *)

Smallest(t) ==
  LET smallest[s \in UpTo(t)] ==
        IF s = Nil \/ s.left = Nil THEN s ELSE smallest[s.left]
  IN  smallest[t]
\* Fault: the right child of the smallest is lost.
DropSmallestOnly(t) ==
  LET drop[s \in UpTo(t)] ==
        IF s = Nil \/ s.left = Nil THEN Nil ELSE HangLeft(s, drop[s.left])
  IN  drop[t]
DropSmallest(t) ==
  LET drop[s \in UpTo(t)] ==
        IF s = Nil THEN Nil
        ELSE IF s.left = Nil THEN s.right ELSE HangLeft(s, drop[s.left])
  IN  drop[t]

\* The smallest of the right subtree is that subtree's root: its parent, as
\* far as retrieve_smallest tells, is then the parent lookup found, or none.
NoLeftBelow(t) == t.right # Nil /\ t.right.left = Nil

\* What replaces the node t when the parent is told right.
Replaced(t) ==
  IF t.right = Nil THEN t.left
  ELSE Hang(Smallest(t.right), t.left, DropSmallest(t.right))

\* The removal of the child of p on one side: the left child of p is
\* overwritten, and a right child that moves up becomes its own child.
RemoveChild(p, side) ==
  LET t == p[side] IN
  IF ~NoLeftBelow(t) THEN HangOn(p, side, Replaced(t))
  ELSE IF side = "left" THEN HangLeft(p, t.right.right)
  ELSE Loop

\* k is below t: BStree_remove has looked it up.
RemoveBelow(t, k) ==
  LET remove[p \in UpTo(t)] ==
        LET side == IF k < p.key THEN "left" ELSE "right" IN
        IF p = Nil THEN Nil
        ELSE IF p[side] # Nil /\ p[side].key = k THEN RemoveChild(p, side)
        ELSE HangOn(p, side, remove[p[side]])
  IN  remove[t]

BstRemove(t, k) ==
  IF t.key # k THEN RemoveBelow(t, k)
  ELSE IF NoLeftBelow(t) THEN Fault
  ELSE Replaced(t)

-----------------------------------------------------------------------------
(* AVL tree.                                                                *)

Tilt(t) == Height(t.left) - Height(t.right)
Leans(t) == Tilt(t) \notin -1..1

RotLL(t) ==
  IF t.left \in Marks THEN Fault
  ELSE HangRight(t.left, HangLeft(t, t.left.right))
RotRR(t) ==
  IF t.right \in Marks THEN Fault
  ELSE HangLeft(t.right, HangRight(t, t.right.left))
Then(t, Rot(_)) == IF t \in Marks THEN Fault ELSE Rot(t)
\* Fault: a single turn where a double one is due.
RotOnce(t) == RotLL(t)
RotLR(t) == Then(HangLeft(t, Then(t.left, RotRR)), RotLL)
RotRL(t) == Then(HangRight(t, Then(t.right, RotLL)), RotRR)

\* The nodes on the way to where k was attached.
Way(t, k) ==
  LET way[s \in UpTo(t)] ==
        IF s = Nil THEN {}
        ELSE {s} \cup way[IF k < s.key THEN s.left ELSE s.right]
  IN  way[t]
OnTheWay(t, k) == \E s \in Way(t, k) : Leans(s)

\* The deepest node out of balance on the way is turned, by where k is.
AvlTurn(t, k) ==
  IF ~Leans(t) THEN t
  ELSE IF k < t.key
  THEN IF t.left # Nil /\ k < t.left.key THEN RotLL(t) ELSE RotLR(t)
  ELSE IF t.right # Nil /\ k < t.right.key THEN RotRL(t) ELSE RotRR(t)
AvlRebalance(t, k) ==
  LET rebalance[s \in UpTo(t)] ==
        LET child == IF k < s.key THEN s.left ELSE s.right IN
        IF s = Nil THEN Nil
        ELSE IF ~OnTheWay(child, k) THEN AvlTurn(s, k)
        ELSE IF k < s.key THEN HangLeft(s, rebalance[child])
        ELSE HangRight(s, rebalance[child])
  IN  rebalance[t]

AvlAttach(t, k) ==
  IF t = Nil THEN Leaf(k, "black") ELSE AvlRebalance(Attach(t, k), k)

\* After a removal: nothing is done when the heavy child is even.
AvlRebalanceEx(t) ==
  IF t = Fault \/ ~Leans(t) THEN t
  ELSE IF Tilt(t) > 0
  THEN IF Tilt(t.left) > 0 THEN RotLL(t)
       ELSE IF Tilt(t.left) < 0 THEN RotLR(t) ELSE t
  ELSE IF Tilt(t.right) < 0 THEN RotRR(t)
       ELSE IF Tilt(t.right) > 0 THEN RotRL(t) ELSE t

Largest(t) ==
  LET largest[s \in UpTo(t)] ==
        IF s = Nil \/ s.right = Nil THEN s ELSE largest[s.right]
  IN  largest[t]
OnlyChild(t) == IF t.left = Nil THEN t.right ELSE t.left
HalfEmpty(t) == Nil \in {t.left, t.right}
TakesLargest(t) == Node(Largest(t.left).key, t.color, t.left, t.right)

\* The search goes on below the node that was replaced, or below the one that
\* took the key of its predecessor.  remove[s][j] is the removal of j from s.
\* Fault: equal keys are sought on the right.
AvlDownStrict(remove, t, k) ==
  IF t = Nil THEN Nil
  ELSE AvlRebalanceEx(IF k < t.key THEN HangLeft(t, remove[t.left][k])
                      ELSE HangRight(t, remove[t.right][k]))
AvlDown(remove, t, k) ==
  IF t = Nil THEN Nil
  ELSE AvlRebalanceEx(IF k <= t.key THEN HangLeft(t, remove[t.left][k])
                      ELSE HangRight(t, remove[t.right][k]))
AvlRemove(t, k) ==
  LET remove[s \in UpTo(t)] == [j \in Int |->
        IF s = Nil THEN Nil
        ELSE IF s.key # j THEN AvlDown(remove, s, j)
        ELSE IF HalfEmpty(s) THEN AvlDown(remove, OnlyChild(s), j)
        ELSE AvlDown(remove, TakesLargest(s), Largest(s.left).key)]
  IN  remove[t][k]

-----------------------------------------------------------------------------
(* Red-black tree.                                                          *)

IsRed(t) == t \notin Marks /\ t.color = "red"

\* Fault: the turn keeps the colours.
RbRotPlain(t) == RotLL(t)
RbRotLL(t) == LET n == RotLL(t) IN
  IF n = Fault THEN Fault ELSE Node(n.key, "black", n.left, Paint(n.right, "red"))
RbRotRR(t) == LET n == RotRR(t) IN
  IF n = Fault THEN Fault ELSE Node(n.key, "black", Paint(n.left, "red"), n.right)
RbRotLR(t) == Then(HangLeft(t, Then(t.left, RbRotRR)), RbRotLL)
RbRotRL(t) == Then(HangRight(t, Then(t.right, RbRotLL)), RbRotRR)

Flip(t) == Node(t.key, "red", Paint(t.left, "black"), Paint(t.right, "black"))

RbRebalance(t, wentLeft) ==
  IF IsRed(t.left) /\ IsRed(t.right) THEN Flip(t)
  ELSE IF wentLeft /\ IsRed(t.left)
  THEN IF IsRed(t.left.left) THEN RbRotLL(t)
       ELSE IF IsRed(t.left.right) THEN RbRotLR(t) ELSE t
  ELSE IF ~wentLeft /\ IsRed(t.right)
  THEN IF IsRed(t.right.right) THEN RbRotRR(t)
       ELSE IF IsRed(t.right.left) THEN RbRotRL(t) ELSE t
  ELSE t

\* A key that is there already is not attached again.
RbNodeAttach(t, k, color) ==
  LET attach[s \in UpTo(t)] ==
        IF s = Nil THEN Leaf(k, color)
        ELSE IF k = s.key THEN s
        ELSE IF k < s.key THEN RbRebalance(HangLeft(s, attach[s.left]), TRUE)
        ELSE RbRebalance(HangRight(s, attach[s.right]), FALSE)
  IN  attach[t]

RbAttach(t, k, color) == Paint(RbNodeAttach(t, k, color), "black")

(* rebalance, after a removal below t; cmp is the sign of the last           *)
(* comparison at t.  A red sibling is first turned up: temp is the old root, *)
(* which the turn has put below.  The turns are chosen as if the removal had *)
(* always been on the left.                                                  *)

\* <<temp with its sibling on one side red, whether the black is made up>>.
\* Fault: the sibling stays black.
RecolourOne(temp, side) == <<Paint(temp, "black"), IsRed(temp)>>
Recolour(temp, side) ==
  <<Paint(HangOn(temp, side, Paint(temp[side], "red")), "black"), IsRed(temp)>>

TurnAround(temp, sibling) ==
  LET turned == IF IsRed(sibling.right) THEN RbRotRR(temp) ELSE RbRotRL(temp) IN
  IF turned = Fault \/ Nil \in {turned.left, turned.right} THEN Fault
  ELSE Node(turned.key, temp.color,
            Paint(turned.left, "black"), Paint(turned.right, "black"))

BlackSibling(t, side) ==
  LET sibling == t[side] IN
  IF sibling = Nil THEN <<t, FALSE>>
  ELSE IF ~IsRed(sibling.left) /\ ~IsRed(sibling.right) THEN Recolour(t, side)
  ELSE <<TurnAround(t, sibling), TRUE>>

\* Went left and not at the node itself: temp is to the right of the new root,
\* its right child is the sibling; the result goes to the left of the new root.
RedSiblingLeft(node) ==
  LET temp == node.right  sibling == temp.right IN
  IF ~IsRed(sibling.left) /\ ~IsRed(sibling.right)
  THEN HangRight(node, Recolour(temp, "right")[1])
  ELSE LET turned == TurnAround(temp, sibling) IN
       IF turned = Fault THEN Fault ELSE Hang(node, turned, turned.left)

\* Otherwise temp is to the left of the new root and is taken for the sibling;
\* the result goes to the right of the new root.
RedSiblingRight(node) ==
  LET temp == node.left IN
  IF ~IsRed(temp.left) /\ ~IsRed(temp.right)
  THEN HangLeft(node, Paint(temp, "red"))
  ELSE LET turned == TurnAround(temp, temp) IN
       IF turned = Fault THEN Fault ELSE Hang(node, turned.left, turned)

RbRepair(t, cmp) ==
  IF t = Fault THEN <<Fault, TRUE>>
  ELSE LET side == IF cmp <= 0 THEN "right" ELSE "left" IN
       IF ~IsRed(t[side]) THEN BlackSibling(t, side)
       ELSE IF cmp < 0 THEN <<Then(RbRotLL(t), RedSiblingLeft), TRUE>>
       ELSE <<Then(RbRotRR(t), RedSiblingRight), TRUE>>

Sign(k, t) == IF k < t.key THEN -1 ELSE IF k > t.key THEN 1 ELSE 0

\* tree_remove: <<the tree, p_balanced>>.  remove[s][j][b] is the removal of j
\* from s with p_balanced at b.
RbDown(remove, t, k, balanced) ==
  IF t = Nil THEN <<Nil, balanced>>
  ELSE LET cmp == Sign(k, t)
           below == remove[IF cmp <= 0 THEN t.left ELSE t.right][k][balanced]
           hung == IF cmp <= 0 THEN HangLeft(t, below[1]) ELSE HangRight(t, below[1])
       IN  IF below[2] THEN <<hung, TRUE>> ELSE RbRepair(hung, cmp)
Spliced(t) == IF IsRed(t) THEN OnlyChild(t) ELSE Paint(OnlyChild(t), "black")
RbRemove(t, k, balanced) ==
  LET remove[s \in UpTo(t)] == [j \in Int |-> [b \in BOOLEAN |->
        IF s = Nil THEN <<Nil, TRUE>>
        ELSE IF s.key # j THEN RbDown(remove, s, j, b)
        ELSE IF ~HalfEmpty(s)
        THEN RbDown(remove, TakesLargest(s), Largest(s.left).key, b)
        ELSE RbDown(remove, Spliced(s), j, b \/ IsRed(s) \/ IsRed(OnlyChild(s)))]]
  IN  remove[t][k][balanced]

(* rb_sanity_check: the black height, 0 when two sides disagree below, and   *)
(* whether a warning was printed.  A red left child is never looked at.      *)
BlackHeight(t) ==
  LET height[s \in UpTo(t)] ==
        IF s = Nil THEN 1
        ELSE LET l == height[s.left]  r == height[s.right] IN
             IF 0 \in {l, r} \/ l # r THEN 0 ELSE IF IsRed(s) THEN l ELSE l + 1
  IN  height[t]
Warns(t) ==
  \E s \in Nodes(t) :
    \/ IsRed(s) /\ IsRed(s.right)
    \/ LET l == BlackHeight(s.left)  r == BlackHeight(s.right) IN
       l # r /\ 0 \notin {l, r}
=============================================================================
