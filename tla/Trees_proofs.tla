---------------------------- MODULE Trees_proofs ----------------------------
(***************************************************************************)
(* Proofs about the trees of tree.c and the shell that runs them.           *)
(*                                                                         *)
(* The operators of SearchTrees recurse on the subtrees of their argument.  *)
(* Induction is on the height of a tree: TreeInduction and ChildInduction   *)
(* say what a set of trees must contain to contain them all, and            *)
(* TreeRecursion gives every recursive function the equation it is written  *)
(* by (the lemmas named ...Def).  From these follow what each call does to  *)
(* the keys and to the shape of any tree, and from that the invariant of    *)
(* the shell, TreeInv, and its theorems.                                    *)
(***************************************************************************)
EXTENDS TreeShell, DataLemmas, SequenceTheorems

-----------------------------------------------------------------------------
(* Trees, their height, and induction on it.                                *)

\* The trees one level higher than those of T.
Taller(T) == {Nil} \cup [key : Int, color : Colors, left : T, right : T]

\* All trees.
Trees == UNION {TreesUpTo[n] : n \in Nat}

\* The equation of TreesUpTo.
LEMMA LevelsDef ==
  \A n \in Nat : TreesUpTo[n] = IF n = 0 THEN {Nil} ELSE Taller(TreesUpTo[n - 1])
<1> DEFINE A(m, w) == w = [n \in 0 .. m |-> IF n = 0 THEN {Nil} ELSE Taller(w[n - 1])]
           G == {m \in Nat : \E w : A(m, w)}
           H == {m \in Nat : \A p \in Nat : \A v, w : m <= p /\ A(p, v) /\ (\E q \in Nat : m <= q /\ A(q, w)) => v[m] = w[m]}
<1>1. Nat \subseteq G
  <2>1. A(0, [n \in 0 .. 0 |-> {Nil}])
    OBVIOUS
  <2>2. ASSUME NEW m \in Nat, m \in G PROVE m + 1 \in G
    <3>1. PICK w : A(m, w)
      BY <2>2
    <3> DEFINE v == [n \in 0 .. (m + 1) |-> IF n = m + 1 THEN Taller(w[m]) ELSE w[n]]
    <3>2. \A n \in 0 .. (m + 1) : v[n] = IF n = 0 THEN {Nil} ELSE Taller(v[n - 1])
      <4>1. ASSUME NEW n \in 0 .. (m + 1) PROVE v[n] = IF n = 0 THEN {Nil} ELSE Taller(v[n - 1])
        <5>1. CASE n = m + 1
          <6>1. v[n] = Taller(w[m]) /\ v[n - 1] = w[m]
            BY <5>1
          <6>2. QED
            BY <5>1, <6>1
        <5>2. CASE n # m + 1
          <6>1. n \in 0 .. m /\ v[n] = w[n] /\ (n # 0 => v[n - 1] = w[n - 1])
            BY <5>2
          <6>2. QED
            BY <3>1, <6>1
        <5>3. QED
          BY <5>1, <5>2
      <4>2. QED
        BY <4>1
    <3>3. v = [n \in 0 .. (m + 1) |-> IF n = 0 THEN {Nil} ELSE Taller(v[n - 1])]
      <4>1. v = [n \in 0 .. (m + 1) |-> v[n]]
        OBVIOUS
      <4> HIDE DEF v
      <4>2. QED
        BY <3>2, <4>1
    <3> HIDE DEF v
    <3>4. QED
      BY <3>3
  <2> HIDE DEF A
  <2>3. QED
    <3>1. 0 \in G
      BY <2>1
    <3> HIDE DEF G
    <3>2. QED
      BY <2>2, <3>1, NumberInduction
<1>2. Nat \subseteq H
  <2>1. 0 \in H
    <3>1. \A p \in Nat : \A w : A(p, w) => w[0] = {Nil}
      OBVIOUS
    <3> HIDE DEF A
    <3>2. QED
      BY <3>1
  <2>2. ASSUME NEW m \in Nat, m \in H PROVE m + 1 \in H
    <3>1. ASSUME NEW p \in Nat, NEW w, m + 1 <= p, A(p, w) PROVE w[m + 1] = Taller(w[m])
      <4>1. m + 1 \in 0 .. p /\ m + 1 # 0 /\ (m + 1) - 1 = m
        BY <3>1
      <4>2. w[m + 1] = IF m + 1 = 0 THEN {Nil} ELSE Taller(w[(m + 1) - 1])
        BY <3>1, <4>1
      <4>3. QED
        BY <4>1, <4>2
    <3>2. \A p \in Nat : m + 1 <= p => m <= p
      OBVIOUS
    <3> HIDE DEF A
    <3>3. QED
      BY <2>2, <3>1, <3>2
  <2> HIDE DEF H, A
  <2>3. QED
    BY <2>1, <2>2, NumberInduction
<1> DEFINE h == [m \in Nat |-> CHOOSE w : A(m, w)]
           f == [m \in Nat |-> h[m][m]]
<1>3. \A m \in Nat : A(m, h[m])
  <2> HIDE DEF A
  <2>1. \A m \in Nat : h[m] = CHOOSE w : A(m, w)
    OBVIOUS
  <2>2. \A m \in Nat : \E w : A(m, w)
    BY <1>1
  <2>3. \A m \in Nat : A(m, CHOOSE w : A(m, w))
    BY <2>2
  <2>4. QED
    BY <2>1, <2>3
<1>4. \A n \in Nat : f[n] = IF n = 0 THEN {Nil} ELSE Taller(f[n - 1])
  <2> HIDE DEF h
  <2>1. ASSUME NEW n \in Nat PROVE f[n] = IF n = 0 THEN {Nil} ELSE Taller(f[n - 1])
    <3>1. f[n] = h[n][n] /\ A(n, h[n])
      BY <1>3
    <3>2. CASE n = 0
      BY <3>1, <3>2
    <3>3. CASE n # 0
      <4>1. n - 1 \in Nat /\ f[n - 1] = h[n - 1][n - 1] /\ A(n - 1, h[n - 1]) /\ n - 1 <= n
        <5>1. n - 1 \in Nat /\ n - 1 <= n
          BY <3>3
        <5> HIDE DEF A
        <5>2. QED
          BY <1>3, <5>1
      <4>2. h[n][n] = Taller(h[n][n - 1])
        <5> DEFINE w == h[n]
        <5>1. w = [i \in 0 .. n |-> IF i = 0 THEN {Nil} ELSE Taller(w[i - 1])]
          BY <3>1
        <5> HIDE DEF w
        <5>2. n \in 0 .. n
          OBVIOUS
        <5>3. w[n] = Taller(w[n - 1])
          BY <3>3, <5>1, <5>2
        <5>4. QED
          BY <5>3 DEF w
      <4>3. h[n][n - 1] = h[n - 1][n - 1]
        <5> HIDE DEF A, f
        <5>1. n - 1 \in H /\ n - 1 <= n - 1
          BY <1>2, <4>1
        <5>2. QED
          BY <3>1, <4>1, <5>1
      <4>4. QED
        BY <3>1, <3>3, <4>1, <4>2, <4>3
    <3>4. QED
      BY <3>2, <3>3
  <2>2. QED
    BY <2>1
<1>5. f = [n \in Nat |-> IF n = 0 THEN {Nil} ELSE Taller(f[n - 1])]
  <2>1. f = [n \in Nat |-> f[n]]
    OBVIOUS
  <2> HIDE DEF f
  <2>2. QED
    BY <1>4, <2>1
<1>6. \E g : g = [n \in Nat |-> IF n = 0 THEN {Nil} ELSE Taller(g[n - 1])]
  <2> HIDE DEF f
  <2>1. QED
    BY <1>5
<1>7. TreesUpTo = [n \in Nat |-> IF n = 0 THEN {Nil} ELSE Taller(TreesUpTo[n - 1])]
  <2>1. TreesUpTo = CHOOSE g : g = [n \in Nat |-> IF n = 0 THEN {Nil} ELSE Taller(g[n - 1])]
    BY DEF TreesUpTo, Taller
  <2>2. QED
    BY <1>6, <2>1
<1>8. QED
  <2>1. QED
    BY <1>7

\* The three marks are different.
LEMMA MarksDiffer == Nil # Fault /\ Nil # Loop /\ Fault # Loop
<1>1. Nil.mark = "nil" /\ Fault.mark = "fault" /\ Loop.mark = "loop"
  BY DEF Nil, Fault, Loop
<1>2. QED
  BY <1>1

\* The parts of a node, which is no mark.
LEMMA NodeIsRecord ==
  ASSUME NEW t, NEW k, NEW c, NEW l, NEW r, t = Node(k, c, l, r)
  PROVE  t.key = k /\ t.color = c /\ t.left = l /\ t.right = r /\ t \notin Marks
<1>1. t.key = k /\ t.color = c /\ t.left = l /\ t.right = r
  BY DEF Node
<1>2. "key" \in DOMAIN t
  BY DEF Node
<1>3. DOMAIN Nil = {"mark"} /\ DOMAIN Fault = {"mark"} /\ DOMAIN Loop = {"mark"}
  BY DEF Nil, Fault, Loop
<1>4. QED
  BY <1>1, <1>2, <1>3 DEF Marks

\* What the trees of at most n levels are: Nil, or a node with two trees of at most n -
\* 1.
LEMMA LevelOf ==
  ASSUME NEW n \in Nat, NEW t
  PROVE  t \in TreesUpTo[n] <=>
           \/ t = Nil
           \/ /\ n > 0 /\ t.key \in Int /\ t.color \in Colors
              /\ t.left \in TreesUpTo[n - 1] /\ t.right \in TreesUpTo[n - 1]
              /\ t = Node(t.key, t.color, t.left, t.right)
<1>1. CASE n = 0
  BY <1>1, LevelsDef
<1>2. CASE n # 0
  <2>1. TreesUpTo[n] = Taller(TreesUpTo[n - 1])
    BY <1>2, LevelsDef
  <2> DEFINE T == TreesUpTo[n - 1]
  <2>2. t \in [key : Int, color : Colors, left : T, right : T] <=>
          /\ t.key \in Int /\ t.color \in Colors /\ t.left \in T /\ t.right \in T
          /\ t = Node(t.key, t.color, t.left, t.right)
    <3> HIDE DEF T
    <3>1. QED
      BY DEF Node
  <2>3. n > 0
    BY <1>2
  <2>4. QED
    BY <2>1, <2>2, <2>3 DEF Taller
<1>3. QED
  BY <1>1, <1>2

\* A tree of at most m levels is a tree of at most n, for m up to n.
LEMMA LevelsGrow ==
  \A n \in Nat : \A m \in 0 .. n : TreesUpTo[m] \subseteq TreesUpTo[n]
<1> DEFINE G == {n \in Nat : TreesUpTo[n] \subseteq TreesUpTo[n + 1]}
           H == {n \in Nat : \A m \in 0 .. n : TreesUpTo[m] \subseteq TreesUpTo[n]}
<1>1. Nat \subseteq G
  <2>1. 0 \in G
    <3>1. ASSUME NEW t \in TreesUpTo[0] PROVE t \in TreesUpTo[0 + 1]
      <4>1. t = Nil
        BY LevelOf
      <4>2. QED
        BY <4>1, LevelOf
    <3>2. QED
      BY <3>1
  <2>2. ASSUME NEW n \in Nat, n \in G PROVE n + 1 \in G
    <3>1. ASSUME NEW t \in TreesUpTo[n + 1] PROVE t \in TreesUpTo[(n + 1) + 1]
      <4>1. n + 1 \in Nat /\ (n + 1) + 1 \in Nat /\ (n + 1) - 1 = n /\ ((n + 1) + 1) - 1 = n + 1
        OBVIOUS
      <4>2. CASE t = Nil
        BY <4>1, <4>2, LevelOf
      <4>3. CASE t # Nil
        <5>1. /\ t.key \in Int /\ t.color \in Colors
              /\ t.left \in TreesUpTo[n] /\ t.right \in TreesUpTo[n]
              /\ t = Node(t.key, t.color, t.left, t.right)
          BY <3>1, <4>1, <4>3, LevelOf
        <5>2. t.left \in TreesUpTo[n + 1] /\ t.right \in TreesUpTo[n + 1]
          BY <2>2, <5>1
        <5>3. (n + 1) + 1 > 0
          OBVIOUS
        <5>4. QED
          BY <4>1, <5>1, <5>2, <5>3, LevelOf
      <4>4. QED
        BY <4>2, <4>3
    <3>2. QED
      BY <3>1
  <2> HIDE DEF G
  <2>3. QED
    BY <2>1, <2>2, NumberInduction
<1>2. Nat \subseteq H
  <2>1. 0 \in H
    OBVIOUS
  <2>2. ASSUME NEW n \in Nat, n \in H PROVE n + 1 \in H
    <3>1. \A m \in 0 .. (n + 1) : m \in 0 .. n \/ m = n + 1
      OBVIOUS
    <3>2. TreesUpTo[n] \subseteq TreesUpTo[n + 1]
      BY <1>1
    <3>3. \A m \in 0 .. n : TreesUpTo[m] \subseteq TreesUpTo[n]
      BY <2>2
    <3>4. \A m \in 0 .. (n + 1) : TreesUpTo[m] \subseteq TreesUpTo[n + 1]
      BY <3>1, <3>2, <3>3
    <3>5. QED
      BY <3>4
  <2> HIDE DEF H
  <2>3. QED
    BY <2>1, <2>2, NumberInduction
<1>3. QED
  BY <1>2

\* The height of a tree is the least number of levels that holds it.
LEMMA HeightIsLeast ==
  ASSUME NEW t \in Trees
  PROVE  /\ Height(t) \in Nat /\ t \in TreesUpTo[Height(t)]
         /\ \A n \in Nat : t \in TreesUpTo[n] <=> Height(t) <= n
<1> DEFINE S == {n \in Nat : t \in TreesUpTo[n]}
           Is(from) == from = [n \in Nat |-> IF t \in TreesUpTo[n] THEN n ELSE from[n + 1]]
<1>1. PICK h \in S : \A n \in S : h <= n
  <2>1. S \in SUBSET Nat /\ S # {}
    BY DEF Trees
  <2>2. QED
    BY <2>1, LeastNumber
<1>2. \A n \in Nat : t \in TreesUpTo[n] <=> h <= n
  <2>1. ASSUME NEW n \in Nat, h <= n PROVE t \in TreesUpTo[n]
    <3>1. h \in 0 .. n
      BY <1>1, <2>1
    <3>2. QED
      BY <1>1, <3>1, LevelsGrow
  <2>2. QED
    BY <1>1, <2>1
<1> DEFINE f == [n \in Nat |-> IF h <= n THEN n ELSE h]
<1>3. Is(f)
  <2>1. \A n \in Nat : f[n] = IF t \in TreesUpTo[n] THEN n ELSE f[n + 1]
    <3>1. ASSUME NEW n \in Nat PROVE f[n] = IF t \in TreesUpTo[n] THEN n ELSE f[n + 1]
      <4>1. CASE h <= n
        BY <1>2, <4>1
      <4>2. CASE ~ (h <= n)
        <5>1. f[n] = h /\ n + 1 \in Nat /\ f[n + 1] = h
          BY <1>1, <4>2
        <5>2. t \notin TreesUpTo[n]
          BY <1>2, <4>2
        <5>3. QED
          BY <5>1, <5>2
      <4>3. QED
        BY <4>1, <4>2
    <3>2. QED
      BY <3>1
  <2>2. f = [n \in Nat |-> f[n]]
    OBVIOUS
  <2> HIDE DEF f
  <2>3. QED
    BY <2>1, <2>2
<1> DEFINE g == CHOOSE from : Is(from)
<1>4. Is(g)
  <2> HIDE DEF Is, f
  <2>1. QED
    BY <1>3
<1>5. Height(t) = g[0]
  BY DEF Height
<1>6. \A n \in Nat : g[n] = IF t \in TreesUpTo[n] THEN n ELSE g[n + 1]
  <2> HIDE DEF g
  <2>1. QED
    BY <1>4
<1> HIDE DEF g, f, Is
<1> DEFINE K == {d \in Nat : d <= h => g[h - d] = h}
<1>7. Nat \subseteq K
  <2>1. 0 \in K
    BY <1>1, <1>2, <1>6
  <2>2. ASSUME NEW d \in Nat, d \in K PROVE d + 1 \in K
    <3>1. CASE d + 1 <= h
      <4>1. h - (d + 1) \in Nat /\ (h - (d + 1)) + 1 = h - d /\ ~ (h <= h - (d + 1)) /\ d <= h
        BY <1>1, <3>1
      <4>2. g[h - (d + 1)] = g[(h - (d + 1)) + 1]
        BY <1>2, <1>6, <4>1
      <4>3. QED
        BY <2>2, <4>1, <4>2
    <3>2. CASE ~ (d + 1 <= h)
      BY <3>2
    <3>3. QED
      BY <3>1, <3>2
  <2> HIDE DEF K
  <2>3. QED
    BY <2>1, <2>2, NumberInduction
<1>8. h \in Nat
  BY <1>1
<1>9. g[0] = h
  <2>1. h \in K /\ h - h = 0
    BY <1>7, <1>8
  <2>2. QED
    BY <1>8, <2>1
<1>10. QED
  BY <1>2, <1>5, <1>8, <1>9

\* A tree is Nil or a node of two trees that are lower.
LEMMA NilIsTree == Nil \in Trees /\ Height(Nil) = 0
<1>1. Nil \in TreesUpTo[0]
  BY LevelOf
<1>2. Nil \in Trees
  BY <1>1 DEF Trees
<1>3. QED
  BY <1>1, <1>2, HeightIsLeast

\* A node made of two trees is a tree, one higher than the higher of the two.
LEMMA NodeIsTree ==
  ASSUME NEW k \in Int, NEW c \in Colors, NEW l \in Trees, NEW r \in Trees
  PROVE  /\ Node(k, c, l, r) \in Trees
         /\ Height(Node(k, c, l, r)) =
              1 + (IF Height(l) > Height(r) THEN Height(l) ELSE Height(r))
<1> DEFINE t == Node(k, c, l, r)
           h == IF Height(l) > Height(r) THEN Height(l) ELSE Height(r)
<1>1. t.key = k /\ t.color = c /\ t.left = l /\ t.right = r /\ t \notin Marks
  BY NodeIsRecord
<1>2. t # Nil /\ t = Node(t.key, t.color, t.left, t.right)
  BY <1>1 DEF Marks
<1>3. Height(l) \in Nat /\ Height(r) \in Nat
  BY HeightIsLeast
<1> HIDE DEF t
<1>4. \A n \in Nat : t \in TreesUpTo[n] <=> h + 1 <= n
  <2>1. ASSUME NEW n \in Nat PROVE t \in TreesUpTo[n] <=> h + 1 <= n
    <3>1. CASE n = 0
      BY <1>2, <1>3, <3>1, LevelOf
    <3>2. CASE n # 0
      <4>1. n - 1 \in Nat /\ n > 0
        BY <3>2
      <4>2. t \in TreesUpTo[n] <=> l \in TreesUpTo[n - 1] /\ r \in TreesUpTo[n - 1]
        BY <1>1, <1>2, <4>1, LevelOf
      <4>3. l \in TreesUpTo[n - 1] <=> Height(l) <= n - 1
        BY <4>1, HeightIsLeast
      <4>4. r \in TreesUpTo[n - 1] <=> Height(r) <= n - 1
        BY <4>1, HeightIsLeast
      <4>5. QED
        BY <1>3, <4>1, <4>2, <4>3, <4>4
    <3>3. QED
      BY <3>1, <3>2
  <2>2. QED
    BY <2>1
<1>5. h + 1 \in Nat
  BY <1>3
<1>6. t \in Trees
  BY <1>4, <1>5 DEF Trees
<1>7. Height(t) \in Nat /\ \A n \in Nat : Height(t) <= n <=> h + 1 <= n
  BY <1>4, <1>6, HeightIsLeast
<1>8. Height(t) = 1 + h
  <2>1. Height(t) <= h + 1 /\ h + 1 <= Height(t)
    BY <1>5, <1>7
  <2>2. QED
    BY <1>3, <1>5, <1>7, <2>1
<1>9. QED
  BY <1>6, <1>8 DEF t

\* The parts of a tree that is not empty; its children are lower than itself.
LEMMA TreeParts ==
  ASSUME NEW t \in Trees, t # Nil
  PROVE  /\ t.key \in Int /\ t.color \in Colors /\ t.left \in Trees /\ t.right \in Trees
         /\ t = Node(t.key, t.color, t.left, t.right) /\ t \notin Marks
         /\ Height(t.left) < Height(t) /\ Height(t.right) < Height(t)
         /\ Height(t) = 1 + (IF Height(t.left) > Height(t.right)
                             THEN Height(t.left) ELSE Height(t.right))
<1>1. PICK n \in Nat : t \in TreesUpTo[n]
  BY DEF Trees
<1>2. /\ n > 0 /\ t.key \in Int /\ t.color \in Colors
      /\ t.left \in TreesUpTo[n - 1] /\ t.right \in TreesUpTo[n - 1]
      /\ t = Node(t.key, t.color, t.left, t.right)
  BY <1>1, LevelOf
<1>3. n - 1 \in Nat
  BY <1>2
<1>4. t.left \in Trees /\ t.right \in Trees
  BY <1>2, <1>3 DEF Trees
<1>5. Height(t) = 1 + (IF Height(t.left) > Height(t.right)
                       THEN Height(t.left) ELSE Height(t.right))
  <2>1. Height(Node(t.key, t.color, t.left, t.right)) =
          1 + (IF Height(t.left) > Height(t.right)
               THEN Height(t.left) ELSE Height(t.right))
    BY <1>2, <1>4, NodeIsTree
  <2>2. QED
    BY <1>2, <2>1
<1>6. Height(t.left) \in Nat /\ Height(t.right) \in Nat
  BY <1>4, HeightIsLeast
<1>7. t \notin Marks
  BY <1>2, NodeIsRecord
<1>8. Height(t.left) < Height(t) /\ Height(t.right) < Height(t)
  BY <1>5, <1>6
<1>9. QED
  BY <1>2, <1>4, <1>5, <1>7, <1>8

\* UpTo(t) holds exactly the trees no higher than t.
LEMMA LowerTrees ==
  ASSUME NEW t \in Trees, NEW s
  PROVE  s \in UpTo(t) <=> s \in Trees /\ Height(s) <= Height(t)
<1>1. Height(t) \in Nat
  BY HeightIsLeast
<1>2. s \in UpTo(t) => s \in Trees
  BY <1>1 DEF UpTo, Trees
<1>3. QED
  BY <1>1, <1>2, HeightIsLeast DEF UpTo

\* Induction on the height: a set that holds a tree as soon as it holds all lower ones
\* holds every tree.
LEMMA TreeInduction ==
  ASSUME NEW S,
         \A t \in Trees : (\A s \in Trees : Height(s) < Height(t) => s \in S) => t \in S
  PROVE  Trees \subseteq S
<1> DEFINE G == {n \in Nat : \A t \in Trees : Height(t) < n => t \in S}
<1>1. 0 \in G
  <2>1. \A t \in Trees : ~ (Height(t) < 0)
    BY HeightIsLeast
  <2>2. QED
    BY <2>1
<1>2. ASSUME NEW n \in Nat, n \in G PROVE n + 1 \in G
  <2>1. ASSUME NEW t \in Trees, Height(t) < n + 1 PROVE t \in S
    <3>1. \A s \in Trees : Height(s) \in Nat
      BY HeightIsLeast
    <3>2. \A s \in Trees : Height(s) < Height(t) => Height(s) < n
      BY <2>1, <3>1
    <3>3. QED
      BY <1>2, <3>2
  <2>2. QED
    BY <2>1
<1> HIDE DEF G
<1>3. Nat \subseteq G
  BY <1>1, <1>2, NumberInduction
<1>4. ASSUME NEW t \in Trees PROVE t \in S
  <2>1. Height(t) \in Nat
    BY HeightIsLeast
  <2>2. Height(t) + 1 \in G /\ Height(t) < Height(t) + 1
    BY <1>3, <2>1
  <2>3. QED
    BY <2>2 DEF G
<1>5. QED
  BY <1>4

\* Induction on the structure: a set that holds Nil, and a node as soon as it holds its
\* children, holds every tree.
LEMMA ChildInduction ==
  ASSUME NEW S, Nil \in S,
         \A t \in Trees : t # Nil /\ t.left \in S /\ t.right \in S => t \in S
  PROVE  Trees \subseteq S
<1>1. ASSUME NEW t \in Trees, \A s \in Trees : Height(s) < Height(t) => s \in S
      PROVE  t \in S
  <2>1. CASE t = Nil
    BY <2>1
  <2>2. CASE t # Nil
    BY <1>1, <2>2, TreeParts
  <2>3. QED
    BY <2>1, <2>2
<1>2. QED
  BY <1>1, TreeInduction

\* A function of trees that looks at lower ones only is defined.
LooksLower(V, G) ==
  /\ V # {} /\ G \in [Trees -> [[Trees -> V] -> V]]
  /\ \A t \in Trees : \A f, g \in [Trees -> V] :
       (\A s \in Trees : Height(s) < Height(t) => f[s] = g[s]) => G[t][f] = G[t][g]

\* A definition that looks only at lower trees defines a function on all trees.
LEMMA TreeRecursion ==
  ASSUME NEW V, NEW G, LooksLower(V, G)
  PROVE  \E f \in [Trees -> V] : \A t \in Trees : f[t] = G[t][f]
<1> USE DEF LooksLower
<1> DEFINE F == [Trees -> V]
           Next(f) == [t \in Trees |-> G[t][f]]
           A(m, w) == w \in [0 .. m -> F] /\ \A n \in 1 .. m : w[n] = Next(w[n - 1])
           E == {m \in Nat : \E w : A(m, w)}
<1>1. \A f \in F : Next(f) \in F /\ \A t \in Trees : Next(f)[t] = G[t][f]
  OBVIOUS
<1> HIDE DEF Next
<1>2. Nat \subseteq E
  <2>1. 0 \in E
    <3>1. PICK v \in V : TRUE
      OBVIOUS
    <3> DEFINE w == [n \in 0 .. 0 |-> [t \in Trees |-> v]]
    <3>2. A(0, w)
      OBVIOUS
    <3>3. QED
      BY <3>2
  <2>2. ASSUME NEW m \in Nat, m \in E PROVE m + 1 \in E
    <3>1. PICK w : A(m, w)
      BY <2>2
    <3> DEFINE v == [n \in 0 .. (m + 1) |-> IF n = m + 1 THEN Next(w[m]) ELSE w[n]]
    <3>2. w[m] \in F /\ Next(w[m]) \in F
      <4>1. m \in 0 .. m
        OBVIOUS
      <4> HIDE DEF F
      <4>2. QED
        BY <1>1, <3>1, <4>1
    <3>3. v \in [0 .. (m + 1) -> F]
      <4>1. \A n \in 0 .. (m + 1) : n = m + 1 \/ n \in 0 .. m
        OBVIOUS
      <4> HIDE DEF F
      <4>2. QED
        BY <3>1, <3>2, <4>1
    <3>4. ASSUME NEW n \in 1 .. (m + 1) PROVE v[n] = Next(v[n - 1])
      <4>1. n - 1 \in 0 .. m /\ v[n - 1] = w[n - 1]
        OBVIOUS
      <4>2. CASE n = m + 1
        BY <4>1, <4>2
      <4>3. CASE n # m + 1
        <5>1. n \in 1 .. m /\ v[n] = w[n]
          BY <4>3
        <5>2. QED
          BY <3>1, <4>1, <5>1
      <4>4. QED
        BY <4>2, <4>3
    <3> HIDE DEF v
    <3>5. A(m + 1, v)
      BY <3>3, <3>4
    <3> HIDE DEF A
    <3>6. QED
      BY <3>5
  <2> HIDE DEF E
  <2>3. QED
    BY <2>1, <2>2, NumberInduction
<1> HIDE DEF F
\* A tree lower than n has its value from level n on.
<1> DEFINE Agree(n) == \A m, p \in Nat : \A w, v : A(m, w) /\ A(p, v) =>
                         \A i \in n .. m : \A j \in n .. p : \A t \in Trees :
                           Height(t) < n => w[i][t] = v[j][t]
           P == {n \in Nat : Agree(n)}
<1>3. \A n \in Nat : Agree(n)
  <2>1. 0 \in P
    <3>1. \A t \in Trees : ~ (Height(t) < 0)
      BY HeightIsLeast
    <3> HIDE DEF A
    <3>2. QED
      BY <3>1
  <2>2. ASSUME NEW n \in Nat, n \in P PROVE n + 1 \in P
    <3>1. ASSUME NEW m \in Nat, NEW p \in Nat, NEW w, NEW v, A(m, w), A(p, v),
                 NEW i \in n + 1 .. m, NEW j \in n + 1 .. p,
                 NEW t \in Trees, Height(t) < n + 1
          PROVE  w[i][t] = v[j][t]
      <4>1. i \in 1 .. m /\ i - 1 \in n .. m /\ i - 1 \in 0 .. m
            /\ j \in 1 .. p /\ j - 1 \in n .. p /\ j - 1 \in 0 .. p
        OBVIOUS
      <4>2. w[i - 1] \in F /\ v[j - 1] \in F
        BY <3>1, <4>1
      <4>3. w[i] = Next(w[i - 1]) /\ v[j] = Next(v[j - 1])
        BY <3>1, <4>1
      <4>4. \A s \in Trees : Height(s) < Height(t) => w[i - 1][s] = v[j - 1][s]
        <5>1. \A s \in Trees : Height(s) \in Nat
          BY HeightIsLeast
        <5>2. \A s \in Trees : Height(s) < Height(t) => Height(s) < n
          BY <3>1, <5>1
        <5>3. Agree(n)
          BY <2>2
        <5> HIDE DEF A
        <5>4. QED
          BY <3>1, <4>1, <5>2, <5>3
      <4>5. G[t][w[i - 1]] = G[t][v[j - 1]]
        BY <4>2, <4>4 DEF F
      <4>6. QED
        BY <1>1, <4>2, <4>3, <4>5
    <3>2. n + 1 \in Nat
      OBVIOUS
    <3> HIDE DEF A
    <3>3. Agree(n + 1)
      BY <3>1
    <3> HIDE DEF Agree
    <3>4. QED
      BY <3>2, <3>3
  <2> HIDE DEF Agree
  <2>3. Nat \subseteq P
    <3> HIDE DEF P
    <3>1. QED
      BY <2>1, <2>2, NumberInduction
  <2>4. QED
    BY <2>3
<1> DEFINE h(m) == CHOOSE w : A(m, w)
           f == [t \in Trees |-> h(Height(t) + 1)[Height(t) + 1][t]]
<1>4. \A m \in Nat : A(m, h(m))
  <2> HIDE DEF A
  <2>1. \A m \in Nat : \E w : A(m, w)
    BY <1>2
  <2>2. QED
    BY <2>1
<1>5. \A m \in Nat : h(m) \in [0 .. m -> F]
  <2> HIDE DEF h
  <2>1. QED
    BY <1>4
<1> HIDE DEF h
<1>6. f \in F
  <2>1. ASSUME NEW t \in Trees PROVE h(Height(t) + 1)[Height(t) + 1][t] \in V
    <3>1. Height(t) + 1 \in Nat
      BY HeightIsLeast
    <3>2. Height(t) + 1 \in 0 .. (Height(t) + 1)
      BY <3>1
    <3>3. h(Height(t) + 1)[Height(t) + 1] \in F
      BY <1>5, <3>1, <3>2
    <3>4. QED
      BY <3>3 DEF F
  <2>2. QED
    BY <2>1 DEF F
<1>7. ASSUME NEW t \in Trees PROVE f[t] = G[t][f]
  <2> DEFINE n == Height(t) + 1
             w == h(n + 1)
  <2>1. n \in Nat /\ n + 1 \in Nat /\ Height(t) < n
    BY HeightIsLeast
  <2>2. A(n, h(n)) /\ A(n + 1, w)
    BY <1>4, <2>1
  <2>3. f[t] = h(n)[n][t]
    OBVIOUS
  <2> HIDE DEF n, w, f
  <2>4. h(n)[n][t] = w[n + 1][t]
    <3>1. n \in n .. n /\ n + 1 \in n .. (n + 1)
      BY <2>1
    <3>2. Agree(n)
      BY <1>3, <2>1
    <3> HIDE DEF A
    <3>3. QED
      BY <2>1, <2>2, <3>1, <3>2
  <2>5. w[n + 1] = Next(w[n]) /\ w[n] \in F
    <3>1. n + 1 \in 1 .. (n + 1) /\ (n + 1) - 1 = n /\ n \in 0 .. (n + 1)
      BY <2>1
    <3>2. QED
      BY <2>2, <3>1
  <2>6. ASSUME NEW s \in Trees, Height(s) < Height(t) PROVE w[n][s] = f[s]
    <3> DEFINE q == Height(s) + 1
    <3>1. q \in Nat /\ q \in q .. q /\ n \in q .. (n + 1) /\ Height(s) < q
      BY <2>1, <2>6, HeightIsLeast DEF n
    <3>2. f[s] = h(q)[q][s]
      BY DEF f
    <3>3. A(q, h(q)) /\ Agree(q)
      BY <1>3, <1>4, <3>1
    <3> HIDE DEF A, q
    <3>4. QED
      BY <2>1, <2>2, <3>1, <3>2, <3>3
  <2>7. G[t][w[n]] = G[t][f]
    BY <1>6, <2>5, <2>6 DEF F
  <2>8. QED
    BY <1>1, <2>3, <2>4, <2>5, <2>7
<1> HIDE DEF f
<1>8. QED
  BY <1>6, <1>7 DEF F

-----------------------------------------------------------------------------
(* Children, and what hangs on a node.                                     *)

\* Two functions that agree on a tree as soon as they agree on the lower ones agree.
LEMMA SameOnLower ==
  ASSUME NEW D \in SUBSET Trees, NEW f, NEW g,
         \A s \in D : (\A r \in D : Height(r) < Height(s) => f[r] = g[r]) => f[s] = g[s]
  PROVE  \A s \in D : f[s] = g[s]
<1> DEFINE S == {s \in Trees : s \in D => f[s] = g[s]}
<1>1. ASSUME NEW t \in Trees, \A s \in Trees : Height(s) < Height(t) => s \in S
      PROVE  t \in S
  BY <1>1
<1> HIDE DEF S
<1>2. Trees \subseteq S
  BY <1>1, TreeInduction
<1>3. QED
  BY <1>2 DEF S

\* The children of a node in UpTo(t) are in UpTo(t), and lower than it.
LEMMA ChildrenAreLower ==
  ASSUME NEW t \in Trees, NEW s \in UpTo(t), s # Nil
  PROVE  /\ s \in Trees /\ s.left \in UpTo(t) /\ s.right \in UpTo(t)
         /\ s.left \in Trees /\ s.right \in Trees
         /\ Height(s.left) < Height(s) /\ Height(s.right) < Height(s)
<1>1. s \in Trees /\ Height(s) <= Height(t)
  BY LowerTrees
<1>2. s.left \in Trees /\ s.right \in Trees
      /\ Height(s.left) < Height(s) /\ Height(s.right) < Height(s)
  BY <1>1, TreeParts
<1>3. Height(s) \in Nat /\ Height(t) \in Nat /\ Height(s.left) \in Nat /\ Height(s.right) \in Nat
  BY <1>1, <1>2, HeightIsLeast
<1>4. Height(s.left) <= Height(t) /\ Height(s.right) <= Height(t)
  BY <1>1, <1>2, <1>3
<1>5. QED
  BY <1>1, <1>2, <1>4, LowerTrees

\* What Hang, HangLeft and HangRight make of a node.
LEMMA HangFacts ==
  ASSUME NEW t \in Trees, t # Nil
  PROVE  /\ \A l, r : Fault \notin {l, r} /\ Loop \notin {l, r} => Hang(t, l, r) = Node(t.key, t.color, l, r)
         /\ \A l : l \in Trees => HangLeft(t, l) = Node(t.key, t.color, l, t.right)
         /\ \A r : r \in Trees => HangRight(t, r) = Node(t.key, t.color, t.left, r)
         /\ HangLeft(t, Fault) = Fault /\ HangRight(t, Fault) = Fault
         /\ HangLeft(t, Loop) = Loop /\ HangRight(t, Loop) = Loop
         /\ \A l \in Trees : HangLeft(t, l) \in Trees \ {Nil}
         /\ \A r \in Trees : HangRight(t, r) \in Trees \ {Nil}
<1>1. t \notin Marks /\ t.left \in Trees /\ t.right \in Trees /\ t.key \in Int /\ t.color \in Colors
  BY TreeParts
<1>2. \A s \in Trees : s # Fault /\ s # Loop
  BY TreeParts, MarksDiffer DEF Marks
<1>3. \A l, r : Node(t.key, t.color, l, r) # Nil
  BY NodeIsRecord DEF Marks
<1>4. QED
  BY <1>1, <1>2, <1>3, NodeIsTree, MarksDiffer DEF Hang, HangLeft, HangRight, Marks

-----------------------------------------------------------------------------
(* The equations of the recursive operators.                               *)

\* A leaf is a tree.
LEMMA LeafIsTree ==
  ASSUME NEW k \in Int, NEW c \in Colors
  PROVE  Leaf(k, c) \in Trees
BY NilIsTree, NodeIsTree DEF Leaf

\* The empty sequence is a sequence of integers.
LEMMA EmptySequence == <<>> \in Seq(Int)
OBVIOUS

\* Nothing counts no copy of any key.
LEMMA NothingIsCount == Nothing \in [Keys -> Nat]
BY DEF Nothing

\* There are two colours.
LEMMA BlackAndRed == "black" \in Colors /\ "red" \in Colors /\ \A c \in Colors : c = "red" \/ c = "black"
BY DEF Colors

\* The nodes of a tree.
LEMMA NodesDef ==
  ASSUME NEW t \in Trees
  PROVE  /\ Nodes(t) \subseteq Trees
         /\ Nodes(t) = IF t = Nil THEN {} ELSE {t} \cup Nodes(t.left) \cup Nodes(t.right)
<1> DEFINE V == SUBSET Trees
           Body(f, s) == IF s = Nil THEN {} ELSE {s} \cup f[s.left] \cup f[s.right]
           G == [s \in Trees |-> [f \in [Trees -> V] |-> Body(f, s)]]
<1>1. \A s \in Trees : \A f \in [Trees -> V] : Body(f, s) \in V
  BY TreeParts
<1>2. \A s \in Trees : \A f, g \in [Trees -> V] :
        (\A r \in Trees : Height(r) < Height(s) => f[r] = g[r]) => Body(f, s) = Body(g, s)
  BY TreeParts
<1>3. PICK g \in [Trees -> V] : \A s \in Trees : g[s] = Body(g, s)
  <2> HIDE DEF Body
  <2>1. V # {}
    BY NilIsTree
  <2> HIDE DEF V
  <2>2. G \in [Trees -> [[Trees -> V] -> V]]
    BY <1>1
  <2>3. \A s \in Trees : \A f \in [Trees -> V] : G[s][f] = Body(f, s)
    OBVIOUS
  <2> HIDE DEF G
  <2>4. \A s \in Trees : \A f, g \in [Trees -> V] :
          (\A r \in Trees : Height(r) < Height(s) => f[r] = g[r]) => G[s][f] = G[s][g]
    BY <1>2, <2>3
  <2>5. \E g \in [Trees -> V] : \A s \in Trees : g[s] = G[s][g]
    <3>1. LooksLower(V, G)
      BY <2>1, <2>2, <2>4 DEF LooksLower
    <3>2. QED
      BY <3>1, TreeRecursion
  <2>6. QED
    BY <2>3, <2>5
<1> HIDE DEF V
<1>4. ASSUME NEW u \in Trees PROVE Nodes(u) = g[u]
  <2> DEFINE D == UpTo(u)
             Is(f) == f = [s \in D |-> Body(f, s)]
             h == CHOOSE f : Is(f)
  <2>1. D \in SUBSET Trees /\ u \in D
    BY LowerTrees, HeightIsLeast
  <2>2. ASSUME NEW s \in D, NEW f, NEW e,
               \A r \in D : Height(r) < Height(s) => f[r] = e[r]
        PROVE  Body(f, s) = Body(e, s)
    BY <2>1, <2>2, ChildrenAreLower
  <2>3. Is([s \in D |-> g[s]])
    <3> HIDE DEF D, Body
    <3>1. \A s \in D : g[s] = Body([r \in D |-> g[r]], s)
      BY <1>3, <2>1, <2>2
    <3>2. QED
      BY <3>1
  <2>4. Nodes(u) = h[u]
    BY DEF Nodes
  <2>5. Is(h)
    <3> HIDE DEF Is
    <3>1. QED
      BY <2>3
  <2> HIDE DEF h
  <2>6. \A s \in D : h[s] = g[s]
    <3> HIDE DEF D, Body
    <3>1. \A s \in D : h[s] = Body(h, s) /\ g[s] = Body(g, s)
      BY <1>3, <2>1, <2>5
    <3>2. ASSUME NEW s \in D, \A r \in D : Height(r) < Height(s) => h[r] = g[r]
          PROVE  h[s] = g[s]
      BY <2>2, <3>1, <3>2
    <3>3. QED
      BY <2>1, <3>2, SameOnLower
  <2>7. QED
    BY <2>1, <2>4, <2>6
<1>5. QED
  BY <1>3, <1>4, TreeParts DEF V

\* What is displayed.
LEMMA InOrderDef ==
  ASSUME NEW t \in Trees
  PROVE  /\ InOrder(t) \in Seq(Int)
         /\ InOrder(t) = IF t = Nil THEN <<>> ELSE InOrder(t.left) \o <<t.key>> \o InOrder(t.right)
<1> DEFINE V == Seq(Int)
           Body(f, s) == IF s = Nil THEN <<>> ELSE f[s.left] \o <<s.key>> \o f[s.right]
           G == [s \in Trees |-> [f \in [Trees -> V] |-> Body(f, s)]]
<1>1. \A s \in Trees : \A f \in [Trees -> V] : Body(f, s) \in V
  BY TreeParts
<1>2. \A s \in Trees : \A f, g \in [Trees -> V] :
        (\A r \in Trees : Height(r) < Height(s) => f[r] = g[r]) => Body(f, s) = Body(g, s)
  BY TreeParts
<1>3. PICK g \in [Trees -> V] : \A s \in Trees : g[s] = Body(g, s)
  <2> HIDE DEF Body
  <2>1. V # {}
    BY EmptySequence
  <2> HIDE DEF V
  <2>2. G \in [Trees -> [[Trees -> V] -> V]]
    BY <1>1
  <2>3. \A s \in Trees : \A f \in [Trees -> V] : G[s][f] = Body(f, s)
    OBVIOUS
  <2> HIDE DEF G
  <2>4. \A s \in Trees : \A f, g \in [Trees -> V] :
          (\A r \in Trees : Height(r) < Height(s) => f[r] = g[r]) => G[s][f] = G[s][g]
    BY <1>2, <2>3
  <2>5. \E g \in [Trees -> V] : \A s \in Trees : g[s] = G[s][g]
    <3>1. LooksLower(V, G)
      BY <2>1, <2>2, <2>4 DEF LooksLower
    <3>2. QED
      BY <3>1, TreeRecursion
  <2>6. QED
    BY <2>3, <2>5
<1> HIDE DEF V
<1>4. ASSUME NEW u \in Trees PROVE InOrder(u) = g[u]
  <2> DEFINE D == UpTo(u)
             Is(f) == f = [s \in D |-> Body(f, s)]
             h == CHOOSE f : Is(f)
  <2>1. D \in SUBSET Trees /\ u \in D
    BY LowerTrees, HeightIsLeast
  <2>2. ASSUME NEW s \in D, NEW f, NEW e,
               \A r \in D : Height(r) < Height(s) => f[r] = e[r]
        PROVE  Body(f, s) = Body(e, s)
    BY <2>1, <2>2, ChildrenAreLower
  <2>3. Is([s \in D |-> g[s]])
    <3> HIDE DEF D, Body
    <3>1. \A s \in D : g[s] = Body([r \in D |-> g[r]], s)
      BY <1>3, <2>1, <2>2
    <3>2. QED
      BY <3>1
  <2>4. InOrder(u) = h[u]
    BY DEF InOrder
  <2>5. Is(h)
    <3> HIDE DEF Is
    <3>1. QED
      BY <2>3
  <2> HIDE DEF h
  <2>6. \A s \in D : h[s] = g[s]
    <3> HIDE DEF D, Body
    <3>1. \A s \in D : h[s] = Body(h, s) /\ g[s] = Body(g, s)
      BY <1>3, <2>1, <2>5
    <3>2. ASSUME NEW s \in D, \A r \in D : Height(r) < Height(s) => h[r] = g[r]
          PROVE  h[s] = g[s]
      BY <2>2, <3>1, <3>2
    <3>3. QED
      BY <2>1, <3>2, SameOnLower
  <2>7. QED
    BY <2>1, <2>4, <2>6
<1>5. InOrder(t) = Body(g, t) /\ InOrder(t) \in Seq(Int)
  BY <1>3, <1>4 DEF V
<1>6. t # Nil => InOrder(t.left) = g[t.left] /\ InOrder(t.right) = g[t.right]
  BY <1>4, TreeParts
<1>7. CASE t = Nil
  BY <1>5, <1>7
<1>8. CASE t # Nil
  <2>1. InOrder(t) = g[t.left] \o <<t.key>> \o g[t.right]
    BY <1>5, <1>8
  <2>2. QED
    BY <1>5, <1>6, <1>8, <2>1
<1>9. QED
  BY <1>7, <1>8

\* The node found.
LEMMA LookupDef ==
  ASSUME NEW t \in Trees, NEW k \in Int
  PROVE  /\ Lookup(t, k) \in Trees
         /\ Lookup(t, k) = IF t = Nil \/ t.key = k THEN t
                           ELSE IF k < t.key THEN Lookup(t.left, k) ELSE Lookup(t.right, k)
<1> DEFINE V == Trees
           Body(f, s) == IF s = Nil \/ s.key = k THEN s
                         ELSE IF k < s.key THEN f[s.left] ELSE f[s.right]
           G == [s \in Trees |-> [f \in [Trees -> V] |-> Body(f, s)]]
<1>1. \A s \in Trees : \A f \in [Trees -> V] : Body(f, s) \in V
  BY TreeParts
<1>2. \A s \in Trees : \A f, g \in [Trees -> V] :
        (\A r \in Trees : Height(r) < Height(s) => f[r] = g[r]) => Body(f, s) = Body(g, s)
  BY TreeParts
<1>3. PICK g \in [Trees -> V] : \A s \in Trees : g[s] = Body(g, s)
  <2> HIDE DEF Body
  <2>1. V # {}
    BY NilIsTree
  <2> HIDE DEF V
  <2>2. G \in [Trees -> [[Trees -> V] -> V]]
    BY <1>1
  <2>3. \A s \in Trees : \A f \in [Trees -> V] : G[s][f] = Body(f, s)
    OBVIOUS
  <2> HIDE DEF G
  <2>4. \A s \in Trees : \A f, g \in [Trees -> V] :
          (\A r \in Trees : Height(r) < Height(s) => f[r] = g[r]) => G[s][f] = G[s][g]
    BY <1>2, <2>3
  <2>5. \E g \in [Trees -> V] : \A s \in Trees : g[s] = G[s][g]
    <3>1. LooksLower(V, G)
      BY <2>1, <2>2, <2>4 DEF LooksLower
    <3>2. QED
      BY <3>1, TreeRecursion
  <2>6. QED
    BY <2>3, <2>5
<1> HIDE DEF V
<1>4. ASSUME NEW u \in Trees PROVE Lookup(u, k) = g[u]
  <2> DEFINE D == UpTo(u)
             Is(f) == f = [s \in D |-> Body(f, s)]
             h == CHOOSE f : Is(f)
  <2>1. D \in SUBSET Trees /\ u \in D
    BY LowerTrees, HeightIsLeast
  <2>2. ASSUME NEW s \in D, NEW f, NEW e,
               \A r \in D : Height(r) < Height(s) => f[r] = e[r]
        PROVE  Body(f, s) = Body(e, s)
    BY <2>1, <2>2, ChildrenAreLower
  <2>3. Is([s \in D |-> g[s]])
    <3> HIDE DEF D, Body
    <3>1. \A s \in D : g[s] = Body([r \in D |-> g[r]], s)
      BY <1>3, <2>1, <2>2
    <3>2. QED
      BY <3>1
  <2>4. Lookup(u, k) = h[u]
    BY DEF Lookup
  <2>5. Is(h)
    <3> HIDE DEF Is
    <3>1. QED
      BY <2>3
  <2> HIDE DEF h
  <2>6. \A s \in D : h[s] = g[s]
    <3> HIDE DEF D, Body
    <3>1. \A s \in D : h[s] = Body(h, s) /\ g[s] = Body(g, s)
      BY <1>3, <2>1, <2>5
    <3>2. ASSUME NEW s \in D, \A r \in D : Height(r) < Height(s) => h[r] = g[r]
          PROVE  h[s] = g[s]
      BY <2>2, <3>1, <3>2
    <3>3. QED
      BY <2>1, <3>2, SameOnLower
  <2>7. QED
    BY <2>1, <2>4, <2>6
<1>5. QED
  BY <1>3, <1>4, TreeParts DEF V

\* The tree with a leaf more.
LEMMA AttachDef ==
  ASSUME NEW t \in Trees, NEW k \in Int
  PROVE  /\ Attach(t, k) \in Trees
         /\ Attach(t, k) = IF t = Nil THEN Leaf(k, "black")
                           ELSE IF k < t.key THEN HangLeft(t, Attach(t.left, k))
                           ELSE HangRight(t, Attach(t.right, k))
<1> DEFINE V == Trees
           Body(f, s) == IF s = Nil THEN Leaf(k, "black")
                         ELSE IF k < s.key THEN HangLeft(s, f[s.left])
                         ELSE HangRight(s, f[s.right])
           G == [s \in Trees |-> [f \in [Trees -> V] |-> Body(f, s)]]
<1>1. \A s \in Trees : \A f \in [Trees -> V] : Body(f, s) \in V
  <2>1. ASSUME NEW s \in Trees, NEW f \in [Trees -> V] PROVE Body(f, s) \in V
    <3>1. CASE s = Nil
      <4>1. Leaf(k, "black") \in Trees
        BY LeafIsTree, BlackAndRed
      <4>2. QED
        BY <3>1, <4>1
    <3>2. CASE s # Nil
      <4>1. s.left \in Trees /\ s.right \in Trees /\ f[s.left] \in Trees /\ f[s.right] \in Trees
        BY <3>2, TreeParts
      <4>2. HangLeft(s, f[s.left]) \in Trees /\ HangRight(s, f[s.right]) \in Trees
        BY <3>2, <4>1, HangFacts
      <4>3. QED
        BY <3>2, <4>1, <4>2
    <3>3. QED
      BY <3>1, <3>2
  <2>2. QED
    BY <2>1
<1>2. \A s \in Trees : \A f, g \in [Trees -> V] :
        (\A r \in Trees : Height(r) < Height(s) => f[r] = g[r]) => Body(f, s) = Body(g, s)
  BY TreeParts
<1>3. PICK g \in [Trees -> V] : \A s \in Trees : g[s] = Body(g, s)
  <2> HIDE DEF Body
  <2>1. V # {}
    BY NilIsTree
  <2> HIDE DEF V
  <2>2. G \in [Trees -> [[Trees -> V] -> V]]
    BY <1>1
  <2>3. \A s \in Trees : \A f \in [Trees -> V] : G[s][f] = Body(f, s)
    OBVIOUS
  <2> HIDE DEF G
  <2>4. \A s \in Trees : \A f, g \in [Trees -> V] :
          (\A r \in Trees : Height(r) < Height(s) => f[r] = g[r]) => G[s][f] = G[s][g]
    BY <1>2, <2>3
  <2>5. \E g \in [Trees -> V] : \A s \in Trees : g[s] = G[s][g]
    <3>1. LooksLower(V, G)
      BY <2>1, <2>2, <2>4 DEF LooksLower
    <3>2. QED
      BY <3>1, TreeRecursion
  <2>6. QED
    BY <2>3, <2>5
<1> HIDE DEF V
<1>4. ASSUME NEW u \in Trees PROVE Attach(u, k) = g[u]
  <2> DEFINE D == UpTo(u)
             Is(f) == f = [s \in D |-> Body(f, s)]
             h == CHOOSE f : Is(f)
  <2>1. D \in SUBSET Trees /\ u \in D
    BY LowerTrees, HeightIsLeast
  <2>2. ASSUME NEW s \in D, NEW f, NEW e,
               \A r \in D : Height(r) < Height(s) => f[r] = e[r]
        PROVE  Body(f, s) = Body(e, s)
    BY <2>1, <2>2, ChildrenAreLower
  <2>3. Is([s \in D |-> g[s]])
    <3> HIDE DEF D, Body
    <3>1. \A s \in D : g[s] = Body([r \in D |-> g[r]], s)
      BY <1>3, <2>1, <2>2
    <3>2. QED
      BY <3>1
  <2>4. Attach(u, k) = h[u]
    BY DEF Attach
  <2>5. Is(h)
    <3> HIDE DEF Is
    <3>1. QED
      BY <2>3
  <2> HIDE DEF h
  <2>6. \A s \in D : h[s] = g[s]
    <3> HIDE DEF D, Body
    <3>1. \A s \in D : h[s] = Body(h, s) /\ g[s] = Body(g, s)
      BY <1>3, <2>1, <2>5
    <3>2. ASSUME NEW s \in D, \A r \in D : Height(r) < Height(s) => h[r] = g[r]
          PROVE  h[s] = g[s]
      BY <2>2, <3>1, <3>2
    <3>3. QED
      BY <2>1, <3>2, SameOnLower
  <2>7. QED
    BY <2>1, <2>4, <2>6
<1>5. QED
  BY <1>3, <1>4, TreeParts DEF V

\* The leftmost node.
LEMMA SmallestDef ==
  ASSUME NEW t \in Trees
  PROVE  /\ Smallest(t) \in Trees
         /\ Smallest(t) = IF t = Nil \/ t.left = Nil THEN t ELSE Smallest(t.left)
<1> DEFINE V == Trees
           Body(f, s) == IF s = Nil \/ s.left = Nil THEN s ELSE f[s.left]
           G == [s \in Trees |-> [f \in [Trees -> V] |-> Body(f, s)]]
<1>1. \A s \in Trees : \A f \in [Trees -> V] : Body(f, s) \in V
  BY TreeParts
<1>2. \A s \in Trees : \A f, g \in [Trees -> V] :
        (\A r \in Trees : Height(r) < Height(s) => f[r] = g[r]) => Body(f, s) = Body(g, s)
  BY TreeParts
<1>3. PICK g \in [Trees -> V] : \A s \in Trees : g[s] = Body(g, s)
  <2> HIDE DEF Body
  <2>1. V # {}
    BY NilIsTree
  <2> HIDE DEF V
  <2>2. G \in [Trees -> [[Trees -> V] -> V]]
    BY <1>1
  <2>3. \A s \in Trees : \A f \in [Trees -> V] : G[s][f] = Body(f, s)
    OBVIOUS
  <2> HIDE DEF G
  <2>4. \A s \in Trees : \A f, g \in [Trees -> V] :
          (\A r \in Trees : Height(r) < Height(s) => f[r] = g[r]) => G[s][f] = G[s][g]
    BY <1>2, <2>3
  <2>5. \E g \in [Trees -> V] : \A s \in Trees : g[s] = G[s][g]
    <3>1. LooksLower(V, G)
      BY <2>1, <2>2, <2>4 DEF LooksLower
    <3>2. QED
      BY <3>1, TreeRecursion
  <2>6. QED
    BY <2>3, <2>5
<1> HIDE DEF V
<1>4. ASSUME NEW u \in Trees PROVE Smallest(u) = g[u]
  <2> DEFINE D == UpTo(u)
             Is(f) == f = [s \in D |-> Body(f, s)]
             h == CHOOSE f : Is(f)
  <2>1. D \in SUBSET Trees /\ u \in D
    BY LowerTrees, HeightIsLeast
  <2>2. ASSUME NEW s \in D, NEW f, NEW e,
               \A r \in D : Height(r) < Height(s) => f[r] = e[r]
        PROVE  Body(f, s) = Body(e, s)
    BY <2>1, <2>2, ChildrenAreLower
  <2>3. Is([s \in D |-> g[s]])
    <3> HIDE DEF D, Body
    <3>1. \A s \in D : g[s] = Body([r \in D |-> g[r]], s)
      BY <1>3, <2>1, <2>2
    <3>2. QED
      BY <3>1
  <2>4. Smallest(u) = h[u]
    BY DEF Smallest
  <2>5. Is(h)
    <3> HIDE DEF Is
    <3>1. QED
      BY <2>3
  <2> HIDE DEF h
  <2>6. \A s \in D : h[s] = g[s]
    <3> HIDE DEF D, Body
    <3>1. \A s \in D : h[s] = Body(h, s) /\ g[s] = Body(g, s)
      BY <1>3, <2>1, <2>5
    <3>2. ASSUME NEW s \in D, \A r \in D : Height(r) < Height(s) => h[r] = g[r]
          PROVE  h[s] = g[s]
      BY <2>2, <3>1, <3>2
    <3>3. QED
      BY <2>1, <3>2, SameOnLower
  <2>7. QED
    BY <2>1, <2>4, <2>6
<1>5. QED
  BY <1>3, <1>4, TreeParts DEF V

\* The tree without it.
LEMMA DropSmallestDef ==
  ASSUME NEW t \in Trees
  PROVE  /\ DropSmallest(t) \in Trees
         /\ DropSmallest(t) = IF t = Nil THEN Nil
                              ELSE IF t.left = Nil THEN t.right
                              ELSE HangLeft(t, DropSmallest(t.left))
<1> DEFINE V == Trees
           Body(f, s) == IF s = Nil THEN Nil
                         ELSE IF s.left = Nil THEN s.right ELSE HangLeft(s, f[s.left])
           G == [s \in Trees |-> [f \in [Trees -> V] |-> Body(f, s)]]
<1>1. \A s \in Trees : \A f \in [Trees -> V] : Body(f, s) \in V
  <2>1. ASSUME NEW s \in Trees, NEW f \in [Trees -> V] PROVE Body(f, s) \in V
    <3>1. CASE s = Nil
      <4>1. Nil \in Trees
        BY NilIsTree
      <4>2. QED
        BY <3>1, <4>1
    <3>2. CASE s # Nil
      <4>1. s.left \in Trees /\ s.right \in Trees /\ f[s.left] \in Trees /\ f[s.right] \in Trees
        BY <3>2, TreeParts
      <4>2. HangLeft(s, f[s.left]) \in Trees /\ HangRight(s, f[s.right]) \in Trees
        BY <3>2, <4>1, HangFacts
      <4>3. QED
        BY <3>2, <4>1, <4>2
    <3>3. QED
      BY <3>1, <3>2
  <2>2. QED
    BY <2>1
<1>2. \A s \in Trees : \A f, g \in [Trees -> V] :
        (\A r \in Trees : Height(r) < Height(s) => f[r] = g[r]) => Body(f, s) = Body(g, s)
  BY TreeParts
<1>3. PICK g \in [Trees -> V] : \A s \in Trees : g[s] = Body(g, s)
  <2> HIDE DEF Body
  <2>1. V # {}
    BY NilIsTree
  <2> HIDE DEF V
  <2>2. G \in [Trees -> [[Trees -> V] -> V]]
    BY <1>1
  <2>3. \A s \in Trees : \A f \in [Trees -> V] : G[s][f] = Body(f, s)
    OBVIOUS
  <2> HIDE DEF G
  <2>4. \A s \in Trees : \A f, g \in [Trees -> V] :
          (\A r \in Trees : Height(r) < Height(s) => f[r] = g[r]) => G[s][f] = G[s][g]
    BY <1>2, <2>3
  <2>5. \E g \in [Trees -> V] : \A s \in Trees : g[s] = G[s][g]
    <3>1. LooksLower(V, G)
      BY <2>1, <2>2, <2>4 DEF LooksLower
    <3>2. QED
      BY <3>1, TreeRecursion
  <2>6. QED
    BY <2>3, <2>5
<1> HIDE DEF V
<1>4. ASSUME NEW u \in Trees PROVE DropSmallest(u) = g[u]
  <2> DEFINE D == UpTo(u)
             Is(f) == f = [s \in D |-> Body(f, s)]
             h == CHOOSE f : Is(f)
  <2>1. D \in SUBSET Trees /\ u \in D
    BY LowerTrees, HeightIsLeast
  <2>2. ASSUME NEW s \in D, NEW f, NEW e,
               \A r \in D : Height(r) < Height(s) => f[r] = e[r]
        PROVE  Body(f, s) = Body(e, s)
    BY <2>1, <2>2, ChildrenAreLower
  <2>3. Is([s \in D |-> g[s]])
    <3> HIDE DEF D, Body
    <3>1. \A s \in D : g[s] = Body([r \in D |-> g[r]], s)
      BY <1>3, <2>1, <2>2
    <3>2. QED
      BY <3>1
  <2>4. DropSmallest(u) = h[u]
    BY DEF DropSmallest
  <2>5. Is(h)
    <3> HIDE DEF Is
    <3>1. QED
      BY <2>3
  <2> HIDE DEF h
  <2>6. \A s \in D : h[s] = g[s]
    <3> HIDE DEF D, Body
    <3>1. \A s \in D : h[s] = Body(h, s) /\ g[s] = Body(g, s)
      BY <1>3, <2>1, <2>5
    <3>2. ASSUME NEW s \in D, \A r \in D : Height(r) < Height(s) => h[r] = g[r]
          PROVE  h[s] = g[s]
      BY <2>2, <3>1, <3>2
    <3>3. QED
      BY <2>1, <3>2, SameOnLower
  <2>7. QED
    BY <2>1, <2>4, <2>6
<1>5. QED
  BY <1>3, <1>4, TreeParts DEF V

\* The rightmost node.
LEMMA LargestDef ==
  ASSUME NEW t \in Trees
  PROVE  /\ Largest(t) \in Trees
         /\ Largest(t) = IF t = Nil \/ t.right = Nil THEN t ELSE Largest(t.right)
<1> DEFINE V == Trees
           Body(f, s) == IF s = Nil \/ s.right = Nil THEN s ELSE f[s.right]
           G == [s \in Trees |-> [f \in [Trees -> V] |-> Body(f, s)]]
<1>1. \A s \in Trees : \A f \in [Trees -> V] : Body(f, s) \in V
  BY TreeParts
<1>2. \A s \in Trees : \A f, g \in [Trees -> V] :
        (\A r \in Trees : Height(r) < Height(s) => f[r] = g[r]) => Body(f, s) = Body(g, s)
  BY TreeParts
<1>3. PICK g \in [Trees -> V] : \A s \in Trees : g[s] = Body(g, s)
  <2> HIDE DEF Body
  <2>1. V # {}
    BY NilIsTree
  <2> HIDE DEF V
  <2>2. G \in [Trees -> [[Trees -> V] -> V]]
    BY <1>1
  <2>3. \A s \in Trees : \A f \in [Trees -> V] : G[s][f] = Body(f, s)
    OBVIOUS
  <2> HIDE DEF G
  <2>4. \A s \in Trees : \A f, g \in [Trees -> V] :
          (\A r \in Trees : Height(r) < Height(s) => f[r] = g[r]) => G[s][f] = G[s][g]
    BY <1>2, <2>3
  <2>5. \E g \in [Trees -> V] : \A s \in Trees : g[s] = G[s][g]
    <3>1. LooksLower(V, G)
      BY <2>1, <2>2, <2>4 DEF LooksLower
    <3>2. QED
      BY <3>1, TreeRecursion
  <2>6. QED
    BY <2>3, <2>5
<1> HIDE DEF V
<1>4. ASSUME NEW u \in Trees PROVE Largest(u) = g[u]
  <2> DEFINE D == UpTo(u)
             Is(f) == f = [s \in D |-> Body(f, s)]
             h == CHOOSE f : Is(f)
  <2>1. D \in SUBSET Trees /\ u \in D
    BY LowerTrees, HeightIsLeast
  <2>2. ASSUME NEW s \in D, NEW f, NEW e,
               \A r \in D : Height(r) < Height(s) => f[r] = e[r]
        PROVE  Body(f, s) = Body(e, s)
    BY <2>1, <2>2, ChildrenAreLower
  <2>3. Is([s \in D |-> g[s]])
    <3> HIDE DEF D, Body
    <3>1. \A s \in D : g[s] = Body([r \in D |-> g[r]], s)
      BY <1>3, <2>1, <2>2
    <3>2. QED
      BY <3>1
  <2>4. Largest(u) = h[u]
    BY DEF Largest
  <2>5. Is(h)
    <3> HIDE DEF Is
    <3>1. QED
      BY <2>3
  <2> HIDE DEF h
  <2>6. \A s \in D : h[s] = g[s]
    <3> HIDE DEF D, Body
    <3>1. \A s \in D : h[s] = Body(h, s) /\ g[s] = Body(g, s)
      BY <1>3, <2>1, <2>5
    <3>2. ASSUME NEW s \in D, \A r \in D : Height(r) < Height(s) => h[r] = g[r]
          PROVE  h[s] = g[s]
      BY <2>2, <3>1, <3>2
    <3>3. QED
      BY <2>1, <3>2, SameOnLower
  <2>7. QED
    BY <2>1, <2>4, <2>6
<1>5. QED
  BY <1>3, <1>4, TreeParts DEF V

\* The nodes on the way to k.
LEMMA WayDef ==
  ASSUME NEW t \in Trees, NEW k \in Int
  PROVE  /\ Way(t, k) \subseteq Trees
         /\ Way(t, k) = IF t = Nil THEN {}
                        ELSE {t} \cup Way(IF k < t.key THEN t.left ELSE t.right, k)
<1> DEFINE V == SUBSET Trees
           Body(f, s) == IF s = Nil THEN {}
                         ELSE {s} \cup f[IF k < s.key THEN s.left ELSE s.right]
           G == [s \in Trees |-> [f \in [Trees -> V] |-> Body(f, s)]]
<1>1. \A s \in Trees : \A f \in [Trees -> V] : Body(f, s) \in V
  BY TreeParts
<1>2. \A s \in Trees : \A f, g \in [Trees -> V] :
        (\A r \in Trees : Height(r) < Height(s) => f[r] = g[r]) => Body(f, s) = Body(g, s)
  BY TreeParts
<1>3. PICK g \in [Trees -> V] : \A s \in Trees : g[s] = Body(g, s)
  <2> HIDE DEF Body
  <2>1. V # {}
    BY NilIsTree
  <2> HIDE DEF V
  <2>2. G \in [Trees -> [[Trees -> V] -> V]]
    BY <1>1
  <2>3. \A s \in Trees : \A f \in [Trees -> V] : G[s][f] = Body(f, s)
    OBVIOUS
  <2> HIDE DEF G
  <2>4. \A s \in Trees : \A f, g \in [Trees -> V] :
          (\A r \in Trees : Height(r) < Height(s) => f[r] = g[r]) => G[s][f] = G[s][g]
    BY <1>2, <2>3
  <2>5. \E g \in [Trees -> V] : \A s \in Trees : g[s] = G[s][g]
    <3>1. LooksLower(V, G)
      BY <2>1, <2>2, <2>4 DEF LooksLower
    <3>2. QED
      BY <3>1, TreeRecursion
  <2>6. QED
    BY <2>3, <2>5
<1> HIDE DEF V
<1>4. ASSUME NEW u \in Trees PROVE Way(u, k) = g[u]
  <2> DEFINE D == UpTo(u)
             Is(f) == f = [s \in D |-> Body(f, s)]
             h == CHOOSE f : Is(f)
  <2>1. D \in SUBSET Trees /\ u \in D
    BY LowerTrees, HeightIsLeast
  <2>2. ASSUME NEW s \in D, NEW f, NEW e,
               \A r \in D : Height(r) < Height(s) => f[r] = e[r]
        PROVE  Body(f, s) = Body(e, s)
    BY <2>1, <2>2, ChildrenAreLower
  <2>3. Is([s \in D |-> g[s]])
    <3> HIDE DEF D, Body
    <3>1. \A s \in D : g[s] = Body([r \in D |-> g[r]], s)
      BY <1>3, <2>1, <2>2
    <3>2. QED
      BY <3>1
  <2>4. Way(u, k) = h[u]
    BY DEF Way
  <2>5. Is(h)
    <3> HIDE DEF Is
    <3>1. QED
      BY <2>3
  <2> HIDE DEF h
  <2>6. \A s \in D : h[s] = g[s]
    <3> HIDE DEF D, Body
    <3>1. \A s \in D : h[s] = Body(h, s) /\ g[s] = Body(g, s)
      BY <1>3, <2>1, <2>5
    <3>2. ASSUME NEW s \in D, \A r \in D : Height(r) < Height(s) => h[r] = g[r]
          PROVE  h[s] = g[s]
      BY <2>2, <3>1, <3>2
    <3>3. QED
      BY <2>1, <3>2, SameOnLower
  <2>7. QED
    BY <2>1, <2>4, <2>6
<1>5. QED
  BY <1>3, <1>4, TreeParts DEF V

\* The black height.
LEMMA BlackHeightDef ==
  ASSUME NEW t \in Trees
  PROVE  /\ BlackHeight(t) \in Nat
         /\ BlackHeight(t) = IF t = Nil THEN 1
                             ELSE IF 0 \in {BlackHeight(t.left), BlackHeight(t.right)}
                                     \/ BlackHeight(t.left) # BlackHeight(t.right) THEN 0
                             ELSE IF IsRed(t) THEN BlackHeight(t.left) ELSE BlackHeight(t.left) + 1
<1> DEFINE V == Nat
           Body(f, s) == IF s = Nil THEN 1
                         ELSE IF 0 \in {f[s.left], f[s.right]} \/ f[s.left] # f[s.right] THEN 0
                         ELSE IF IsRed(s) THEN f[s.left] ELSE f[s.left] + 1
           G == [s \in Trees |-> [f \in [Trees -> V] |-> Body(f, s)]]
<1>1. \A s \in Trees : \A f \in [Trees -> V] : Body(f, s) \in V
  BY TreeParts
<1>2. \A s \in Trees : \A f, g \in [Trees -> V] :
        (\A r \in Trees : Height(r) < Height(s) => f[r] = g[r]) => Body(f, s) = Body(g, s)
  BY TreeParts
<1>3. PICK g \in [Trees -> V] : \A s \in Trees : g[s] = Body(g, s)
  <2> HIDE DEF Body
  <2>1. V # {}
    BY NilIsTree
  <2> HIDE DEF V
  <2>2. G \in [Trees -> [[Trees -> V] -> V]]
    BY <1>1
  <2>3. \A s \in Trees : \A f \in [Trees -> V] : G[s][f] = Body(f, s)
    OBVIOUS
  <2> HIDE DEF G
  <2>4. \A s \in Trees : \A f, g \in [Trees -> V] :
          (\A r \in Trees : Height(r) < Height(s) => f[r] = g[r]) => G[s][f] = G[s][g]
    BY <1>2, <2>3
  <2>5. \E g \in [Trees -> V] : \A s \in Trees : g[s] = G[s][g]
    <3>1. LooksLower(V, G)
      BY <2>1, <2>2, <2>4 DEF LooksLower
    <3>2. QED
      BY <3>1, TreeRecursion
  <2>6. QED
    BY <2>3, <2>5
<1> HIDE DEF V
<1>4. ASSUME NEW u \in Trees PROVE BlackHeight(u) = g[u]
  <2> DEFINE D == UpTo(u)
             Is(f) == f = [s \in D |-> Body(f, s)]
             h == CHOOSE f : Is(f)
  <2>1. D \in SUBSET Trees /\ u \in D
    BY LowerTrees, HeightIsLeast
  <2>2. ASSUME NEW s \in D, NEW f, NEW e,
               \A r \in D : Height(r) < Height(s) => f[r] = e[r]
        PROVE  Body(f, s) = Body(e, s)
    BY <2>1, <2>2, ChildrenAreLower
  <2>3. Is([s \in D |-> g[s]])
    <3> HIDE DEF D, Body
    <3>1. \A s \in D : g[s] = Body([r \in D |-> g[r]], s)
      BY <1>3, <2>1, <2>2
    <3>2. QED
      BY <3>1
  <2>4. BlackHeight(u) = h[u]
    BY DEF BlackHeight
  <2>5. Is(h)
    <3> HIDE DEF Is
    <3>1. QED
      BY <2>3
  <2> HIDE DEF h
  <2>6. \A s \in D : h[s] = g[s]
    <3> HIDE DEF D, Body
    <3>1. \A s \in D : h[s] = Body(h, s) /\ g[s] = Body(g, s)
      BY <1>3, <2>1, <2>5
    <3>2. ASSUME NEW s \in D, \A r \in D : Height(r) < Height(s) => h[r] = g[r]
          PROVE  h[s] = g[s]
      BY <2>2, <3>1, <3>2
    <3>3. QED
      BY <2>1, <3>2, SameOnLower
  <2>7. QED
    BY <2>1, <2>4, <2>6
<1>5. QED
  BY <1>3, <1>4, TreeParts DEF V

\* How often each key is there.
LEMMA CopiesDef ==
  ASSUME NEW t \in Trees
  PROVE  /\ Copies(t) \in [Keys -> Nat]
         /\ Copies(t) = IF t = Nil THEN Nothing
                        ELSE [k \in Keys |-> Copies(t.left)[k] + Copies(t.right)[k]
                                             + (IF k = t.key THEN 1 ELSE 0)]
<1> DEFINE V == [Keys -> Nat]
           Body(f, s) == IF s = Nil THEN Nothing
                         ELSE [k \in Keys |-> f[s.left][k] + f[s.right][k]
                                              + (IF k = s.key THEN 1 ELSE 0)]
           G == [s \in Trees |-> [f \in [Trees -> V] |-> Body(f, s)]]
<1>1. \A s \in Trees : \A f \in [Trees -> V] : Body(f, s) \in V
  BY TreeParts DEF Nothing
<1>2. \A s \in Trees : \A f, g \in [Trees -> V] :
        (\A r \in Trees : Height(r) < Height(s) => f[r] = g[r]) => Body(f, s) = Body(g, s)
  BY TreeParts DEF Nothing
<1>3. PICK g \in [Trees -> V] : \A s \in Trees : g[s] = Body(g, s)
  <2> HIDE DEF Body
  <2>1. V # {}
    BY NothingIsCount
  <2> HIDE DEF V
  <2>2. G \in [Trees -> [[Trees -> V] -> V]]
    BY <1>1
  <2>3. \A s \in Trees : \A f \in [Trees -> V] : G[s][f] = Body(f, s)
    OBVIOUS
  <2> HIDE DEF G
  <2>4. \A s \in Trees : \A f, g \in [Trees -> V] :
          (\A r \in Trees : Height(r) < Height(s) => f[r] = g[r]) => G[s][f] = G[s][g]
    BY <1>2, <2>3
  <2>5. \E g \in [Trees -> V] : \A s \in Trees : g[s] = G[s][g]
    <3>1. LooksLower(V, G)
      BY <2>1, <2>2, <2>4 DEF LooksLower
    <3>2. QED
      BY <3>1, TreeRecursion
  <2>6. QED
    BY <2>3, <2>5
<1> HIDE DEF V
<1>4. ASSUME NEW u \in Trees PROVE Copies(u) = g[u]
  <2> DEFINE D == UpTo(u)
             Is(f) == f = [s \in D |-> Body(f, s)]
             h == CHOOSE f : Is(f)
  <2>1. D \in SUBSET Trees /\ u \in D
    BY LowerTrees, HeightIsLeast
  <2>2. ASSUME NEW s \in D, NEW f, NEW e,
               \A r \in D : Height(r) < Height(s) => f[r] = e[r]
        PROVE  Body(f, s) = Body(e, s)
    BY <2>1, <2>2, ChildrenAreLower DEF Nothing
  <2>3. Is([s \in D |-> g[s]])
    <3> HIDE DEF D, Body
    <3>1. \A s \in D : g[s] = Body([r \in D |-> g[r]], s)
      BY <1>3, <2>1, <2>2
    <3>2. QED
      BY <3>1
  <2>4. Copies(u) = h[u]
    BY DEF Copies
  <2>5. Is(h)
    <3> HIDE DEF Is
    <3>1. QED
      BY <2>3
  <2> HIDE DEF h
  <2>6. \A s \in D : h[s] = g[s]
    <3> HIDE DEF D, Body
    <3>1. \A s \in D : h[s] = Body(h, s) /\ g[s] = Body(g, s)
      BY <1>3, <2>1, <2>5
    <3>2. ASSUME NEW s \in D, \A r \in D : Height(r) < Height(s) => h[r] = g[r]
          PROVE  h[s] = g[s]
      BY <2>2, <3>1, <3>2
    <3>3. QED
      BY <2>1, <3>2, SameOnLower
  <2>7. QED
    BY <2>1, <2>4, <2>6
<1>5. QED
  BY <1>3, <1>4, TreeParts DEF V, Nothing

-----------------------------------------------------------------------------
(* Keys and order; the turns of an AVL tree.                               *)

\* What a turn keeps: the keys, their order, how many there are of each.
KeysOf(t) == {s.key : s \in Nodes(t)}

\* The keys grow strictly from left to right.
Ordered(t) ==
  \A s \in Nodes(t) : /\ \A x \in KeysOf(s.left) : x < s.key
                      /\ \A x \in KeysOf(s.right) : s.key < x

\* A call that keeps the keys and their order.
Keeps(t, u) ==
  /\ u \in Trees
  /\ KeysOf(u) = KeysOf(t) /\ (Ordered(t) => Ordered(u)) /\ Copies(u) = Copies(t)

\* The nodes, keys, order and copies of the empty tree.
LEMMA OfNil ==
  /\ Nodes(Nil) = {} /\ KeysOf(Nil) = {} /\ Ordered(Nil) /\ Copies(Nil) = Nothing
<1>1. Nodes(Nil) = {} /\ Copies(Nil) = Nothing
  BY NilIsTree, NodesDef, CopiesDef
<1>2. QED
  BY <1>1 DEF KeysOf, Ordered

\* The nodes, keys, order and copies of a node, from those of its children.
LEMMA OfNode ==
  ASSUME NEW t \in Trees, t # Nil
  PROVE  /\ Nodes(t) = {t} \cup Nodes(t.left) \cup Nodes(t.right)
         /\ KeysOf(t) = {t.key} \cup KeysOf(t.left) \cup KeysOf(t.right)
         /\ KeysOf(t) \subseteq Int
         /\ Ordered(t) <=> /\ Ordered(t.left) /\ Ordered(t.right)
                           /\ \A x \in KeysOf(t.left) : x < t.key
                           /\ \A x \in KeysOf(t.right) : t.key < x
         /\ Copies(t) = [k \in Keys |-> Copies(t.left)[k] + Copies(t.right)[k]
                                        + (IF k = t.key THEN 1 ELSE 0)]
<1>1. /\ t.left \in Trees /\ t.right \in Trees /\ t.key \in Int
      /\ Nodes(t) = {t} \cup Nodes(t.left) \cup Nodes(t.right)
  BY TreeParts, NodesDef
<1>2. KeysOf(t) = {t.key} \cup KeysOf(t.left) \cup KeysOf(t.right)
  BY <1>1 DEF KeysOf
<1>3. ASSUME NEW s \in Nodes(t) PROVE s.key \in Int
  <2> DEFINE S == {u \in Trees : \A r \in Nodes(u) : r # Nil}
  <2>1. Nil \in S
    BY NilIsTree, OfNil
  <2>2. ASSUME NEW u \in Trees, u # Nil, u.left \in S, u.right \in S PROVE u \in S
    BY <2>2, NodesDef
  <2> HIDE DEF S
  <2>3. t \in S
    BY <2>1, <2>2, ChildInduction
  <2>4. s \in Trees /\ s # Nil
    BY <2>3, NodesDef DEF S
  <2>5. QED
    BY <2>4, TreeParts
<1>4. KeysOf(t) \subseteq Int
  BY <1>3 DEF KeysOf
<1>5. Ordered(t) <=> /\ Ordered(t.left) /\ Ordered(t.right)
                     /\ \A x \in KeysOf(t.left) : x < t.key
                     /\ \A x \in KeysOf(t.right) : t.key < x
  BY <1>1 DEF Ordered
<1>6. Copies(t) = [k \in Keys |-> Copies(t.left)[k] + Copies(t.right)[k]
                                  + (IF k = t.key THEN 1 ELSE 0)]
  BY CopiesDef
<1>7. QED
  BY <1>1, <1>2, <1>4, <1>5, <1>6

\* The keys of a tree are integers, its copies are counted.
LEMMA KeysAreInts ==
  ASSUME NEW t \in Trees PROVE KeysOf(t) \subseteq Int /\ Copies(t) \in [Keys -> Nat]
<1>1. CASE t = Nil
  BY <1>1, OfNil, CopiesDef
<1>2. CASE t # Nil
  BY <1>2, OfNode, CopiesDef
<1>3. QED
  BY <1>1, <1>2

\* A node from its parts.
Built(t, k, l, r) ==
  /\ t \in Trees /\ t \notin Marks /\ t # Nil
  /\ t.key = k /\ t.left = l /\ t.right = r
  /\ Nodes(t) = {t} \cup Nodes(l) \cup Nodes(r)
  /\ KeysOf(t) = {k} \cup KeysOf(l) \cup KeysOf(r)
  /\ Ordered(t) <=> /\ Ordered(l) /\ Ordered(r)
                    /\ \A x \in KeysOf(l) : x < k
                    /\ \A x \in KeysOf(r) : k < x
  /\ Copies(t) = [j \in Keys |-> Copies(l)[j] + Copies(r)[j] + (IF j = k THEN 1 ELSE 0)]

\* What a node built from two trees holds.
LEMMA Made ==
  ASSUME NEW k \in Int, NEW c \in Colors, NEW l \in Trees, NEW r \in Trees
  PROVE  Built(Node(k, c, l, r), k, l, r)
<1> DEFINE t == Node(k, c, l, r)
<1>1. t.key = k /\ t.left = l /\ t.right = r /\ t \notin Marks
  BY NodeIsRecord
<1>2. t \in Trees
  BY NodeIsTree
<1> HIDE DEF t
<1>3. t # Nil
  BY <1>1 DEF Marks
<1>4. Built(t, k, l, r)
  BY <1>1, <1>2, <1>3, OfNode DEF Built
<1>5. QED
  BY <1>4 DEF t

\* A tree is neither of the marks of a failed call.
LEMMA TreeIsNoFault == \A t \in Trees : t # Fault /\ t # Loop
BY TreeParts, MarksDiffer DEF Marks

\* The turns, as the nodes they make.
LEMMA ShapeLL ==
  ASSUME NEW t \in Trees, t # Nil
  PROVE  RotLL(t) = IF t.left = Nil THEN Fault
                    ELSE Node(t.left.key, t.left.color, t.left.left,
                              Node(t.key, t.color, t.left.right, t.right))
<1>1. CASE t.left = Nil
  BY <1>1 DEF RotLL, Marks
<1>2. CASE t.left # Nil
  <2>1. t.left \in Trees /\ t.left \notin Marks /\ t.left.right \in Trees /\ t.right \in Trees
    BY <1>2, TreeParts
  <2>2. HangLeft(t, t.left.right) = Node(t.key, t.color, t.left.right, t.right)
        /\ HangLeft(t, t.left.right) \in Trees
    BY <2>1, HangFacts
  <2>3. QED
    <3>1. RotLL(t) = HangRight(t.left, HangLeft(t, t.left.right))
      BY <2>1 DEF RotLL
    <3>2. \A r \in Trees : HangRight(t.left, r) = Node(t.left.key, t.left.color, t.left.left, r)
      BY <1>2, <2>1, HangFacts
    <3>3. QED
      BY <1>2, <2>2, <3>1, <3>2
<1>3. QED
  BY <1>1, <1>2

\* The turn to the left, as a node (avl_rotate_rr).
LEMMA ShapeRR ==
  ASSUME NEW t \in Trees, t # Nil
  PROVE  RotRR(t) = IF t.right = Nil THEN Fault
                    ELSE Node(t.right.key, t.right.color,
                              Node(t.key, t.color, t.left, t.right.left), t.right.right)
<1>1. CASE t.right = Nil
  BY <1>1 DEF RotRR, Marks
<1>2. CASE t.right # Nil
  <2>1. t.right \in Trees /\ t.right \notin Marks /\ t.right.left \in Trees /\ t.left \in Trees
    BY <1>2, TreeParts
  <2>2. HangRight(t, t.right.left) = Node(t.key, t.color, t.left, t.right.left)
        /\ HangRight(t, t.right.left) \in Trees
    BY <2>1, HangFacts
  <2>3. QED
    BY <1>2, <2>1, <2>2, HangFacts DEF RotRR
<1>3. QED
  BY <1>1, <1>2

\* The double turn by the left child, as a node (avl_rotate_lr).
LEMMA ShapeLR ==
  ASSUME NEW t \in Trees, t # Nil
  PROVE  RotLR(t) = IF t.left = Nil \/ t.left.right = Nil THEN Fault
                    ELSE LET x == t.left  y == t.left.right IN
                         Node(y.key, y.color, Node(x.key, x.color, x.left, y.left),
                              Node(t.key, t.color, y.right, t.right))
<1> DEFINE x == t.left  y == t.left.right
           z == Node(y.key, y.color, Node(x.key, x.color, x.left, y.left), y.right)
           s == Node(t.key, t.color, z, t.right)
<1>1. CASE x = Nil
  BY <1>1, HangFacts DEF RotLR, Then, Marks
<1>2. CASE x # Nil /\ y = Nil
  <2>1. x \in Trees /\ x \notin Marks
    BY <1>2, TreeParts
  <2>2. RotRR(x) = Fault
    BY <1>2, <2>1, ShapeRR
  <2>3. QED
    BY <1>2, <2>1, <2>2, HangFacts DEF RotLR, Then, Marks
<1>3. CASE x # Nil /\ y # Nil
  <2>1. x \in Trees /\ x \notin Marks /\ y \in Trees /\ y \notin Marks
        /\ x.left \in Trees /\ y.left \in Trees /\ y.right \in Trees /\ t.right \in Trees
        /\ x.key \in Int /\ y.key \in Int /\ t.key \in Int
        /\ x.color \in Colors /\ y.color \in Colors /\ t.color \in Colors
    BY <1>3, TreeParts
  <2>2. RotRR(x) = z /\ z \in Trees /\ z # Nil
    <3>1. RotRR(x) = z
      BY <1>3, <2>1, ShapeRR
    <3>2. Node(x.key, x.color, x.left, y.left) \in Trees
      BY <2>1, NodeIsTree
    <3>3. z \in Trees
      BY <2>1, <3>2, NodeIsTree
    <3>4. z # Nil
      BY NodeIsRecord DEF Marks
    <3>5. QED
      BY <3>1, <3>3, <3>4
  <2>3. z.key = y.key /\ z.color = y.color /\ z.left = Node(x.key, x.color, x.left, y.left) /\ z.right = y.right
    BY NodeIsRecord
  <2> HIDE DEF z
  <2>4. HangLeft(t, z) = s
    BY <2>2, HangFacts
  <2>5. s \in Trees /\ s \notin Marks /\ s # Nil /\ s.key = t.key /\ s.color = t.color /\ s.left = z /\ s.right = t.right
    <3>1. s \in Trees
      BY <2>1, <2>2, NodeIsTree
    <3>2. s \notin Marks /\ s.key = t.key /\ s.color = t.color /\ s.left = z /\ s.right = t.right
      BY NodeIsRecord
    <3>3. QED
      BY <3>1, <3>2 DEF Marks
  <2> HIDE DEF s
  <2>6. RotLR(t) = RotLL(s)
    BY <2>1, <2>2, <2>4, <2>5 DEF RotLR, Then
  <2>7. RotLL(s) = Node(z.key, z.color, z.left, Node(t.key, t.color, z.right, t.right))
    BY <2>2, <2>5, ShapeLL
  <2>8. QED
    BY <1>3, <2>3, <2>6, <2>7
<1>4. QED
  BY <1>1, <1>2, <1>3

\* The double turn by the right child, as a node (avl_rotate_rl).
LEMMA ShapeRL ==
  ASSUME NEW t \in Trees, t # Nil
  PROVE  RotRL(t) = IF t.right = Nil \/ t.right.left = Nil THEN Fault
                    ELSE LET x == t.right  y == t.right.left IN
                         Node(y.key, y.color, Node(t.key, t.color, t.left, y.left),
                              Node(x.key, x.color, y.right, x.right))
<1> DEFINE x == t.right  y == t.right.left
           z == Node(y.key, y.color, y.left, Node(x.key, x.color, y.right, x.right))
           s == Node(t.key, t.color, t.left, z)
<1>1. CASE x = Nil
  BY <1>1, HangFacts DEF RotRL, Then, Marks
<1>2. CASE x # Nil /\ y = Nil
  <2>1. x \in Trees /\ x \notin Marks
    BY <1>2, TreeParts
  <2>2. RotLL(x) = Fault
    BY <1>2, <2>1, ShapeLL
  <2>3. QED
    BY <1>2, <2>1, <2>2, HangFacts DEF RotRL, Then, Marks
<1>3. CASE x # Nil /\ y # Nil
  <2>1. x \in Trees /\ x \notin Marks /\ y \in Trees /\ y \notin Marks
        /\ x.right \in Trees /\ y.left \in Trees /\ y.right \in Trees /\ t.left \in Trees
        /\ x.key \in Int /\ y.key \in Int /\ t.key \in Int
        /\ x.color \in Colors /\ y.color \in Colors /\ t.color \in Colors
    BY <1>3, TreeParts
  <2>2. RotLL(x) = z /\ z \in Trees /\ z # Nil
    <3>1. RotLL(x) = z
      BY <1>3, <2>1, ShapeLL
    <3>2. Node(x.key, x.color, y.right, x.right) \in Trees
      BY <2>1, NodeIsTree
    <3>3. z \in Trees
      BY <2>1, <3>2, NodeIsTree
    <3>4. z # Nil
      BY NodeIsRecord DEF Marks
    <3>5. QED
      BY <3>1, <3>3, <3>4
  <2>3. z.key = y.key /\ z.color = y.color /\ z.right = Node(x.key, x.color, y.right, x.right) /\ z.left = y.left
    BY NodeIsRecord
  <2> HIDE DEF z
  <2>4. HangRight(t, z) = s
    BY <2>2, HangFacts
  <2>5. s \in Trees /\ s \notin Marks /\ s # Nil /\ s.key = t.key /\ s.color = t.color /\ s.right = z /\ s.left = t.left
    <3>1. s \in Trees
      BY <2>1, <2>2, NodeIsTree
    <3>2. s \notin Marks /\ s.key = t.key /\ s.color = t.color /\ s.right = z /\ s.left = t.left
      BY NodeIsRecord
    <3>3. QED
      BY <3>1, <3>2 DEF Marks
  <2> HIDE DEF s
  <2>6. RotRL(t) = RotRR(s)
    BY <2>1, <2>2, <2>4, <2>5 DEF RotRL, Then
  <2>7. RotRR(s) = Node(z.key, z.color, Node(t.key, t.color, t.left, z.left), z.right)
    BY <2>2, <2>5, ShapeRR
  <2>8. QED
    BY <1>3, <2>3, <2>6, <2>7
<1>4. QED
  BY <1>1, <1>2, <1>3

-----------------------------------------------------------------------------
(* Two trees with the same keys in the same order.                         *)

\* Two calls that keep the keys keep them together.
LEMMA KeepsTwice ==
  ASSUME NEW t, NEW u, NEW v, Keeps(t, u), Keeps(u, v) PROVE Keeps(t, v)
BY DEF Keeps

\* A tree keeps its own keys.
LEMMA KeepsSelf == \A t \in Trees : Keeps(t, t)
BY DEF Keeps

\* A call that keeps the keys neither fills an empty tree nor empties one.
LEMMA KeepsNil ==
  ASSUME NEW t \in Trees, NEW u, Keeps(t, u) PROVE t = Nil <=> u = Nil
<1>1. \A s \in Trees : s = Nil <=> KeysOf(s) = {}
  BY OfNil, OfNode
<1>2. QED
  BY <1>1 DEF Keeps

\* A node keeps its keys when its children keep theirs, whatever its colour.
LEMMA KeepsNode ==
  ASSUME NEW k \in Int, NEW c \in Colors, NEW d \in Colors,
         NEW l \in Trees, NEW r \in Trees, NEW m, NEW s, Keeps(l, m), Keeps(r, s)
  PROVE  Keeps(Node(k, c, l, r), Node(k, d, m, s))
<1> DEFINE t == Node(k, c, l, r)  u == Node(k, d, m, s)
<1>1. /\ m \in Trees /\ s \in Trees /\ KeysOf(m) = KeysOf(l) /\ KeysOf(s) = KeysOf(r)
      /\ Ordered(l) => Ordered(m)
      /\ Ordered(r) => Ordered(s)
      /\ Copies(m) = Copies(l) /\ Copies(s) = Copies(r)
  BY DEF Keeps
<1>2. /\ KeysOf(t) = {k} \cup KeysOf(l) \cup KeysOf(r)
      /\ Ordered(t) <=> /\ Ordered(l) /\ Ordered(r)
                        /\ \A x \in KeysOf(l) : x < k
                        /\ \A x \in KeysOf(r) : k < x
      /\ Copies(t) = [j \in Keys |-> Copies(l)[j] + Copies(r)[j] + (IF j = k THEN 1 ELSE 0)]
  <2>1. Built(t, k, l, r)
    BY Made
  <2>2. QED
    BY <2>1 DEF Built
<1>3. /\ u \in Trees
      /\ KeysOf(u) = {k} \cup KeysOf(m) \cup KeysOf(s)
      /\ Ordered(u) <=> /\ Ordered(m) /\ Ordered(s)
                        /\ \A x \in KeysOf(m) : x < k
                        /\ \A x \in KeysOf(s) : k < x
      /\ Copies(u) = [j \in Keys |-> Copies(m)[j] + Copies(s)[j] + (IF j = k THEN 1 ELSE 0)]
  <2>1. Built(u, k, m, s)
    BY <1>1, Made
  <2>2. QED
    BY <2>1 DEF Built
<1> HIDE DEF t, u
<1>4. Copies(u) = Copies(t)
  BY <1>1, <1>2, <1>3
<1>5. Keeps(t, u)
  BY <1>1, <1>2, <1>3, <1>4 DEF Keeps
<1>6. QED
  BY <1>5 DEF t, u

\* The node j moves up over the node k, or down again.
LEMMA KeepsTurn ==
  ASSUME NEW k \in Int, NEW j \in Int, NEW c1 \in Colors, NEW c2 \in Colors,
         NEW d1 \in Colors, NEW d2 \in Colors, NEW a \in Trees, NEW b \in Trees, NEW e \in Trees
  PROVE  /\ Keeps(Node(k, c1, Node(j, d1, a, b), e), Node(j, d2, a, Node(k, c2, b, e)))
         /\ Keeps(Node(j, d2, a, Node(k, c2, b, e)), Node(k, c1, Node(j, d1, a, b), e))
<1> DEFINE m == Node(j, d1, a, b)  p == Node(k, c1, m, e)
           n == Node(k, c2, b, e)  q == Node(j, d2, a, n)
<1>1. /\ m \in Trees
      /\ KeysOf(m) = {j} \cup KeysOf(a) \cup KeysOf(b)
      /\ Ordered(m) <=> /\ Ordered(a) /\ Ordered(b)
                        /\ \A x \in KeysOf(a) : x < j
                        /\ \A x \in KeysOf(b) : j < x
      /\ Copies(m) = [i \in Keys |-> Copies(a)[i] + Copies(b)[i] + (IF i = j THEN 1 ELSE 0)]
  <2>1. Built(m, j, a, b)
    BY Made
  <2>2. QED
    BY <2>1 DEF Built
<1>2. /\ n \in Trees
      /\ KeysOf(n) = {k} \cup KeysOf(b) \cup KeysOf(e)
      /\ Ordered(n) <=> /\ Ordered(b) /\ Ordered(e)
                        /\ \A x \in KeysOf(b) : x < k
                        /\ \A x \in KeysOf(e) : k < x
      /\ Copies(n) = [i \in Keys |-> Copies(b)[i] + Copies(e)[i] + (IF i = k THEN 1 ELSE 0)]
  <2>1. Built(n, k, b, e)
    BY Made
  <2>2. QED
    BY <2>1 DEF Built
<1> HIDE DEF m, n
<1>3. /\ p \in Trees
      /\ KeysOf(p) = {k} \cup KeysOf(m) \cup KeysOf(e)
      /\ Ordered(p) <=> /\ Ordered(m) /\ Ordered(e)
                        /\ \A x \in KeysOf(m) : x < k
                        /\ \A x \in KeysOf(e) : k < x
      /\ Copies(p) = [i \in Keys |-> Copies(m)[i] + Copies(e)[i] + (IF i = k THEN 1 ELSE 0)]
  <2>1. Built(p, k, m, e)
    BY <1>1, Made
  <2>2. QED
    BY <2>1 DEF Built
<1>4. /\ q \in Trees
      /\ KeysOf(q) = {j} \cup KeysOf(a) \cup KeysOf(n)
      /\ Ordered(q) <=> /\ Ordered(a) /\ Ordered(n)
                        /\ \A x \in KeysOf(a) : x < j
                        /\ \A x \in KeysOf(n) : j < x
      /\ Copies(q) = [i \in Keys |-> Copies(a)[i] + Copies(n)[i] + (IF i = j THEN 1 ELSE 0)]
  <2>1. Built(q, j, a, n)
    BY <1>2, Made
  <2>2. QED
    BY <2>1 DEF Built
<1> HIDE DEF p, q
<1>5. KeysOf(a) \subseteq Int /\ KeysOf(b) \subseteq Int /\ KeysOf(e) \subseteq Int
  BY KeysAreInts
<1>6. Copies(p) = Copies(q)
  <2>1. \A i \in Keys : Copies(a)[i] \in Nat /\ Copies(b)[i] \in Nat /\ Copies(e)[i] \in Nat
    BY KeysAreInts
  <2>2. ASSUME NEW i \in Keys
        PROVE  Copies(m)[i] + Copies(e)[i] + (IF i = k THEN 1 ELSE 0)
                 = Copies(a)[i] + Copies(n)[i] + (IF i = j THEN 1 ELSE 0)
    BY <1>1, <1>2, <2>1
  <2>3. QED
    BY <1>3, <1>4, <2>2
<1>7. KeysOf(p) = KeysOf(q)
  BY <1>1, <1>2, <1>3, <1>4
<1>8. Ordered(p) <=> Ordered(q)
  <2>1. ASSUME Ordered(p) PROVE Ordered(q)
    <3>1. j < k
      BY <1>1, <1>3, <2>1
    <3>2. \A x \in KeysOf(e) : j < x
      BY <1>3, <1>5, <2>1, <3>1
    <3>3. QED
      BY <1>1, <1>2, <1>3, <1>4, <2>1, <3>1, <3>2
  <2>2. ASSUME Ordered(q) PROVE Ordered(p)
    <3>1. j < k
      BY <1>2, <1>4, <2>2
    <3>2. \A x \in KeysOf(a) : x < k
      BY <1>4, <1>5, <2>2, <3>1
    <3>3. QED
      BY <1>1, <1>2, <1>3, <1>4, <2>2, <3>1, <3>2
  <2>3. QED
    BY <2>1, <2>2
<1>9. Keeps(p, q) /\ Keeps(q, p)
  BY <1>3, <1>4, <1>6, <1>7, <1>8 DEF Keeps
<1>10. QED
  BY <1>9 DEF m, n, p, q

\* A node j between two others moves up over both.
LEMMA KeepsDoubleTurn ==
  ASSUME NEW i \in Int, NEW j \in Int, NEW k \in Int,
         NEW ci \in Colors, NEW cj \in Colors, NEW ck \in Colors,
         NEW di \in Colors, NEW dj \in Colors, NEW dk \in Colors,
         NEW a \in Trees, NEW b \in Trees, NEW e \in Trees, NEW f \in Trees
  PROVE  /\ Keeps(Node(k, ck, Node(i, ci, a, Node(j, cj, b, e)), f),
                  Node(j, dj, Node(i, di, a, b), Node(k, dk, e, f)))
         /\ Keeps(Node(i, ci, a, Node(k, ck, Node(j, cj, b, e), f)),
                  Node(j, dj, Node(i, di, a, b), Node(k, dk, e, f)))
<1> DEFINE m == Node(j, cj, Node(i, di, a, b), e)
           n == Node(j, cj, b, Node(k, dk, e, f))
<1>1. /\ Node(i, di, a, b) \in Trees /\ Node(j, cj, b, e) \in Trees
      /\ Node(k, dk, e, f) \in Trees
  BY NodeIsTree
<1>2. m \in Trees /\ n \in Trees /\ Node(i, ci, a, Node(j, cj, b, e)) \in Trees
      /\ Node(k, ck, Node(j, cj, b, e), f) \in Trees
  BY <1>1, NodeIsTree
<1>3. Keeps(Node(i, ci, a, Node(j, cj, b, e)), m)
  BY KeepsTurn
<1>4. Keeps(Node(k, ck, Node(j, cj, b, e), f), n)
  BY KeepsTurn
<1>5. Keeps(a, a) /\ Keeps(f, f)
  BY KeepsSelf
<1>6. Keeps(Node(k, ck, m, f), Node(j, dj, Node(i, di, a, b), Node(k, dk, e, f)))
  BY <1>1, KeepsTurn
<1>7. Keeps(Node(i, ci, a, n), Node(j, dj, Node(i, di, a, b), Node(k, dk, e, f)))
  BY <1>1, KeepsTurn
<1> HIDE DEF m, n
<1>8. Keeps(Node(k, ck, Node(i, ci, a, Node(j, cj, b, e)), f), Node(k, ck, m, f))
  BY <1>2, <1>3, <1>5, KeepsNode
<1>9. Keeps(Node(i, ci, a, Node(k, ck, Node(j, cj, b, e), f)), Node(i, ci, a, n))
  BY <1>2, <1>4, <1>5, KeepsNode
<1>10. QED
  BY <1>6, <1>7, <1>8, <1>9, KeepsTwice

\* Every turn keeps the keys and their order, or dereferences NULL.
LEMMA RotationsKeep ==
  ASSUME NEW t \in Trees, t # Nil
  PROVE  /\ RotLL(t) = Fault \/ Keeps(t, RotLL(t))
         /\ RotRR(t) = Fault \/ Keeps(t, RotRR(t))
         /\ RotLR(t) = Fault \/ Keeps(t, RotLR(t))
         /\ RotRL(t) = Fault \/ Keeps(t, RotRL(t))
<1> DEFINE l == t.left  r == t.right
<1>1. /\ t.key \in Int /\ t.color \in Colors /\ l \in Trees /\ r \in Trees
      /\ t = Node(t.key, t.color, l, r)
  BY TreeParts
<1>2. l # Nil => /\ l.key \in Int /\ l.color \in Colors /\ l.left \in Trees /\ l.right \in Trees
                 /\ l = Node(l.key, l.color, l.left, l.right)
  BY <1>1, TreeParts
<1>3. r # Nil => /\ r.key \in Int /\ r.color \in Colors /\ r.left \in Trees /\ r.right \in Trees
                 /\ r = Node(r.key, r.color, r.left, r.right)
  BY <1>1, TreeParts
<1>4. RotLL(t) = Fault \/ Keeps(t, RotLL(t))
  <2>1. CASE l = Nil
    BY <2>1, ShapeLL
  <2>2. CASE l # Nil
    <3>1. RotLL(t) = Node(l.key, l.color, l.left, Node(t.key, t.color, l.right, r))
      BY <2>2, ShapeLL
    <3>2. Keeps(Node(t.key, t.color, Node(l.key, l.color, l.left, l.right), r),
                Node(l.key, l.color, l.left, Node(t.key, t.color, l.right, r)))
      BY <1>1, <1>2, <2>2, KeepsTurn
    <3>3. t = Node(t.key, t.color, Node(l.key, l.color, l.left, l.right), r)
      BY <1>1, <1>2, <2>2
    <3>4. QED
      BY <3>1, <3>2, <3>3
  <2>3. QED
    BY <2>1, <2>2
<1>5. RotRR(t) = Fault \/ Keeps(t, RotRR(t))
  <2>1. CASE r = Nil
    BY <2>1, ShapeRR
  <2>2. CASE r # Nil
    <3>1. RotRR(t) = Node(r.key, r.color, Node(t.key, t.color, l, r.left), r.right)
      BY <2>2, ShapeRR
    <3>2. Keeps(Node(t.key, t.color, l, Node(r.key, r.color, r.left, r.right)),
                Node(r.key, r.color, Node(t.key, t.color, l, r.left), r.right))
      BY <1>1, <1>3, <2>2, KeepsTurn
    <3>3. t = Node(t.key, t.color, l, Node(r.key, r.color, r.left, r.right))
      BY <1>1, <1>3, <2>2
    <3>4. QED
      BY <3>1, <3>2, <3>3
  <2>3. QED
    BY <2>1, <2>2
<1>6. RotLR(t) = Fault \/ Keeps(t, RotLR(t))
  <2> DEFINE y == l.right
  <2>1. CASE l = Nil \/ y = Nil
    BY <2>1, ShapeLR
  <2>2. CASE l # Nil /\ y # Nil
    <3>1. /\ y.key \in Int /\ y.color \in Colors /\ y.left \in Trees /\ y.right \in Trees
          /\ y = Node(y.key, y.color, y.left, y.right)
      BY <1>2, <2>2, TreeParts
    <3>2. RotLR(t) = Node(y.key, y.color, Node(l.key, l.color, l.left, y.left),
                          Node(t.key, t.color, y.right, r))
      BY <2>2, ShapeLR
    <3>3. Keeps(Node(t.key, t.color,
                     Node(l.key, l.color, l.left, Node(y.key, y.color, y.left, y.right)), r),
                Node(y.key, y.color, Node(l.key, l.color, l.left, y.left),
                     Node(t.key, t.color, y.right, r)))
      BY <1>1, <1>2, <2>2, <3>1, KeepsDoubleTurn
    <3>4. t = Node(t.key, t.color,
                   Node(l.key, l.color, l.left, Node(y.key, y.color, y.left, y.right)), r)
      BY <1>1, <1>2, <2>2, <3>1
    <3>5. QED
      BY <3>2, <3>3, <3>4
  <2>3. QED
    BY <2>1, <2>2
<1>7. RotRL(t) = Fault \/ Keeps(t, RotRL(t))
  <2> DEFINE y == r.left
  <2>1. CASE r = Nil \/ y = Nil
    BY <2>1, ShapeRL
  <2>2. CASE r # Nil /\ y # Nil
    <3>1. /\ y.key \in Int /\ y.color \in Colors /\ y.left \in Trees /\ y.right \in Trees
          /\ y = Node(y.key, y.color, y.left, y.right)
      BY <1>3, <2>2, TreeParts
    <3>2. RotRL(t) = Node(y.key, y.color, Node(t.key, t.color, l, y.left),
                          Node(r.key, r.color, y.right, r.right))
      BY <2>2, ShapeRL
    <3>3. Keeps(Node(t.key, t.color, l,
                     Node(r.key, r.color, Node(y.key, y.color, y.left, y.right), r.right)),
                Node(y.key, y.color, Node(t.key, t.color, l, y.left),
                     Node(r.key, r.color, y.right, r.right)))
      BY <1>1, <1>3, <2>2, <3>1, KeepsDoubleTurn
    <3>4. t = Node(t.key, t.color, l,
                   Node(r.key, r.color, Node(y.key, y.color, y.left, y.right), r.right))
      BY <1>1, <1>3, <2>2, <3>1
    <3>5. QED
      BY <3>2, <3>3, <3>4
  <2>3. QED
    BY <2>1, <2>2
<1>8. QED
  BY <1>4, <1>5, <1>6, <1>7

-----------------------------------------------------------------------------
(* AVL tree: what an attachment does to the keys.                          *)

\* A turn: the keys are kept, or a NULL was dereferenced.
Turns(t, u) == u = Fault \/ Keeps(t, u)

\* What a call on a tree returns.
MaybeTrees == Trees \cup {Fault}

\* A turn returns a tree or a fault.
LEMMA TurnsIsMaybe ==
  ASSUME NEW t, NEW u, Turns(t, u) PROVE u \in MaybeTrees
BY DEF Turns, Keeps, MaybeTrees

\* A turn after a turn is a turn.
LEMMA TurnsTwice ==
  ASSUME NEW t, NEW u, NEW v, u # Fault => Turns(u, v), u = Fault => v = Fault, Turns(t, u)
  PROVE  Turns(t, v)
BY KeepsTwice DEF Turns

\* A turn below a node is a turn of the node.
LEMMA HangTurns ==
  ASSUME NEW t \in Trees, t # Nil, NEW u
  PROVE  /\ Turns(t.left, u) => Turns(t, HangLeft(t, u))
         /\ Turns(t.right, u) => Turns(t, HangRight(t, u))
<1>1. /\ t.key \in Int /\ t.color \in Colors /\ t.left \in Trees /\ t.right \in Trees
      /\ t = Node(t.key, t.color, t.left, t.right)
  BY TreeParts
<1>2. Keeps(t.left, t.left) /\ Keeps(t.right, t.right)
  BY <1>1, KeepsSelf
<1>3. ASSUME Keeps(t.left, u) PROVE Keeps(t, HangLeft(t, u))
  <2>1. HangLeft(t, u) = Node(t.key, t.color, u, t.right)
    BY <1>3, HangFacts DEF Keeps
  <2>2. Keeps(Node(t.key, t.color, t.left, t.right), Node(t.key, t.color, u, t.right))
    BY <1>1, <1>2, <1>3, KeepsNode
  <2>3. QED
    BY <1>1, <2>1, <2>2
<1>4. ASSUME Keeps(t.right, u) PROVE Keeps(t, HangRight(t, u))
  <2>1. HangRight(t, u) = Node(t.key, t.color, t.left, u)
    BY <1>4, HangFacts DEF Keeps
  <2>2. Keeps(Node(t.key, t.color, t.left, t.right), Node(t.key, t.color, t.left, u))
    BY <1>1, <1>2, <1>4, KeepsNode
  <2>3. QED
    BY <1>1, <2>1, <2>2
<1>5. HangLeft(t, Fault) = Fault /\ HangRight(t, Fault) = Fault
  BY HangFacts
<1>6. QED
  BY <1>3, <1>4, <1>5 DEF Turns

\* The turns chosen after an attachment and after a removal keep the keys.
LEMMA AvlTurnsKeep ==
  ASSUME NEW t \in Trees, t # Nil
  PROVE  /\ \A k \in Int : Turns(t, AvlTurn(t, k))
         /\ Turns(t, AvlRebalanceEx(t))
<1>1. Keeps(t, t)
  BY KeepsSelf
<1>2. QED
  BY <1>1, RotationsKeep DEF Turns, AvlTurn, AvlRebalanceEx

\* The turn on the way to k.
LEMMA AvlRebalanceDef ==
  ASSUME NEW t \in Trees, NEW k \in Int
  PROVE  /\ AvlRebalance(t, k) \in MaybeTrees
         /\ AvlRebalance(t, k) =
             IF t = Nil THEN Nil
             ELSE LET child == IF k < t.key THEN t.left ELSE t.right IN
                  IF ~OnTheWay(child, k) THEN AvlTurn(t, k)
                  ELSE IF k < t.key THEN HangLeft(t, AvlRebalance(child, k))
                  ELSE HangRight(t, AvlRebalance(child, k))
<1> DEFINE V == MaybeTrees
           Body(f, s) == LET child == IF k < s.key THEN s.left ELSE s.right IN
                         IF s = Nil THEN Nil
                         ELSE IF ~OnTheWay(child, k) THEN AvlTurn(s, k)
                         ELSE IF k < s.key THEN HangLeft(s, f[child])
                         ELSE HangRight(s, f[child])
           G == [s \in Trees |-> [f \in [Trees -> V] |-> Body(f, s)]]
<1>1. \A s \in Trees : \A f \in [Trees -> V] : Body(f, s) \in V
  <2>1. ASSUME NEW s \in Trees, NEW f \in [Trees -> V], s # Nil PROVE Body(f, s) \in V
    <3> DEFINE child == IF k < s.key THEN s.left ELSE s.right
    <3>1. s.left \in Trees /\ s.right \in Trees /\ child \in Trees
      BY <2>1, TreeParts
    <3>2. f[child] \in MaybeTrees
      BY <3>1
    <3>3. AvlTurn(s, k) \in MaybeTrees
      BY <2>1, AvlTurnsKeep, TurnsIsMaybe
    <3> HIDE DEF child
    <3>4. HangLeft(s, f[child]) \in MaybeTrees /\ HangRight(s, f[child]) \in MaybeTrees
      BY <2>1, <3>2, HangFacts DEF MaybeTrees
    <3>5. QED
      BY <2>1, <3>3, <3>4 DEF child
  <2>2. \A f : Body(f, Nil) \in V
    BY NilIsTree DEF MaybeTrees
  <2> HIDE DEF Body, V
  <2>3. QED
    BY <2>1, <2>2
<1>2. \A s \in Trees : \A f, g \in [Trees -> V] :
        (\A r \in Trees : Height(r) < Height(s) => f[r] = g[r]) => Body(f, s) = Body(g, s)
  BY TreeParts
<1>3. PICK g \in [Trees -> V] : \A s \in Trees : g[s] = Body(g, s)
  <2> HIDE DEF Body
  <2>1. V # {}
    BY NilIsTree DEF MaybeTrees
  <2> HIDE DEF V
  <2>2. G \in [Trees -> [[Trees -> V] -> V]]
    BY <1>1
  <2>3. \A s \in Trees : \A f \in [Trees -> V] : G[s][f] = Body(f, s)
    OBVIOUS
  <2> HIDE DEF G
  <2>4. \A s \in Trees : \A f, g \in [Trees -> V] :
          (\A r \in Trees : Height(r) < Height(s) => f[r] = g[r]) => G[s][f] = G[s][g]
    BY <1>2, <2>3
  <2>5. \E g \in [Trees -> V] : \A s \in Trees : g[s] = G[s][g]
    <3>1. LooksLower(V, G)
      BY <2>1, <2>2, <2>4 DEF LooksLower
    <3>2. QED
      BY <3>1, TreeRecursion
  <2>6. QED
    BY <2>3, <2>5
<1> HIDE DEF V
<1>4. ASSUME NEW u \in Trees PROVE AvlRebalance(u, k) = g[u]
  <2> DEFINE D == UpTo(u)
             Is(f) == f = [s \in D |-> Body(f, s)]
             h == CHOOSE f : Is(f)
  <2>1. D \in SUBSET Trees /\ u \in D
    BY LowerTrees, HeightIsLeast
  <2>2. ASSUME NEW s \in D, NEW f, NEW e,
               \A r \in D : Height(r) < Height(s) => f[r] = e[r]
        PROVE  Body(f, s) = Body(e, s)
    BY <2>1, <2>2, ChildrenAreLower
  <2>3. Is([s \in D |-> g[s]])
    <3> HIDE DEF D, Body
    <3>1. \A s \in D : g[s] = Body([r \in D |-> g[r]], s)
      BY <1>3, <2>1, <2>2
    <3>2. QED
      BY <3>1
  <2>4. AvlRebalance(u, k) = h[u]
    BY DEF AvlRebalance
  <2>5. Is(h)
    <3> HIDE DEF Is
    <3>1. QED
      BY <2>3
  <2> HIDE DEF h
  <2>6. \A s \in D : h[s] = g[s]
    <3> HIDE DEF D, Body
    <3>1. \A s \in D : h[s] = Body(h, s) /\ g[s] = Body(g, s)
      BY <1>3, <2>1, <2>5
    <3>2. ASSUME NEW s \in D, \A r \in D : Height(r) < Height(s) => h[r] = g[r]
          PROVE  h[s] = g[s]
      BY <2>2, <3>1, <3>2
    <3>3. QED
      BY <2>1, <3>2, SameOnLower
  <2>7. QED
    BY <2>1, <2>4, <2>6
<1>5. QED
  BY <1>3, <1>4, TreeParts DEF V

\* AvlRebalance keeps the keys, whatever the key it was called for.
LEMMA AvlRebalanceKeeps ==
  ASSUME NEW k \in Int
  PROVE  \A t \in Trees : Turns(t, AvlRebalance(t, k))
<1> DEFINE S == {t \in Trees : Turns(t, AvlRebalance(t, k))}
<1>1. Nil \in S
  BY NilIsTree, AvlRebalanceDef, KeepsSelf DEF Turns
<1>2. ASSUME NEW t \in Trees, t # Nil, t.left \in S, t.right \in S PROVE t \in S
  <2>1. Turns(t, AvlTurn(t, k))
    BY <1>2, AvlTurnsKeep
  <2>2. Turns(t, HangLeft(t, AvlRebalance(t.left, k))) /\ Turns(t, HangRight(t, AvlRebalance(t.right, k)))
    BY <1>2, HangTurns
  <2>3. QED
    BY <1>2, <2>1, <2>2, AvlRebalanceDef
<1> HIDE DEF S
<1>3. Trees \subseteq S
  BY <1>1, <1>2, ChildInduction
<1>4. QED
  BY <1>3 DEF S

\* A leaf holds one key.
LEMMA LeafFacts ==
  ASSUME NEW k \in Int, NEW c \in Colors
  PROVE  /\ Leaf(k, c) \in Trees /\ Leaf(k, c) # Nil
         /\ KeysOf(Leaf(k, c)) = {k} /\ Ordered(Leaf(k, c))
<1>1. Built(Leaf(k, c), k, Nil, Nil)
  BY NilIsTree, Made DEF Leaf
<1>2. QED
  BY <1>1, OfNil DEF Built

\* Attach adds the key, and keeps the order when the key is new.
LEMMA AttachAdds ==
  ASSUME NEW k \in Int
  PROVE  \A t \in Trees : /\ Attach(t, k) \in Trees /\ Attach(t, k) # Nil
                          /\ KeysOf(Attach(t, k)) = KeysOf(t) \cup {k}
                          /\ Ordered(t) /\ k \notin KeysOf(t) => Ordered(Attach(t, k))
<1> DEFINE P(t) == /\ Attach(t, k) \in Trees /\ Attach(t, k) # Nil
                   /\ KeysOf(Attach(t, k)) = KeysOf(t) \cup {k}
                   /\ Ordered(t) /\ k \notin KeysOf(t) => Ordered(Attach(t, k))
           S == {t \in Trees : P(t)}
<1>1. Nil \in S
  BY NilIsTree, AttachDef, BlackAndRed, LeafFacts, OfNil
<1>2. ASSUME NEW t \in Trees, t # Nil, t.left \in S, t.right \in S PROVE t \in S
  <2>1. /\ t.key \in Int /\ t.color \in Colors /\ t.left \in Trees /\ t.right \in Trees
    BY <1>2, TreeParts
  <2>2. KeysOf(t.left) \subseteq Int /\ KeysOf(t.right) \subseteq Int
    BY <2>1, KeysAreInts
  <2>3. CASE k < t.key
    <3> DEFINE a == Attach(t.left, k)
    <3>1. Attach(t, k) = Node(t.key, t.color, a, t.right)
      BY <1>2, <2>3, AttachDef, HangFacts
    <3>2. Built(Attach(t, k), t.key, a, t.right)
      BY <1>2, <2>1, <3>1, Made
    <3>3. QED
      BY <1>2, <2>2, <2>3, <3>2, OfNode DEF Built
  <2>4. CASE ~ (k < t.key)
    <3> DEFINE a == Attach(t.right, k)
    <3>1. Attach(t, k) = Node(t.key, t.color, t.left, a)
      BY <1>2, <2>4, AttachDef, HangFacts
    <3>2. Built(Attach(t, k), t.key, t.left, a)
      BY <1>2, <2>1, <3>1, Made
    <3>3. k \notin KeysOf(t) => t.key < k
      BY <1>2, <2>1, <2>4, OfNode
    <3>4. QED
      BY <1>2, <2>2, <3>2, <3>3, OfNode DEF Built
  <2>5. QED
    BY <2>3, <2>4
<1> HIDE DEF S
<1>3. Trees \subseteq S
  BY <1>1, <1>2, ChildInduction
<1>4. QED
  BY <1>3 DEF S

\* AVLtree_attach adds one key and keeps the order, or dereferences a NULL.
LEMMA AvlAttachAdds ==
  ASSUME NEW t \in Trees, NEW k \in Int
  PROVE  \/ AvlAttach(t, k) = Fault
         \/ /\ AvlAttach(t, k) \in Trees
            /\ KeysOf(AvlAttach(t, k)) = KeysOf(t) \cup {k}
            /\ Ordered(t) /\ k \notin KeysOf(t) => Ordered(AvlAttach(t, k))
<1>1. CASE t = Nil
  BY <1>1, BlackAndRed, LeafFacts, OfNil DEF AvlAttach
<1>2. CASE t # Nil
  <2>1. Attach(t, k) \in Trees /\ Turns(Attach(t, k), AvlAttach(t, k))
    BY <1>2, AttachDef, AvlRebalanceKeeps DEF AvlAttach
  <2>2. QED
    BY <2>1, AttachAdds DEF Turns, Keeps
<1>3. QED
  BY <1>1, <1>2

-----------------------------------------------------------------------------
(* AVL tree: what a removal does to the keys.                              *)

\* u is what is left of t without k, in order.
Removed(t, k, u) ==
  u \in Trees /\ Ordered(u) /\ KeysOf(u) = KeysOf(t) \ {k}

\* Largest returns the node with the largest key, which has no right child.
LEMMA LargestIsLast ==
  \A t \in Trees : t # Nil =>
    /\ Largest(t) \in Trees /\ Largest(t) # Nil /\ Largest(t).right = Nil
    /\ Largest(t) \in Nodes(t) /\ Largest(t).key \in Int /\ Largest(t).key \in KeysOf(t)
    /\ Ordered(t) => \A x \in KeysOf(t) : x <= Largest(t).key
<1> DEFINE P(t) == /\ Largest(t) \in Trees /\ Largest(t) # Nil /\ Largest(t).right = Nil
                   /\ Largest(t) \in Nodes(t)
                   /\ Ordered(t) => \A x \in KeysOf(t) : x <= Largest(t).key
           S == {t \in Trees : t # Nil => P(t)}
<1>1. Nil \in S
  BY NilIsTree
<1>2. ASSUME NEW t \in Trees, t # Nil, t.left \in S, t.right \in S PROVE t \in S
  <2>1. /\ t.key \in Int /\ t.right \in Trees /\ t.left \in Trees
    BY <1>2, TreeParts
  <2>2. CASE t.right = Nil
    <3>1. Largest(t) = t
      BY <1>2, <2>2, LargestDef
    <3>2. KeysOf(t) = {t.key} \cup KeysOf(t.left) /\ KeysOf(t.left) \subseteq Int
      BY <1>2, <2>1, <2>2, OfNode, OfNil, KeysAreInts
    <3>3. QED
      BY <1>2, <2>1, <2>2, <3>1, <3>2, OfNode
  <2>3. CASE t.right # Nil
    <3>1. Largest(t) = Largest(t.right) /\ P(t.right)
      BY <1>2, <2>3, LargestDef
    <3>2. Largest(t) \in Nodes(t)
      BY <1>2, <3>1, OfNode
    <3>3. Largest(t).key \in Int
      BY <3>1, TreeParts
    <3>4. Ordered(t) => \A x \in KeysOf(t) : x <= Largest(t).key
      <4>1. KeysOf(t.left) \subseteq Int /\ KeysOf(t.right) \subseteq Int
        BY <2>1, KeysAreInts
      <4>2. t.right.key \in KeysOf(t.right)
        BY <2>1, <2>3, OfNode
      <4>3. ASSUME Ordered(t) PROVE \A x \in KeysOf(t) : x <= Largest(t).key
        <5>1. \A x \in KeysOf(t.right) : x <= Largest(t).key
          BY <1>2, <3>1, <4>3, OfNode
        <5>2. t.key < t.right.key /\ t.right.key <= Largest(t).key /\ t.right.key \in Int
          BY <1>2, <4>1, <4>2, <4>3, <5>1, OfNode
        <5>3. \A x \in KeysOf(t.left) : x < t.key
          BY <1>2, <4>3, OfNode
        <5>4. KeysOf(t) = {t.key} \cup KeysOf(t.left) \cup KeysOf(t.right)
          BY <1>2, OfNode
        <5> HIDE DEF P
        <5>5. QED
          BY <2>1, <3>3, <4>1, <5>1, <5>2, <5>3, <5>4
      <4>4. QED
        BY <4>3
    <3>5. QED
      BY <3>1, <3>2, <3>4
  <2>4. QED
    BY <2>2, <2>3
<1> HIDE DEF S
<1>3. Trees \subseteq S
  BY <1>1, <1>2, ChildInduction
<1>4. \A t \in Trees : t # Nil => P(t)
  BY <1>3 DEF S
<1> HIDE DEF P
<1>5. \A t \in Trees : P(t) => Largest(t).key \in Int /\ Largest(t).key \in KeysOf(t)
  BY TreeParts DEF P, KeysOf
<1>6. QED
  BY <1>4, <1>5 DEF P

\* The only child of a node is a tree lower than the node.
LEMMA OnlyChildIsTree ==
  ASSUME NEW t \in Trees, t # Nil
  PROVE  OnlyChild(t) \in Trees /\ Height(OnlyChild(t)) < Height(t)
BY TreeParts DEF OnlyChild

\* The node that takes the key of its predecessor keeps its colour and its children.
LEMMA TakesLargestIsTree ==
  ASSUME NEW t \in Trees, t # Nil, ~HalfEmpty(t)
  PROVE  /\ TakesLargest(t) \in Trees /\ TakesLargest(t) # Nil
         /\ TakesLargest(t).key = Largest(t.left).key /\ TakesLargest(t).color = t.color
         /\ TakesLargest(t).left = t.left /\ TakesLargest(t).right = t.right
         /\ Largest(t.left).key \in Int
<1>1. t.left \in Trees /\ t.left # Nil /\ t.right \in Trees /\ t.color \in Colors
  BY TreeParts DEF HalfEmpty
<1>2. Largest(t.left).key \in Int
  BY <1>1, LargestIsLast
<1>3. TakesLargest(t) \in Trees
  BY <1>1, <1>2, NodeIsTree DEF TakesLargest
<1>4. QED
  BY <1>2, <1>3, NodeIsRecord DEF TakesLargest, Marks

\* The removals from one tree, by key.
Removals == [Int -> MaybeTrees]

\* AvlDown returns a tree or a fault.
LEMMA AvlDownType ==
  ASSUME NEW s \in Trees, NEW j \in Int, NEW f,
         s # Nil => f[s.left] \in Removals /\ f[s.right] \in Removals
  PROVE  AvlDown(f, s, j) \in MaybeTrees
<1>1. CASE s = Nil
  BY <1>1, NilIsTree DEF AvlDown, MaybeTrees
<1>2. CASE s # Nil
  <2> DEFINE u == IF j <= s.key THEN HangLeft(s, f[s.left][j]) ELSE HangRight(s, f[s.right][j])
  <2>1. f[s.left][j] \in MaybeTrees /\ f[s.right][j] \in MaybeTrees
    BY <1>2 DEF Removals
  <2>2. u = Fault \/ (u \in Trees /\ u # Nil)
    BY <1>2, <2>1, HangFacts DEF MaybeTrees
  <2>3. AvlDown(f, s, j) = AvlRebalanceEx(u)
    BY <1>2 DEF AvlDown
  <2> HIDE DEF u
  <2>4. CASE u = Fault
    BY <2>3, <2>4 DEF AvlRebalanceEx, MaybeTrees
  <2>5. CASE u \in Trees /\ u # Nil
    BY <2>3, <2>5, AvlTurnsKeep, TurnsIsMaybe
  <2>6. QED
    BY <2>2, <2>4, <2>5
<1>3. QED
  BY <1>1, <1>2

\* A tree lower than one of UpTo(u) is in UpTo(u).
LEMMA LowerStill ==
  ASSUME NEW u \in Trees, NEW s \in UpTo(u), NEW r \in Trees, Height(r) < Height(s)
  PROVE  r \in UpTo(u)
<1>1. s \in Trees /\ Height(s) <= Height(u)
  BY LowerTrees
<1>2. Height(r) \in Nat /\ Height(s) \in Nat /\ Height(u) \in Nat
  BY <1>1, HeightIsLeast
<1>3. QED
  BY <1>1, <1>2, LowerTrees

\* The removal from s looks at trees lower than s only.
LEMMA AvlDownSame ==
  ASSUME NEW s \in Trees, s # Nil, NEW f, NEW g,
         \A r \in Trees : Height(r) < Height(s) => f[r] = g[r]
  PROVE  \A j \in Int :
           /\ AvlDown(f, s, j) = AvlDown(g, s, j)
           /\ AvlDown(f, OnlyChild(s), j) = AvlDown(g, OnlyChild(s), j)
           /\ ~HalfEmpty(s) => AvlDown(f, TakesLargest(s), Largest(s.left).key)
                                 = AvlDown(g, TakesLargest(s), Largest(s.left).key)
<1>1. f[s.left] = g[s.left] /\ f[s.right] = g[s.right]
  BY TreeParts
<1>2. OnlyChild(s) # Nil => f[OnlyChild(s).left] = g[OnlyChild(s).left]
                            /\ f[OnlyChild(s).right] = g[OnlyChild(s).right]
  <2>1. SUFFICES ASSUME OnlyChild(s) # Nil
                 PROVE  f[OnlyChild(s).left] = g[OnlyChild(s).left]
                        /\ f[OnlyChild(s).right] = g[OnlyChild(s).right]
    OBVIOUS
  <2> DEFINE c == OnlyChild(s)
  <2>2. c \in Trees /\ Height(c) < Height(s)
    BY OnlyChildIsTree
  <2> HIDE DEF c
  <2>3. c.left \in Trees /\ c.right \in Trees /\ Height(c.left) < Height(c) /\ Height(c.right) < Height(c)
    BY <2>1, <2>2, TreeParts DEF c
  <2>4. Height(c.left) < Height(s) /\ Height(c.right) < Height(s)
    BY <2>2, <2>3, HeightIsLeast
  <2>5. QED
    BY <2>3, <2>4 DEF c
<1>3. ~HalfEmpty(s) => TakesLargest(s).left = s.left /\ TakesLargest(s).right = s.right
  BY TakesLargestIsTree
<1>4. QED
  BY <1>1, <1>2, <1>3 DEF AvlDown

\* A removal.
LEMMA AvlRemoveDef ==
  \E f \in [Trees -> Removals] : \A s \in Trees : \A j \in Int :
    /\ AvlRemove(s, j) = f[s][j]
    /\ f[s][j] = IF s = Nil THEN Nil
                 ELSE IF s.key # j THEN AvlDown(f, s, j)
                 ELSE IF HalfEmpty(s) THEN AvlDown(f, OnlyChild(s), j)
                 ELSE AvlDown(f, TakesLargest(s), Largest(s.left).key)
<1> DEFINE V == Removals
           Body(f, s) == [j \in Int |->
                         IF s = Nil THEN Nil
                         ELSE IF s.key # j THEN AvlDown(f, s, j)
                         ELSE IF HalfEmpty(s) THEN AvlDown(f, OnlyChild(s), j)
                         ELSE AvlDown(f, TakesLargest(s), Largest(s.left).key)]
           G == [s \in Trees |-> [f \in [Trees -> V] |-> Body(f, s)]]
<1>1. \A s \in Trees : \A f \in [Trees -> V] : Body(f, s) \in V
  <2>1. ASSUME NEW s \in Trees, NEW f \in [Trees -> V], s # Nil, NEW j \in Int
        PROVE  /\ AvlDown(f, s, j) \in MaybeTrees
               /\ AvlDown(f, OnlyChild(s), j) \in MaybeTrees
               /\ ~HalfEmpty(s) => AvlDown(f, TakesLargest(s), Largest(s.left).key) \in MaybeTrees
    <3>1. \A r \in Trees : r # Nil => f[r.left] \in Removals /\ f[r.right] \in Removals
      BY TreeParts
    <3> HIDE DEF V
    <3>2. AvlDown(f, s, j) \in MaybeTrees
      BY <2>1, <3>1, AvlDownType
    <3>3. AvlDown(f, OnlyChild(s), j) \in MaybeTrees
      BY <2>1, <3>1, OnlyChildIsTree, AvlDownType
    <3>4. ~HalfEmpty(s) => AvlDown(f, TakesLargest(s), Largest(s.left).key) \in MaybeTrees
      BY <2>1, <3>1, TakesLargestIsTree, AvlDownType
    <3>5. QED
      BY <3>2, <3>3, <3>4
  <2>2. Nil \in MaybeTrees
    BY NilIsTree DEF MaybeTrees
  <2>3. ASSUME NEW s \in Trees, NEW f \in [Trees -> V] PROVE Body(f, s) \in V
    BY <2>1, <2>2 DEF Removals
  <2>4. QED
    BY <2>3
<1>2. \A s \in Trees : \A f, g \in [Trees -> V] :
        (\A r \in Trees : Height(r) < Height(s) => f[r] = g[r]) => Body(f, s) = Body(g, s)
  <2>1. ASSUME NEW s \in Trees, NEW f \in [Trees -> V], NEW g \in [Trees -> V],
               \A r \in Trees : Height(r) < Height(s) => f[r] = g[r]
        PROVE  Body(f, s) = Body(g, s)
    <3> HIDE DEF V
    <3>1. CASE s = Nil
      BY <3>1
    <3>2. CASE s # Nil
      BY <2>1, <3>2, AvlDownSame
    <3>3. QED
      BY <3>1, <3>2
  <2>2. QED
    BY <2>1
<1>3. PICK g \in [Trees -> V] : \A s \in Trees : g[s] = Body(g, s)
  <2> HIDE DEF Body
  <2>1. V # {}
    <3>1. [j \in Int |-> Nil] \in V
      BY NilIsTree DEF Removals, MaybeTrees
    <3>2. QED
      BY <3>1
  <2> HIDE DEF V
  <2>2. G \in [Trees -> [[Trees -> V] -> V]]
    BY <1>1
  <2>3. \A s \in Trees : \A f \in [Trees -> V] : G[s][f] = Body(f, s)
    OBVIOUS
  <2> HIDE DEF G
  <2>4. \A s \in Trees : \A f, g \in [Trees -> V] :
          (\A r \in Trees : Height(r) < Height(s) => f[r] = g[r]) => G[s][f] = G[s][g]
    BY <1>2, <2>3
  <2>5. \E g \in [Trees -> V] : \A s \in Trees : g[s] = G[s][g]
    <3>1. LooksLower(V, G)
      BY <2>1, <2>2, <2>4 DEF LooksLower
    <3>2. QED
      BY <3>1, TreeRecursion
  <2>6. QED
    BY <2>3, <2>5
<1> HIDE DEF V
<1>4. ASSUME NEW u \in Trees, NEW k \in Int PROVE AvlRemove(u, k) = g[u][k]
  <2> DEFINE D == UpTo(u)
             Is(f) == f = [s \in D |-> Body(f, s)]
             h == CHOOSE f : Is(f)
  <2>1. D \in SUBSET Trees /\ u \in D
    BY LowerTrees, HeightIsLeast
  <2>2. ASSUME NEW s \in D, NEW f, NEW e,
               \A r \in D : Height(r) < Height(s) => f[r] = e[r]
        PROVE  Body(f, s) = Body(e, s)
    <3>1. CASE s = Nil
      BY <3>1
    <3>2. CASE s # Nil
      <4>1. \A r \in Trees : Height(r) < Height(s) => f[r] = e[r]
        <5>1. \A r \in Trees : Height(r) < Height(s) => r \in D
          BY <2>1, LowerStill
        <5>2. QED
          BY <2>2, <5>1
      <4>2. s \in Trees
        BY <2>1
      <4>3. \A j \in Int :
              /\ AvlDown(f, s, j) = AvlDown(e, s, j)
              /\ AvlDown(f, OnlyChild(s), j) = AvlDown(e, OnlyChild(s), j)
              /\ ~HalfEmpty(s) => AvlDown(f, TakesLargest(s), Largest(s.left).key)
                                    = AvlDown(e, TakesLargest(s), Largest(s.left).key)
        BY <3>2, <4>1, <4>2, AvlDownSame
      <4>4. QED
        BY <3>2, <4>3
    <3>3. QED
      BY <3>1, <3>2
  <2>3. Is([s \in D |-> g[s]])
    <3> HIDE DEF D, Body
    <3>1. \A s \in D : g[s] = Body([r \in D |-> g[r]], s)
      BY <1>3, <2>1, <2>2
    <3>2. QED
      BY <3>1
  <2>4. AvlRemove(u, k) = h[u][k]
    BY DEF AvlRemove
  <2>5. Is(h)
    <3> HIDE DEF Is
    <3>1. QED
      BY <2>3
  <2> HIDE DEF h
  <2>6. \A s \in D : h[s] = g[s]
    <3> HIDE DEF D, Body
    <3>1. \A s \in D : h[s] = Body(h, s) /\ g[s] = Body(g, s)
      BY <1>3, <2>1, <2>5
    <3>2. ASSUME NEW s \in D, \A r \in D : Height(r) < Height(s) => h[r] = g[r]
          PROVE  h[s] = g[s]
      BY <2>2, <3>1, <3>2
    <3>3. QED
      BY <2>1, <3>2, SameOnLower
  <2>7. QED
    BY <2>1, <2>4, <2>6
<1>5. QED
  BY <1>3, <1>4 DEF V

\* A search that goes on below a node leaves the other keys in order.
LEMMA AvlDownRemoves ==
  ASSUME NEW t \in Trees, t # Nil, NEW j \in Int, NEW f,
         \A c \in {t.left, t.right} : f[c][j] = Fault \/ Removed(c, j, f[c][j]),
         Ordered(t.left), Ordered(t.right),
         \A x \in KeysOf(t.left) : x < t.key \/ (x = j /\ j = t.key),
         \A x \in KeysOf(t.right) : t.key < x
  PROVE  \/ AvlDown(f, t, j) = Fault
         \/ /\ AvlDown(f, t, j) \in Trees /\ Ordered(AvlDown(f, t, j))
            /\ KeysOf(AvlDown(f, t, j)) =
                 {t.key} \cup ((KeysOf(t.left) \cup KeysOf(t.right)) \ {j})
<1> DEFINE l == f[t.left][j]  r == f[t.right][j]
           u == IF j <= t.key THEN HangLeft(t, l) ELSE HangRight(t, r)
           Good(v) == /\ v \in Trees /\ Ordered(v)
                      /\ KeysOf(v) = {t.key} \cup ((KeysOf(t.left) \cup KeysOf(t.right)) \ {j})
<1>1. /\ t.key \in Int /\ t.color \in Colors /\ t.left \in Trees /\ t.right \in Trees
      /\ KeysOf(t.left) \subseteq Int /\ KeysOf(t.right) \subseteq Int
  BY TreeParts, KeysAreInts
<1>2. AvlDown(f, t, j) = AvlRebalanceEx(u)
  BY DEF AvlDown
<1>3. u = Fault \/ (Good(u) /\ u # Nil)
  <2>1. CASE j <= t.key /\ l = Fault
    BY <2>1, HangFacts
  <2>2. CASE j <= t.key /\ Removed(t.left, j, l)
    <3>1. u = Node(t.key, t.color, l, t.right)
      BY <2>2, HangFacts DEF Removed
    <3>2. Built(u, t.key, l, t.right) /\ KeysOf(l) = KeysOf(t.left) \ {j} /\ Ordered(l)
      BY <1>1, <2>2, <3>1, Made DEF Removed
    <3>3. \A x \in KeysOf(l) : x < t.key
      BY <3>2
    <3>4. j \notin KeysOf(t.right)
      BY <1>1, <2>2
    <3> HIDE DEF u, l
    <3>5. QED
      BY <3>2, <3>3, <3>4 DEF Built
  <2>3. CASE ~(j <= t.key) /\ r = Fault
    BY <2>3, HangFacts
  <2>4. CASE ~(j <= t.key) /\ Removed(t.right, j, r)
    <3>1. u = Node(t.key, t.color, t.left, r)
      BY <2>4, HangFacts DEF Removed
    <3>2. Built(u, t.key, t.left, r) /\ KeysOf(r) = KeysOf(t.right) \ {j} /\ Ordered(r)
      BY <1>1, <2>4, <3>1, Made DEF Removed
    <3>3. j \notin KeysOf(t.left) /\ \A x \in KeysOf(t.left) : x < t.key
      BY <1>1, <2>4
    <3> HIDE DEF u, r
    <3>4. QED
      BY <3>2, <3>3 DEF Built
  <2>5. QED
    BY <2>1, <2>2, <2>3, <2>4
<1> HIDE DEF u
<1>4. CASE u = Fault
  BY <1>2, <1>4 DEF AvlRebalanceEx
<1>5. CASE Good(u) /\ u # Nil
  <2>1. Turns(u, AvlRebalanceEx(u))
    BY <1>5, AvlTurnsKeep
  <2>2. QED
    BY <1>2, <1>5, <2>1 DEF Turns, Keeps
<1>6. QED
  BY <1>3, <1>4, <1>5

\* AVLtree_remove takes one key and keeps the order, or dereferences a NULL.
THEOREM AvlRemoves ==
  \A t \in Trees : Ordered(t) =>
    \A j \in Int : AvlRemove(t, j) = Fault \/ Removed(t, j, AvlRemove(t, j))
<1>1. PICK f \in [Trees -> Removals] : \A s \in Trees : \A j \in Int :
        /\ AvlRemove(s, j) = f[s][j]
        /\ f[s][j] = IF s = Nil THEN Nil
                     ELSE IF s.key # j THEN AvlDown(f, s, j)
                     ELSE IF HalfEmpty(s) THEN AvlDown(f, OnlyChild(s), j)
                     ELSE AvlDown(f, TakesLargest(s), Largest(s.left).key)
  BY AvlRemoveDef
<1> DEFINE Done(s, j) == f[s][j] = Fault \/ Removed(s, j, f[s][j])
           S == {s \in Trees : Ordered(s) => \A j \in Int : Done(s, j)}
<1>2. ASSUME NEW t \in Trees, \A s \in Trees : Height(s) < Height(t) => s \in S
      PROVE  t \in S
  <2>1. SUFFICES ASSUME Ordered(t), NEW j \in Int PROVE Done(t, j)
    OBVIOUS
  <2>2. CASE t = Nil
    BY <1>1, <2>2, NilIsTree, OfNil DEF Removed
  <2>3. CASE t # Nil
    <3>1. /\ t.key \in Int /\ t.left \in Trees /\ t.right \in Trees
          /\ KeysOf(t.left) \subseteq Int /\ KeysOf(t.right) \subseteq Int
          /\ KeysOf(t) = {t.key} \cup KeysOf(t.left) \cup KeysOf(t.right)
          /\ Ordered(t.left) /\ Ordered(t.right)
          /\ \A x \in KeysOf(t.left) : x < t.key
          /\ \A x \in KeysOf(t.right) : t.key < x
      BY <2>1, <2>3, TreeParts, KeysAreInts, OfNode
    <3>2. ASSUME NEW i \in Int, NEW c \in {t.left, t.right} PROVE Done(c, i)
      BY <1>2, <2>3, <3>1, TreeParts
    <3> HIDE DEF S
    <3>3. CASE t.key # j
      <4>1. f[t][j] = AvlDown(f, t, j)
        BY <1>1, <2>3, <3>3
      <4>2. \A c \in {t.left, t.right} : f[c][j] = Fault \/ Removed(c, j, f[c][j])
        BY <3>2
      <4>3. \/ AvlDown(f, t, j) = Fault
            \/ /\ AvlDown(f, t, j) \in Trees /\ Ordered(AvlDown(f, t, j))
               /\ KeysOf(AvlDown(f, t, j)) =
                    {t.key} \cup ((KeysOf(t.left) \cup KeysOf(t.right)) \ {j})
        BY <2>3, <3>1, <4>2, AvlDownRemoves
      <4>4. QED
        BY <3>1, <3>3, <4>1, <4>3 DEF Removed
    <3>4. CASE t.key = j /\ HalfEmpty(t)
      <4> DEFINE c == OnlyChild(t)
      <4>1. f[t][j] = AvlDown(f, c, j)
        BY <1>1, <2>3, <3>4
      <4>2. c \in Trees /\ Ordered(c) /\ KeysOf(c) = KeysOf(t) \ {j} /\ c \in {t.left, t.right}
        <5>1. t.left = Nil => KeysOf(t.left) = {}
          BY OfNil
        <5>2. t.right = Nil => KeysOf(t.right) = {}
          BY OfNil
        <5>3. QED
          BY <3>1, <3>4, <5>1, <5>2 DEF OnlyChild, HalfEmpty
      <4>3. c.left \in Trees /\ c.right \in Trees => Height(c) < Height(t)
        BY <2>3, <3>1, <4>2, TreeParts
      <4> HIDE DEF c
      <4>4. CASE c = Nil
        BY <4>1, <4>2, <4>4, NilIsTree DEF AvlDown, Removed
      <4>5. CASE c # Nil
        <5>1. /\ c.key \in Int /\ c.left \in Trees /\ c.right \in Trees
              /\ Height(c.left) < Height(c) /\ Height(c.right) < Height(c)
              /\ KeysOf(c) = {c.key} \cup KeysOf(c.left) \cup KeysOf(c.right)
              /\ Ordered(c.left) /\ Ordered(c.right)
              /\ \A x \in KeysOf(c.left) : x < c.key
              /\ \A x \in KeysOf(c.right) : c.key < x
          BY <4>2, <4>5, TreeParts, OfNode
        <5>2. ASSUME NEW d \in {c.left, c.right} PROVE f[d][j] = Fault \/ Removed(d, j, f[d][j])
          <6>1. d \in Trees /\ Height(d) < Height(t)
            BY <4>2, <4>3, <5>1, HeightIsLeast
          <6>2. QED
            BY <1>2, <5>1, <6>1 DEF S
        <5>3. \/ AvlDown(f, c, j) = Fault
              \/ /\ AvlDown(f, c, j) \in Trees /\ Ordered(AvlDown(f, c, j))
                 /\ KeysOf(AvlDown(f, c, j)) =
                      {c.key} \cup ((KeysOf(c.left) \cup KeysOf(c.right)) \ {j})
          BY <4>2, <4>5, <5>1, <5>2, AvlDownRemoves
        <5>4. QED
          BY <4>1, <4>2, <5>1, <5>3 DEF Removed
      <4>6. QED
        BY <4>4, <4>5
    <3>5. CASE t.key = j /\ ~HalfEmpty(t)
      <4> DEFINE s == TakesLargest(t)  m == Largest(t.left).key
      <4>1. f[t][j] = AvlDown(f, s, m)
        BY <1>1, <2>3, <3>5
      <4>2. /\ s \in Trees /\ s # Nil /\ s.key = m /\ s.left = t.left /\ s.right = t.right /\ m \in Int
        BY <2>3, <3>5, TakesLargestIsTree
      <4>3. m \in KeysOf(t.left) /\ \A x \in KeysOf(t.left) : x <= m
        BY <3>1, <3>5, LargestIsLast DEF HalfEmpty
      <4> HIDE DEF s, m
      <4>4. \A x \in KeysOf(s.left) : x < s.key \/ (x = m /\ m = s.key)
        BY <3>1, <4>2, <4>3
      <4>5. \A x \in KeysOf(s.right) : s.key < x
        <5>1. m < j
          BY <3>1, <3>5, <4>3
        <5>2. \A x \in KeysOf(t.right) : x \in Int /\ j < x
          BY <3>1, <3>5
        <5>3. QED
          BY <4>2, <5>1, <5>2
      <4>6. \A d \in {s.left, s.right} : f[d][m] = Fault \/ Removed(d, m, f[d][m])
        BY <3>2, <4>2
      <4>7. \/ AvlDown(f, s, m) = Fault
            \/ /\ AvlDown(f, s, m) \in Trees /\ Ordered(AvlDown(f, s, m))
               /\ KeysOf(AvlDown(f, s, m)) =
                    {m} \cup ((KeysOf(t.left) \cup KeysOf(t.right)) \ {m})
        <5>1. Ordered(s.left) /\ Ordered(s.right)
          BY <3>1, <4>2
        <5>2. \/ AvlDown(f, s, m) = Fault
              \/ /\ AvlDown(f, s, m) \in Trees /\ Ordered(AvlDown(f, s, m))
                 /\ KeysOf(AvlDown(f, s, m)) =
                      {s.key} \cup ((KeysOf(s.left) \cup KeysOf(s.right)) \ {m})
          BY <4>2, <4>4, <4>5, <4>6, <5>1, AvlDownRemoves
        <5>3. QED
          BY <4>2, <5>2
      <4>8. {m} \cup ((KeysOf(t.left) \cup KeysOf(t.right)) \ {m}) = KeysOf(t) \ {j}
        BY <3>1, <3>5, <4>3
      <4>9. QED
        BY <4>1, <4>7, <4>8 DEF Removed
    <3>6. QED
      BY <3>3, <3>4, <3>5
  <2>4. QED
    BY <2>2, <2>3
<1> HIDE DEF S
<1>3. Trees \subseteq S
  BY <1>2, TreeInduction
<1>4. QED
  BY <1>1, <1>3 DEF S

-----------------------------------------------------------------------------
(* What an ordered tree gives lookup and traverse.                         *)

\* In order, a tree holds each of its keys once.
LEMMA OrderedCopies ==
  \A t \in Trees : Ordered(t) =>
    Copies(t) = [k \in Keys |-> IF k \in KeysOf(t) THEN 1 ELSE 0]
<1> DEFINE S == {t \in Trees : Ordered(t) =>
                   Copies(t) = [k \in Keys |-> IF k \in KeysOf(t) THEN 1 ELSE 0]}
<1>1. Nil \in S
  BY NilIsTree, OfNil DEF Nothing
<1>2. ASSUME NEW t \in Trees, t # Nil, t.left \in S, t.right \in S PROVE t \in S
  <2>1. SUFFICES ASSUME Ordered(t)
                 PROVE  Copies(t) = [k \in Keys |-> IF k \in KeysOf(t) THEN 1 ELSE 0]
    OBVIOUS
  <2>2. /\ t.key \in Int
        /\ KeysOf(t) = {t.key} \cup KeysOf(t.left) \cup KeysOf(t.right)
        /\ Ordered(t.left) /\ Ordered(t.right)
        /\ \A x \in KeysOf(t.left) : x < t.key
        /\ \A x \in KeysOf(t.right) : t.key < x
        /\ KeysOf(t.left) \subseteq Int /\ KeysOf(t.right) \subseteq Int
        /\ Copies(t) = [k \in Keys |-> Copies(t.left)[k] + Copies(t.right)[k]
                                       + (IF k = t.key THEN 1 ELSE 0)]
    BY <1>2, <2>1, TreeParts, OfNode, KeysAreInts
  <2>3. \A k \in Keys : /\ Copies(t.left)[k] = IF k \in KeysOf(t.left) THEN 1 ELSE 0
                        /\ Copies(t.right)[k] = IF k \in KeysOf(t.right) THEN 1 ELSE 0
    BY <1>2, <2>2
  <2>4. ASSUME NEW k \in Keys
        PROVE  Copies(t.left)[k] + Copies(t.right)[k] + (IF k = t.key THEN 1 ELSE 0)
                 = IF k \in KeysOf(t) THEN 1 ELSE 0
    <3>1. /\ ~(k \in KeysOf(t.left) /\ k \in KeysOf(t.right))
          /\ k = t.key => k \notin KeysOf(t.left) /\ k \notin KeysOf(t.right)
      BY <2>2
    <3>2. QED
      BY <2>2, <2>3, <3>1
  <2>5. QED
    BY <2>2, <2>4
<1> HIDE DEF S
<1>3. Trees \subseteq S
  BY <1>1, <1>2, ChildInduction
<1>4. QED
  BY <1>3 DEF S

\* In order, a look up finds exactly the keys of the tree.
LEMMA LookupFinds ==
  ASSUME NEW k \in Int
  PROVE  \A t \in Trees : Ordered(t) => (Lookup(t, k) # Nil <=> k \in KeysOf(t))
<1> DEFINE S == {t \in Trees : Ordered(t) => (Lookup(t, k) # Nil <=> k \in KeysOf(t))}
<1>1. Nil \in S
  BY NilIsTree, OfNil, LookupDef
<1>2. ASSUME NEW t \in Trees, t # Nil, t.left \in S, t.right \in S PROVE t \in S
  <2>1. SUFFICES ASSUME Ordered(t) PROVE Lookup(t, k) # Nil <=> k \in KeysOf(t)
    OBVIOUS
  <2>2. /\ t.key \in Int
        /\ KeysOf(t) = {t.key} \cup KeysOf(t.left) \cup KeysOf(t.right)
        /\ Ordered(t.left) /\ Ordered(t.right)
        /\ \A x \in KeysOf(t.left) : x < t.key
        /\ \A x \in KeysOf(t.right) : t.key < x
    BY <1>2, <2>1, TreeParts, OfNode
  <2>3. Lookup(t, k) = IF t.key = k THEN t
                       ELSE IF k < t.key THEN Lookup(t.left, k) ELSE Lookup(t.right, k)
    BY <1>2, LookupDef
  <2>4. QED
    BY <1>2, <2>2, <2>3
<1> HIDE DEF S
<1>3. Trees \subseteq S
  BY <1>1, <1>2, ChildInduction
<1>4. QED
  BY <1>3 DEF S

\* A sequence around one element.
LEMMA AroundOne ==
  ASSUME NEW p \in Seq(Int), NEW q \in Seq(Int), NEW k \in Int
  PROVE  LET s == p \o <<k>> \o q IN
         /\ DOMAIN s = 1 .. (Len(p) + 1 + Len(q))
         /\ \A i \in 1 .. (Len(p) + 1 + Len(q)) :
              s[i] = IF i <= Len(p) THEN p[i]
                     ELSE IF i = Len(p) + 1 THEN k ELSE q[i - Len(p) - 1]
<1> DEFINE r == p \o <<k>>
<1>1. r \in Seq(Int) /\ Len(r) = Len(p) + 1
  OBVIOUS
<1>2. \A i \in 1 .. (Len(p) + 1) : r[i] = IF i <= Len(p) THEN p[i] ELSE k
  OBVIOUS
<1>3. (p \o <<k>> \o q) = r \o q
  OBVIOUS
<1> HIDE DEF r
<1>4. /\ DOMAIN (r \o q) = 1 .. (Len(r) + Len(q))
      /\ \A i \in 1 .. (Len(r) + Len(q)) :
           (r \o q)[i] = IF i <= Len(r) THEN r[i] ELSE q[i - Len(r)]
  <2>1. r \in Seq(Int)
    BY <1>1
  <2>2. QED
    BY <2>1, ConcatProperties
<1>5. ASSUME NEW i \in 1 .. (Len(p) + 1 + Len(q))
      PROVE  (r \o q)[i] = IF i <= Len(p) THEN p[i]
                     ELSE IF i = Len(p) + 1 THEN k ELSE q[i - Len(p) - 1]
  <2>1. Len(p) \in Nat /\ Len(q) \in Nat /\ i \in 1 .. (Len(r) + Len(q))
    BY <1>1
  <2>2. (r \o q)[i] = IF i <= Len(r) THEN r[i] ELSE q[i - Len(r)]
    BY <1>4, <2>1
  <2>3. i - Len(r) = i - Len(p) - 1
    BY <1>1, <2>1
  <2>4. i <= Len(r) <=> i <= Len(p) \/ i = Len(p) + 1
    BY <1>1, <2>1
  <2>5. i <= Len(r) => r[i] = IF i <= Len(p) THEN p[i] ELSE k
    BY <1>1, <1>2, <2>1
  <2>6. QED
    BY <2>2, <2>3, <2>4, <2>5
<1>6. QED
  BY <1>1, <1>3, <1>4, <1>5

\* In order, what is displayed goes up.
LEMMA OrderedSorted ==
  \A t \in Trees : Ordered(t) => Sorted(t)
<1> DEFINE Shows(t) == \A i \in DOMAIN InOrder(t) : InOrder(t)[i] \in KeysOf(t)
           S == {t \in Trees : Shows(t) /\ (Ordered(t) => Sorted(t))}
<1>1. Nil \in S
  <2>1. InOrder(Nil) = <<>>
    BY NilIsTree, InOrderDef
  <2>2. QED
    BY <2>1, NilIsTree DEF Sorted
<1>2. ASSUME NEW t \in Trees, t # Nil, t.left \in S, t.right \in S PROVE t \in S
  <2> DEFINE p == InOrder(t.left)  q == InOrder(t.right)  s == InOrder(t)  m == Len(p)
  <2>1. /\ t.key \in Int /\ t.left \in Trees /\ t.right \in Trees
        /\ KeysOf(t) = {t.key} \cup KeysOf(t.left) \cup KeysOf(t.right)
        /\ KeysOf(t.left) \subseteq Int /\ KeysOf(t.right) \subseteq Int
    BY <1>2, TreeParts, OfNode, KeysAreInts
  <2>2. p \in Seq(Int) /\ q \in Seq(Int) /\ s = p \o <<t.key>> \o q
    BY <1>2, <2>1, InOrderDef
  <2>3. /\ DOMAIN s = 1 .. (m + 1 + Len(q))
        /\ \A i \in 1 .. (m + 1 + Len(q)) :
             s[i] = IF i <= m THEN p[i] ELSE IF i = m + 1 THEN t.key ELSE q[i - m - 1]
    BY <2>1, <2>2, AroundOne
  <2>4. /\ m \in Nat /\ Len(q) \in Nat /\ DOMAIN p = 1 .. m /\ DOMAIN q = 1 .. Len(q)
    BY <2>2
  <2>5. /\ \A i \in 1 .. m : p[i] \in KeysOf(t.left)
        /\ \A i \in 1 .. Len(q) : q[i] \in KeysOf(t.right)
    BY <1>2, <2>4
  <2>6. Ordered(t) => /\ \A i, j \in 1 .. m : i < j => p[i] <= p[j]
                      /\ \A i, j \in 1 .. Len(q) : i < j => q[i] <= q[j]
                      /\ \A x \in KeysOf(t.left) : x < t.key
                      /\ \A x \in KeysOf(t.right) : t.key < x
    BY <1>2, <2>4, OfNode DEF Sorted
  <2> HIDE DEF p, q, s, m
  <2>7. \A i \in DOMAIN s : /\ i <= m => s[i] \in KeysOf(t.left) /\ i \in 1 .. m /\ s[i] = p[i]
                            /\ i = m + 1 => s[i] = t.key
                            /\ i > m + 1 => /\ s[i] \in KeysOf(t.right)
                                            /\ i - m - 1 \in 1 .. Len(q) /\ s[i] = q[i - m - 1]
    <3>1. SUFFICES ASSUME NEW i \in DOMAIN s
                   PROVE  /\ i <= m => s[i] \in KeysOf(t.left) /\ i \in 1 .. m /\ s[i] = p[i]
                          /\ i = m + 1 => s[i] = t.key
                          /\ i > m + 1 => /\ s[i] \in KeysOf(t.right)
                                          /\ i - m - 1 \in 1 .. Len(q) /\ s[i] = q[i - m - 1]
      OBVIOUS
    <3>2. CASE i <= m
      BY <2>3, <2>4, <2>5, <3>2
    <3>3. CASE i = m + 1
      BY <2>3, <2>4, <3>3
    <3>4. CASE i > m + 1
      <4>1. i - m - 1 \in 1 .. Len(q) /\ i \in 1 .. (m + 1 + Len(q))
        BY <2>3, <2>4, <3>4
      <4>2. QED
        BY <2>3, <2>4, <2>5, <3>4, <4>1
    <3>5. QED
      BY <2>3, <2>4, <3>2, <3>3, <3>4
  <2>8. \A i \in DOMAIN s : i \in Nat /\ (i <= m \/ i = m + 1 \/ i > m + 1)
    BY <2>3, <2>4
  <2>9. Shows(t)
    BY <2>1, <2>7, <2>8 DEF s
  <2>10. ASSUME Ordered(t), NEW i \in DOMAIN s, NEW j \in DOMAIN s, i < j PROVE s[i] <= s[j]
    <3>1. \A x \in KeysOf(t.left) : x \in Int /\ x < t.key
      BY <2>1, <2>6, <2>10
    <3>2. \A x \in KeysOf(t.right) : x \in Int /\ t.key < x
      BY <2>1, <2>6, <2>10
    <3>3. CASE j <= m
      <4>1. i <= m
        BY <2>4, <2>8, <2>10, <3>3
      <4>2. QED
        BY <2>6, <2>7, <2>10, <3>3, <4>1
    <3>4. CASE j = m + 1
      BY <2>1, <2>4, <2>7, <2>8, <2>10, <3>1, <3>4
    <3>5. CASE j > m + 1
      <4>1. CASE i <= m + 1
        BY <2>1, <2>4, <2>7, <2>8, <2>10, <3>1, <3>2, <3>5, <4>1
      <4>2. CASE i > m + 1
        <5>1. i - m - 1 < j - m - 1
          BY <2>4, <2>8, <2>10
        <5>2. QED
          BY <2>6, <2>7, <2>10, <3>5, <4>2, <5>1
      <4>3. QED
        BY <2>4, <2>8, <4>1, <4>2
    <3>6. QED
      BY <2>8, <3>3, <3>4, <3>5
  <2>11. QED
    BY <2>9, <2>10 DEF Sorted, s
<1> HIDE DEF S
<1>3. Trees \subseteq S
  BY <1>1, <1>2, ChildInduction
<1>4. QED
  BY <1>3 DEF S

-----------------------------------------------------------------------------
(* Red-black tree: colours and turns.                                      *)

\* A node and its parts.
LEMMA NodeParts ==
  ASSUME NEW k \in Int, NEW c \in Colors, NEW l \in Trees, NEW r \in Trees, NEW t,
         t = Node(k, c, l, r)
  PROVE  /\ t \in Trees /\ t # Nil /\ t \notin Marks
         /\ t.key = k /\ t.color = c /\ t.left = l /\ t.right = r
<1>1. t.key = k /\ t.color = c /\ t.left = l /\ t.right = r /\ t \notin Marks
  BY NodeIsRecord
<1>2. t \in Trees
  BY NodeIsTree
<1>3. QED
  BY <1>1, <1>2 DEF Marks

\* The colour of a node, its black height, and whether it has a red pair.
LEMMA Colored ==
  ASSUME NEW k \in Int, NEW c \in Colors, NEW l \in Trees, NEW r \in Trees
  PROVE  /\ IsRed(Node(k, c, l, r)) <=> c = "red"
         /\ BlackHeight(Node(k, c, l, r)) =
              IF BlackHeight(l) = BlackHeight(r) /\ BlackHeight(l) > 0
              THEN BlackHeight(l) + (IF c = "red" THEN 0 ELSE 1) ELSE 0
         /\ NoRedPair(Node(k, c, l, r)) <=>
              /\ NoRedPair(l) /\ NoRedPair(r)
              /\ c = "red" => ~IsRed(l) /\ ~IsRed(r)
<1> DEFINE t == Node(k, c, l, r)
<1>1. /\ t.key = k /\ t.color = c /\ t.left = l /\ t.right = r /\ t \notin Marks
      /\ t \in Trees /\ t # Nil
  BY NodeParts
<1> HIDE DEF t
<1>2. IsRed(t) <=> c = "red"
  BY <1>1 DEF IsRed
<1>3. BlackHeight(t) = IF BlackHeight(l) = BlackHeight(r) /\ BlackHeight(l) > 0
              THEN BlackHeight(l) + (IF c = "red" THEN 0 ELSE 1) ELSE 0
  BY <1>1, <1>2, BlackHeightDef
<1>4. Nodes(t) = {t} \cup Nodes(l) \cup Nodes(r)
  BY <1>1, NodesDef
<1>5. NoRedPair(t) <=> /\ NoRedPair(l) /\ NoRedPair(r)
                       /\ c = "red" => ~IsRed(l) /\ ~IsRed(r)
  BY <1>1, <1>2, <1>4 DEF NoRedPair
<1>6. QED
  BY <1>2, <1>3, <1>5 DEF t

\* The empty tree is black, has black height 1 and no red pair.
LEMMA NilColors ==
  ~IsRed(Nil) /\ BlackHeight(Nil) = 1 /\ NoRedPair(Nil)
BY NilIsTree, OfNil, BlackHeightDef DEF IsRed, Marks, NoRedPair

\* The same for a node that is given.
LEMMA ColorsOf ==
  ASSUME NEW t \in Trees, t # Nil
  PROVE  /\ IsRed(t) <=> t.color = "red"
         /\ BlackHeight(t) =
              IF BlackHeight(t.left) = BlackHeight(t.right) /\ BlackHeight(t.left) > 0
              THEN BlackHeight(t.left) + (IF t.color = "red" THEN 0 ELSE 1) ELSE 0
         /\ NoRedPair(t) <=>
              /\ NoRedPair(t.left) /\ NoRedPair(t.right)
              /\ t.color = "red" => ~IsRed(t.left) /\ ~IsRed(t.right)
<1>1. /\ t.key \in Int /\ t.color \in Colors /\ t.left \in Trees /\ t.right \in Trees
      /\ t = Node(t.key, t.color, t.left, t.right)
  BY TreeParts
<1> DEFINE k == t.key  c == t.color  l == t.left  r == t.right
<1> HIDE DEF k, c, l, r
<1>2. /\ k \in Int /\ c \in Colors /\ l \in Trees /\ r \in Trees /\ t = Node(k, c, l, r)
  BY <1>1 DEF k, c, l, r
<1>3. /\ IsRed(t) <=> c = "red"
      /\ BlackHeight(t) = IF BlackHeight(l) = BlackHeight(r) /\ BlackHeight(l) > 0
                          THEN BlackHeight(l) + (IF c = "red" THEN 0 ELSE 1) ELSE 0
      /\ NoRedPair(t) <=> /\ NoRedPair(l) /\ NoRedPair(r)
                          /\ c = "red" => ~IsRed(l) /\ ~IsRed(r)
  BY <1>2, Colored
<1>4. QED
  BY <1>3 DEF k, c, l, r

\* A new colour changes nothing but the colour.
LEMMA Painted ==
  ASSUME NEW t \in Trees, NEW c \in Colors
  PROVE  /\ Keeps(t, Paint(t, c))
         /\ t # Nil => Paint(t, c) = Node(t.key, c, t.left, t.right)
<1>1. CASE t = Nil
  BY <1>1, KeepsSelf DEF Paint, Marks
<1>2. CASE t # Nil
  <2>1. /\ t.key \in Int /\ t.color \in Colors /\ t.left \in Trees /\ t.right \in Trees
        /\ t = Node(t.key, t.color, t.left, t.right) /\ t \notin Marks
    BY <1>2, TreeParts
  <2>2. Paint(t, c) = Node(t.key, c, t.left, t.right)
    BY <2>1 DEF Paint
  <2>3. Keeps(Node(t.key, t.color, t.left, t.right), Node(t.key, c, t.left, t.right))
    BY <2>1, KeepsSelf, KeepsNode
  <2>4. QED
    BY <2>1, <2>2, <2>3
<1>3. QED
  BY <1>1, <1>2

\* The colouring turn to the right, as a node (rb_rotate_ll).
LEMMA RbShapeLL ==
  ASSUME NEW t \in Trees, t # Nil, t.left # Nil
  PROVE  RbRotLL(t) = Node(t.left.key, "black", t.left.left,
                           Node(t.key, "red", t.left.right, t.right))
<1> DEFINE n == Node(t.key, t.color, t.left.right, t.right)
<1>1. /\ t.key \in Int /\ t.color \in Colors /\ t.left \in Trees /\ t.right \in Trees
      /\ t.left.key \in Int /\ t.left.color \in Colors
      /\ t.left.left \in Trees /\ t.left.right \in Trees
  BY TreeParts
<1>2. RotLL(t) = Node(t.left.key, t.left.color, t.left.left, n)
  BY ShapeLL
<1>3. n \in Trees /\ n # Nil /\ n.key = t.key /\ n.left = t.left.right /\ n.right = t.right
  BY <1>1, Made DEF Built
<1>4. Node(t.left.key, t.left.color, t.left.left, n) \in Trees
  BY <1>1, <1>3, NodeIsTree
<1> HIDE DEF n
<1>5. Paint(n, "red") = Node(t.key, "red", t.left.right, t.right)
  BY <1>3, Painted, BlackAndRed
<1>6. QED
  BY <1>2, <1>4, <1>5, NodeIsRecord, TreeIsNoFault DEF RbRotLL

\* The colouring turn to the left, as a node (rb_rotate_rr).
LEMMA RbShapeRR ==
  ASSUME NEW t \in Trees, t # Nil, t.right # Nil
  PROVE  RbRotRR(t) = Node(t.right.key, "black",
                           Node(t.key, "red", t.left, t.right.left), t.right.right)
<1> DEFINE n == Node(t.key, t.color, t.left, t.right.left)
<1>1. /\ t.key \in Int /\ t.color \in Colors /\ t.left \in Trees /\ t.right \in Trees
      /\ t.right.key \in Int /\ t.right.color \in Colors
      /\ t.right.left \in Trees /\ t.right.right \in Trees
  BY TreeParts
<1>2. RotRR(t) = Node(t.right.key, t.right.color, n, t.right.right)
  BY ShapeRR
<1>3. n \in Trees /\ n # Nil /\ n.key = t.key /\ n.left = t.left /\ n.right = t.right.left
  BY <1>1, Made DEF Built
<1>4. Node(t.right.key, t.right.color, n, t.right.right) \in Trees
  BY <1>1, <1>3, NodeIsTree
<1> HIDE DEF n
<1>5. Paint(n, "red") = Node(t.key, "red", t.left, t.right.left)
  BY <1>3, Painted, BlackAndRed
<1>6. QED
  BY <1>2, <1>4, <1>5, NodeIsRecord, TreeIsNoFault DEF RbRotRR

\* The colouring double turn by the left child, as a node (rb_rotate_lr).
LEMMA RbShapeLR ==
  ASSUME NEW t \in Trees, t # Nil, t.left # Nil, t.left.right # Nil
  PROVE  LET x == t.left  y == t.left.right IN
         RbRotLR(t) = Node(y.key, "black", Node(x.key, "red", x.left, y.left),
                           Node(t.key, "red", y.right, t.right))
<1> DEFINE x == t.left  y == t.left.right
           m == Node(x.key, "red", x.left, y.left)
           z == Node(y.key, "black", m, y.right)
           s == Node(t.key, t.color, z, t.right)
<1>1. /\ t.key \in Int /\ t.color \in Colors /\ x \in Trees /\ t.right \in Trees
      /\ x.key \in Int /\ x.left \in Trees /\ y \in Trees /\ y.key \in Int
      /\ y.left \in Trees /\ y.right \in Trees /\ t \notin Marks /\ x \notin Marks
  BY TreeParts
<1>2. RbRotRR(x) = z
  BY <1>1, RbShapeRR
<1>3. m \in Trees /\ z \in Trees
  BY <1>1, BlackAndRed, NodeIsTree
<1>4. HangLeft(t, z) = s
  BY <1>3, HangFacts
<1>5. /\ z # Nil /\ z.key = y.key /\ z.left = m /\ z.right = y.right
  BY <1>1, <1>3, NodeIsRecord DEF Marks
<1> HIDE DEF z
<1>6. s \in Trees /\ s # Nil /\ s \notin Marks /\ s.key = t.key /\ s.left = z /\ s.right = t.right
  BY <1>1, <1>3, Made DEF Built
<1> HIDE DEF s
<1>7. RbRotLL(s) = Node(z.key, "black", z.left, Node(s.key, "red", z.right, s.right))
  BY <1>5, <1>6, RbShapeLL
<1>8. RbRotLR(t) = RbRotLL(s)
  BY <1>1, <1>2, <1>4, <1>6 DEF RbRotLR, Then
<1>9. QED
  BY <1>5, <1>6, <1>7, <1>8

\* The colouring double turn by the right child, as a node (rb_rotate_rl).
LEMMA RbShapeRL ==
  ASSUME NEW t \in Trees, t # Nil, t.right # Nil, t.right.left # Nil
  PROVE  LET x == t.right  y == t.right.left IN
         RbRotRL(t) = Node(y.key, "black", Node(t.key, "red", t.left, y.left),
                           Node(x.key, "red", y.right, x.right))
<1> DEFINE x == t.right  y == t.right.left
           m == Node(x.key, "red", y.right, x.right)
           z == Node(y.key, "black", y.left, m)
           s == Node(t.key, t.color, t.left, z)
<1>1. /\ t.key \in Int /\ t.color \in Colors /\ x \in Trees /\ t.left \in Trees
      /\ x.key \in Int /\ x.right \in Trees /\ y \in Trees /\ y.key \in Int
      /\ y.left \in Trees /\ y.right \in Trees /\ t \notin Marks /\ x \notin Marks
  BY TreeParts
<1>2. RbRotLL(x) = z
  BY <1>1, RbShapeLL
<1>3. m \in Trees /\ z \in Trees
  BY <1>1, BlackAndRed, NodeIsTree
<1>4. HangRight(t, z) = s
  BY <1>3, HangFacts
<1>5. /\ z # Nil /\ z.key = y.key /\ z.left = y.left /\ z.right = m
  BY <1>1, <1>3, NodeIsRecord DEF Marks
<1> HIDE DEF z
<1>6. s \in Trees /\ s # Nil /\ s \notin Marks /\ s.key = t.key /\ s.left = t.left /\ s.right = z
  BY <1>1, <1>3, Made DEF Built
<1> HIDE DEF s
<1>7. RbRotRR(s) = Node(z.key, "black", Node(s.key, "red", s.left, z.left), z.right)
  BY <1>5, <1>6, RbShapeRR
<1>8. RbRotRL(t) = RbRotRR(s)
  BY <1>1, <1>2, <1>4, <1>6 DEF RbRotRL, Then
<1>9. QED
  BY <1>5, <1>6, <1>7, <1>8

\* The turns of a red-black tree keep the keys.
LEMMA RbRotationsKeep ==
  ASSUME NEW t \in Trees, t # Nil
  PROVE  /\ t.left # Nil => Keeps(t, RbRotLL(t))
         /\ t.right # Nil => Keeps(t, RbRotRR(t))
         /\ t.left # Nil /\ t.left.right # Nil => Keeps(t, RbRotLR(t))
         /\ t.right # Nil /\ t.right.left # Nil => Keeps(t, RbRotRL(t))
<1> DEFINE l == t.left  r == t.right
<1>1. "black" \in Colors /\ "red" \in Colors
  BY BlackAndRed
<1>2. /\ t.key \in Int /\ t.color \in Colors /\ l \in Trees /\ r \in Trees
      /\ t = Node(t.key, t.color, l, r)
  BY TreeParts
<1>3. l # Nil => /\ l.key \in Int /\ l.color \in Colors /\ l.left \in Trees /\ l.right \in Trees
                 /\ l = Node(l.key, l.color, l.left, l.right)
  BY <1>2, TreeParts
<1>4. r # Nil => /\ r.key \in Int /\ r.color \in Colors /\ r.left \in Trees /\ r.right \in Trees
                 /\ r = Node(r.key, r.color, r.left, r.right)
  BY <1>2, TreeParts
<1>5. ASSUME l # Nil PROVE Keeps(t, RbRotLL(t))
  <2>1. RbRotLL(t) = Node(l.key, "black", l.left, Node(t.key, "red", l.right, r))
    BY <1>5, RbShapeLL
  <2>2. Keeps(Node(t.key, t.color, Node(l.key, l.color, l.left, l.right), r),
              Node(l.key, "black", l.left, Node(t.key, "red", l.right, r)))
    BY <1>2, <1>3, <1>5, <1>1, KeepsTurn
  <2>3. QED
    BY <1>2, <1>3, <1>5, <2>1, <2>2
<1>6. ASSUME r # Nil PROVE Keeps(t, RbRotRR(t))
  <2>1. RbRotRR(t) = Node(r.key, "black", Node(t.key, "red", l, r.left), r.right)
    BY <1>6, RbShapeRR
  <2>2. Keeps(Node(t.key, t.color, l, Node(r.key, r.color, r.left, r.right)),
              Node(r.key, "black", Node(t.key, "red", l, r.left), r.right))
    BY <1>2, <1>4, <1>6, <1>1, KeepsTurn
  <2>3. QED
    BY <1>2, <1>4, <1>6, <2>1, <2>2
<1>7. ASSUME l # Nil, l.right # Nil PROVE Keeps(t, RbRotLR(t))
  <2> DEFINE y == l.right
  <2>1. /\ y.key \in Int /\ y.color \in Colors /\ y.left \in Trees /\ y.right \in Trees
        /\ y = Node(y.key, y.color, y.left, y.right)
    BY <1>3, <1>7, TreeParts
  <2>2. RbRotLR(t) = Node(y.key, "black", Node(l.key, "red", l.left, y.left),
                          Node(t.key, "red", y.right, r))
    BY <1>7, RbShapeLR
  <2>3. Keeps(Node(t.key, t.color,
                   Node(l.key, l.color, l.left, Node(y.key, y.color, y.left, y.right)), r),
              Node(y.key, "black", Node(l.key, "red", l.left, y.left),
                   Node(t.key, "red", y.right, r)))
    BY <1>2, <1>3, <1>7, <2>1, <1>1, KeepsDoubleTurn
  <2>4. t = Node(t.key, t.color,
                 Node(l.key, l.color, l.left, Node(y.key, y.color, y.left, y.right)), r)
    BY <1>2, <1>3, <1>7, <2>1
  <2>5. QED
    BY <2>2, <2>3, <2>4
<1>8. ASSUME r # Nil, r.left # Nil PROVE Keeps(t, RbRotRL(t))
  <2> DEFINE y == r.left
  <2>1. /\ y.key \in Int /\ y.color \in Colors /\ y.left \in Trees /\ y.right \in Trees
        /\ y = Node(y.key, y.color, y.left, y.right)
    BY <1>4, <1>8, TreeParts
  <2>2. RbRotRL(t) = Node(y.key, "black", Node(t.key, "red", l, y.left),
                          Node(r.key, "red", y.right, r.right))
    BY <1>8, RbShapeRL
  <2>3. Keeps(Node(t.key, t.color, l,
                   Node(r.key, r.color, Node(y.key, y.color, y.left, y.right), r.right)),
              Node(y.key, "black", Node(t.key, "red", l, y.left),
                   Node(r.key, "red", y.right, r.right)))
    BY <1>2, <1>4, <1>8, <2>1, <1>1, KeepsDoubleTurn
  <2>4. t = Node(t.key, t.color, l,
                 Node(r.key, r.color, Node(y.key, y.color, y.left, y.right), r.right))
    BY <1>2, <1>4, <1>8, <2>1
  <2>5. QED
    BY <2>2, <2>3, <2>4
<1>9. QED
  BY <1>5, <1>6, <1>7, <1>8

\* A red tree is not empty.
LEMMA RedIsNode ==
  ASSUME NEW t, IsRed(t) PROVE t # Nil
BY DEF IsRed, Marks

\* The rebalancing of one node keeps the keys and never meets a NULL.
LEMMA RbRebalanceKeeps ==
  ASSUME NEW t \in Trees, t # Nil, NEW wentLeft \in BOOLEAN
  PROVE  Keeps(t, RbRebalance(t, wentLeft))
<1>1. /\ t.key \in Int /\ t.color \in Colors /\ t.left \in Trees /\ t.right \in Trees
      /\ t = Node(t.key, t.color, t.left, t.right)
  BY TreeParts
<1>2. Keeps(t, t)
  BY KeepsSelf
<1>3. Keeps(t, Flip(t))
  <2>1. Keeps(t.left, Paint(t.left, "black")) /\ Keeps(t.right, Paint(t.right, "black"))
    BY <1>1, Painted, BlackAndRed
  <2>2. Keeps(Node(t.key, t.color, t.left, t.right), Flip(t))
    BY <1>1, <2>1, BlackAndRed, KeepsNode DEF Flip
  <2>3. QED
    BY <1>1, <2>2
<1>4. IsRed(t.left) => /\ IsRed(t.left.left) => Keeps(t, RbRotLL(t))
                       /\ IsRed(t.left.right) => Keeps(t, RbRotLR(t))
  BY RedIsNode, RbRotationsKeep
<1>5. IsRed(t.right) => /\ IsRed(t.right.right) => Keeps(t, RbRotRR(t))
                        /\ IsRed(t.right.left) => Keeps(t, RbRotRL(t))
  BY RedIsNode, RbRotationsKeep
<1>6. QED
  BY <1>2, <1>3, <1>4, <1>5 DEF RbRebalance

-----------------------------------------------------------------------------
(* Red-black tree: what an attachment does to the keys.                    *)

\* The tree with a node more, rebalanced on the way back.
LEMMA RbNodeAttachDef ==
  ASSUME NEW t \in Trees, NEW k \in Int, NEW color \in Colors
  PROVE  /\ RbNodeAttach(t, k, color) \in Trees
         /\ t = Nil => RbNodeAttach(t, k, color) = Leaf(k, color)
         /\ t # Nil /\ k = t.key => RbNodeAttach(t, k, color) = t
         /\ t # Nil /\ k # t.key /\ k < t.key =>
              RbNodeAttach(t, k, color)
                = RbRebalance(HangLeft(t, RbNodeAttach(t.left, k, color)), TRUE)
         /\ t # Nil /\ k # t.key /\ ~(k < t.key) =>
              RbNodeAttach(t, k, color)
                = RbRebalance(HangRight(t, RbNodeAttach(t.right, k, color)), FALSE)
<1> DEFINE V == Trees
           Body(f, s) == IF s = Nil THEN Leaf(k, color)
                         ELSE IF k = s.key THEN s
                         ELSE IF k < s.key THEN RbRebalance(HangLeft(s, f[s.left]), TRUE)
                         ELSE RbRebalance(HangRight(s, f[s.right]), FALSE)
           G == [s \in Trees |-> [f \in [Trees -> V] |-> Body(f, s)]]
<1>1. \A s \in Trees : \A f \in [Trees -> V] : Body(f, s) \in V
  <2>1. ASSUME NEW s \in Trees, NEW f \in [Trees -> V] PROVE Body(f, s) \in V
    <3>1. CASE s = Nil
      <4>1. Leaf(k, color) \in Trees
        BY LeafIsTree
      <4>2. QED
        BY <3>1, <4>1
    <3>2. CASE s # Nil
      <4>1. s.left \in Trees /\ s.right \in Trees /\ f[s.left] \in Trees /\ f[s.right] \in Trees
        BY <3>2, TreeParts
      <4>2. HangLeft(s, f[s.left]) \in Trees \ {Nil} /\ HangRight(s, f[s.right]) \in Trees \ {Nil}
        BY <3>2, <4>1, HangFacts
      <4>3. \A u \in Trees \ {Nil} : \A b \in BOOLEAN : RbRebalance(u, b) \in Trees
        BY RbRebalanceKeeps DEF Keeps
      <4>4. QED
        BY <3>2, <4>2, <4>3
    <3>3. QED
      BY <3>1, <3>2
  <2>2. QED
    BY <2>1
<1>2. \A s \in Trees : \A f, g \in [Trees -> V] :
        (\A r \in Trees : Height(r) < Height(s) => f[r] = g[r]) => Body(f, s) = Body(g, s)
  BY TreeParts
<1>3. PICK g \in [Trees -> V] : \A s \in Trees : g[s] = Body(g, s)
  <2> HIDE DEF Body
  <2>1. V # {}
    BY NilIsTree
  <2> HIDE DEF V
  <2>2. G \in [Trees -> [[Trees -> V] -> V]]
    BY <1>1
  <2>3. \A s \in Trees : \A f \in [Trees -> V] : G[s][f] = Body(f, s)
    OBVIOUS
  <2> HIDE DEF G
  <2>4. \A s \in Trees : \A f, g \in [Trees -> V] :
          (\A r \in Trees : Height(r) < Height(s) => f[r] = g[r]) => G[s][f] = G[s][g]
    BY <1>2, <2>3
  <2>5. \E g \in [Trees -> V] : \A s \in Trees : g[s] = G[s][g]
    <3>1. LooksLower(V, G)
      BY <2>1, <2>2, <2>4 DEF LooksLower
    <3>2. QED
      BY <3>1, TreeRecursion
  <2>6. QED
    BY <2>3, <2>5
<1> HIDE DEF V
<1>4. ASSUME NEW u \in Trees PROVE RbNodeAttach(u, k, color) = g[u]
  <2> DEFINE D == UpTo(u)
             Is(f) == f = [s \in D |-> Body(f, s)]
             h == CHOOSE f : Is(f)
  <2>1. D \in SUBSET Trees /\ u \in D
    BY LowerTrees, HeightIsLeast
  <2>2. ASSUME NEW s \in D, NEW f, NEW e,
               \A r \in D : Height(r) < Height(s) => f[r] = e[r]
        PROVE  Body(f, s) = Body(e, s)
    BY <2>1, <2>2, ChildrenAreLower
  <2>3. Is([s \in D |-> g[s]])
    <3> HIDE DEF D, Body
    <3>1. \A s \in D : g[s] = Body([r \in D |-> g[r]], s)
      BY <1>3, <2>1, <2>2
    <3>2. QED
      BY <3>1
  <2>4. RbNodeAttach(u, k, color) = h[u]
    BY DEF RbNodeAttach
  <2>5. Is(h)
    <3> HIDE DEF Is
    <3>1. QED
      BY <2>3
  <2> HIDE DEF h
  <2>6. \A s \in D : h[s] = g[s]
    <3> HIDE DEF D, Body
    <3>1. \A s \in D : h[s] = Body(h, s) /\ g[s] = Body(g, s)
      BY <1>3, <2>1, <2>5
    <3>2. ASSUME NEW s \in D, \A r \in D : Height(r) < Height(s) => h[r] = g[r]
          PROVE  h[s] = g[s]
      BY <2>2, <3>1, <3>2
    <3>3. QED
      BY <2>1, <3>2, SameOnLower
  <2>7. QED
    BY <2>1, <2>4, <2>6
<1>5. RbNodeAttach(t, k, color) = Body(g, t) /\ g[t] \in Trees
  BY <1>3, <1>4 DEF V
<1>6. t # Nil => /\ RbNodeAttach(t.left, k, color) = g[t.left]
                 /\ RbNodeAttach(t.right, k, color) = g[t.right]
  BY <1>4, TreeParts
<1>7. CASE t = Nil
  BY <1>4, <1>5, <1>7
<1>8. CASE t # Nil
  BY <1>4, <1>5, <1>6, <1>8
<1>9. QED
  BY <1>7, <1>8

\* RbNodeAttach adds the key to the keys, and keeps the order.
LEMMA RbNodeAttachAdds ==
  ASSUME NEW k \in Int, NEW color \in Colors
  PROVE  \A t \in Trees : LET u == RbNodeAttach(t, k, color) IN
           /\ u \in Trees /\ u # Nil /\ KeysOf(u) = KeysOf(t) \cup {k}
           /\ Ordered(t) => Ordered(u)
<1> DEFINE P(t) == LET u == RbNodeAttach(t, k, color) IN
                   /\ u \in Trees /\ u # Nil /\ KeysOf(u) = KeysOf(t) \cup {k}
                   /\ Ordered(t) => Ordered(u)
           S == {t \in Trees : P(t)}
<1>1. Nil \in S
  <2>1. RbNodeAttach(Nil, k, color) = Leaf(k, color)
    BY NilIsTree, RbNodeAttachDef
  <2>2. QED
    BY <2>1, NilIsTree, LeafFacts, OfNil
<1>2. ASSUME NEW t \in Trees, t # Nil, t.left \in S, t.right \in S PROVE t \in S
  <2> DEFINE u == RbNodeAttach(t, k, color)
  <2>1. /\ t.key \in Int /\ t.color \in Colors /\ t.left \in Trees /\ t.right \in Trees
        /\ KeysOf(t.left) \subseteq Int /\ KeysOf(t.right) \subseteq Int
        /\ KeysOf(t) = {t.key} \cup KeysOf(t.left) \cup KeysOf(t.right)
    BY <1>2, TreeParts, KeysAreInts, OfNode
  <2>2. CASE k = t.key
    <3>1. u = t
      BY <1>2, <2>2, RbNodeAttachDef, Zenon
    <3> HIDE DEF u
    <3>2. KeysOf(t) = KeysOf(t) \cup {k}
      BY <2>1, <2>2
    <3>3. QED
      BY <1>2, <3>1, <3>2 DEF u
  <2>3. CASE k < t.key
    <3> DEFINE a == RbNodeAttach(t.left, k, color)  h == Node(t.key, t.color, a, t.right)
    <3>1. a \in Trees /\ KeysOf(a) = KeysOf(t.left) \cup {k} /\ (Ordered(t.left) => Ordered(a))
      BY <1>2
    <3>2. HangLeft(t, a) = h
      BY <1>2, <3>1, HangFacts
    <3>3. Built(h, t.key, a, t.right)
      BY <2>1, <3>1, Made
    <3>4. h \in Trees /\ h # Nil /\ KeysOf(h) = KeysOf(t) \cup {k} /\ (Ordered(t) => Ordered(h))
      <4> HIDE DEF h, a
      <4>1. QED
        BY <1>2, <2>1, <2>3, <3>1, <3>3, OfNode DEF Built
    <3>5. u = RbRebalance(h, TRUE)
      <4>1. k # t.key
        BY <2>1, <2>3
      <4>2. u = RbRebalance(HangLeft(t, a), TRUE)
        BY <1>2, <2>3, <4>1, RbNodeAttachDef, Zenon
      <4>3. QED
        BY <3>2, <4>2, Zenon
    <3> HIDE DEF h, a, u
    <3>6. Keeps(h, u)
      BY <3>4, <3>5, RbRebalanceKeeps
    <3>7. u # Nil
      BY <3>4, <3>6, KeepsNil
    <3>8. QED
      BY <3>4, <3>6, <3>7 DEF Keeps, u
  <2>4. CASE ~(k = t.key) /\ ~(k < t.key)
    <3> DEFINE a == RbNodeAttach(t.right, k, color)  h == Node(t.key, t.color, t.left, a)
    <3>1. a \in Trees /\ KeysOf(a) = KeysOf(t.right) \cup {k} /\ (Ordered(t.right) => Ordered(a))
      BY <1>2
    <3>2. HangRight(t, a) = h
      BY <1>2, <3>1, HangFacts
    <3>3. Built(h, t.key, t.left, a)
      BY <2>1, <3>1, Made
    <3>4. h \in Trees /\ h # Nil /\ KeysOf(h) = KeysOf(t) \cup {k} /\ (Ordered(t) => Ordered(h))
      <4> HIDE DEF h, a
      <4>1. t.key < k
        BY <2>1, <2>4
      <4>2. QED
        BY <1>2, <2>1, <3>1, <3>3, <4>1, OfNode DEF Built
    <3>5. u = RbRebalance(h, FALSE)
      <4>1. u = RbRebalance(HangRight(t, a), FALSE)
        BY <1>2, <2>4, RbNodeAttachDef, Zenon
      <4>2. QED
        BY <3>2, <4>1, Zenon
    <3> HIDE DEF h, a, u
    <3>6. Keeps(h, u)
      BY <3>4, <3>5, RbRebalanceKeeps
    <3>7. u # Nil
      BY <3>4, <3>6, KeepsNil
    <3>8. QED
      BY <3>4, <3>6, <3>7 DEF Keeps, u
  <2>5. QED
    BY <2>2, <2>3, <2>4
<1> HIDE DEF S
<1>3. Trees \subseteq S
  BY <1>1, <1>2, ChildInduction
<1>4. QED
  BY <1>3 DEF S

\* RBtree_attach adds its key and keeps the order.
LEMMA RbAttachAdds ==
  ASSUME NEW t \in Trees, NEW k \in Int, NEW color \in Colors
  PROVE  LET u == RbAttach(t, k, color) IN
         /\ u \in Trees /\ KeysOf(u) = KeysOf(t) \cup {k}
         /\ Ordered(t) => Ordered(u)
<1> DEFINE a == RbNodeAttach(t, k, color)
<1>1. a \in Trees /\ KeysOf(a) = KeysOf(t) \cup {k} /\ (Ordered(t) => Ordered(a))
  BY RbNodeAttachAdds
<1>2. Keeps(a, RbAttach(t, k, color))
  BY <1>1, BlackAndRed, Painted DEF RbAttach
<1> HIDE DEF a
<1>3. QED
  BY <1>1, <1>2 DEF Keeps

-----------------------------------------------------------------------------
(* Red-black tree: what an attachment does to the rules.                   *)

\* At most one red pair, at the root.
Loose(t) ==
  t # Nil => /\ NoRedPair(t.left) /\ NoRedPair(t.right)
             /\ IsRed(t) => ~(IsRed(t.left) /\ IsRed(t.right))

\* A node from two trees that follow the rules.
LEMMA NodeWithRules ==
  ASSUME NEW k \in Int, NEW c \in Colors, NEW m \in Trees, NEW n \in Trees, NEW u,
         u = Node(k, c, m, n), NoRedPair(m), NoRedPair(n),
         BlackHeight(m) = BlackHeight(n), BlackHeight(m) > 0,
         c = "red" => ~IsRed(m) /\ ~IsRed(n)
  PROVE  /\ u \in Trees /\ u # Nil /\ NoRedPair(u) /\ Loose(u)
         /\ BlackHeight(u) = BlackHeight(m) + (IF c = "red" THEN 0 ELSE 1)
         /\ IsRed(u) <=> c = "red"
<1>1. u \in Trees
  BY NodeIsTree
<1>2. u # Nil
  BY NodeIsRecord DEF Marks
<1>3. /\ NoRedPair(u) /\ (IsRed(u) <=> c = "red")
      /\ BlackHeight(u) = BlackHeight(m) + (IF c = "red" THEN 0 ELSE 1)
  BY Colored
<1>4. Loose(u)
  BY <1>1, <1>2, <1>3, ColorsOf DEF Loose
<1>5. QED
  BY <1>1, <1>2, <1>3, <1>4

\* The rebalancing on the way back from the left: a red pair below a black node
\* is taken apart, one at a red node is left to the caller.
LEMMA RulesOnTheLeft ==
  ASSUME NEW t \in Trees, t # Nil, Loose(t.left), NoRedPair(t.right),
         BlackHeight(t.left) = BlackHeight(t.right), BlackHeight(t.left) > 0,
         t.color = "red" => NoRedPair(t.left) /\ ~IsRed(t.right)
  PROVE  LET u == RbRebalance(t, TRUE) IN
         /\ BlackHeight(u) = BlackHeight(t) /\ Loose(u)
         /\ t.color # "red" => NoRedPair(u)
         /\ t.color = "red" => IsRed(u)
<1> DEFINE u == RbRebalance(t, TRUE)
           l == t.left  r == t.right  s == t.left
           Good == /\ BlackHeight(u) = BlackHeight(t) /\ Loose(u)
                   /\ t.color # "red" => NoRedPair(u)
                   /\ t.color = "red" => IsRed(u)
<1>1. "black" \in Colors /\ "red" \in Colors /\ "red" # "black"
  BY BlackAndRed
<1>2. /\ t.key \in Int /\ t.color \in Colors /\ l \in Trees /\ r \in Trees
      /\ BlackHeight(l) \in Nat
  BY TreeParts, BlackHeightDef
<1>3. BlackHeight(t) = BlackHeight(l) + (IF t.color = "red" THEN 0 ELSE 1)
  BY ColorsOf
<1>4. IsRed(s) => /\ s # Nil /\ s.key \in Int /\ s.color = "red"
                  /\ s.left \in Trees /\ s.right \in Trees
                  /\ BlackHeight(s.left) = BlackHeight(s.right) /\ BlackHeight(s.left) > 0
                  /\ BlackHeight(s) = BlackHeight(s.left) /\ BlackHeight(s.left) \in Nat
                  /\ NoRedPair(s.left) /\ NoRedPair(s.right)
                  /\ ~(IsRed(s.left) /\ IsRed(s.right))
                  /\ NoRedPair(s) => ~IsRed(s.left) /\ ~IsRed(s.right)
  BY <1>2, RedIsNode, TreeParts, ColorsOf, BlackHeightDef DEF Loose
<1>5. ~IsRed(s) => NoRedPair(s)
  BY <1>2, NilColors, ColorsOf DEF Loose
<1>6. CASE u = t /\ (IsRed(s) => ~IsRed(s.left) /\ ~IsRed(s.right))
  <2>1. NoRedPair(s)
    BY <1>2, <1>4, <1>5, <1>6, ColorsOf
  <2>2. Good
    BY <1>2, <1>6, <2>1, ColorsOf DEF Loose
  <2>3. QED
    BY <2>2
<1>7. CASE t.color = "red"
  <2>1. ~(IsRed(l) /\ IsRed(r))
    BY <1>7
  <2>2. IsRed(s) => ~IsRed(s.left) /\ ~IsRed(s.right)
    BY <1>4, <1>7
  <2>3. u = t
    BY <2>1, <2>2 DEF RbRebalance
  <2>4. QED
    BY <1>6, <2>2, <2>3
<1>8. CASE t.color # "red" /\ IsRed(l) /\ IsRed(r)
  <2> DEFINE m == Paint(l, "black")  n == Paint(r, "black")
  <2>1. u = Node(t.key, "red", m, n)
    BY <1>8 DEF RbRebalance, Flip
  <2>2. ASSUME NEW x \in {l, r}
        PROVE  LET p == Paint(x, "black") IN
               /\ p \in Trees /\ ~IsRed(p) /\ NoRedPair(p)
               /\ BlackHeight(p) = BlackHeight(x) + 1 /\ BlackHeight(x) \in Nat
    <3>1. x \in Trees /\ x # Nil /\ x.color = "red" /\ IsRed(x)
      BY <1>2, <1>8, RedIsNode, ColorsOf
    <3>2. /\ x.key \in Int /\ x.left \in Trees /\ x.right \in Trees
      BY <3>1, TreeParts
    <3>3. NoRedPair(x.left) /\ NoRedPair(x.right)
      BY <1>2, <1>4, <1>8, <3>1, ColorsOf
    <3>4. /\ BlackHeight(x) = BlackHeight(x.left) /\ BlackHeight(x.left) = BlackHeight(x.right)
          /\ BlackHeight(x.left) > 0
      <4>1. BlackHeight(x) = BlackHeight(l) /\ BlackHeight(l) > 0
        BY <2>2
      <4>2. BlackHeight(x) > 0
        BY <4>1, <1>2
      <4> HIDE DEF l, r
      <4>3. BlackHeight(x.left) \in Nat
        BY <3>2, BlackHeightDef
      <4>4. QED
        BY <3>1, <4>2, <4>3, ColorsOf
    <3>5. Paint(x, "black") = Node(x.key, "black", x.left, x.right)
      BY <1>1, <3>1, Painted
    <3>6. Node(x.key, "black", x.left, x.right) \in Trees
      BY <1>1, <3>2, NodeIsTree
    <3> DEFINE p == Node(x.key, "black", x.left, x.right)
    <3>7. /\ ~IsRed(p)
          /\ BlackHeight(p) = BlackHeight(x.left) + 1 /\ NoRedPair(p)
      BY <1>1, <3>2, <3>3, <3>4, Colored
    <3>8. BlackHeight(x) \in Nat
      BY <3>1, BlackHeightDef
    <3> HIDE DEF p, l, r
    <3>9. QED
      BY <3>4, <3>5, <3>6, <3>7, <3>8 DEF p
  <2>3. /\ m \in Trees /\ ~IsRed(m) /\ NoRedPair(m) /\ BlackHeight(m) = BlackHeight(l) + 1
        /\ n \in Trees /\ ~IsRed(n) /\ NoRedPair(n) /\ BlackHeight(n) = BlackHeight(r) + 1
    BY <2>2
  <2> HIDE DEF m, n
  <2> HIDE DEF u
  <2>4. /\ IsRed(u) /\ BlackHeight(u) = BlackHeight(m) + 0 /\ NoRedPair(u) /\ Loose(u)
    <3>1. BlackHeight(m) = BlackHeight(n) /\ BlackHeight(m) > 0
      BY <1>2, <2>3
    <3>2. QED
      BY <1>1, <1>2, <2>1, <2>3, <3>1, NodeWithRules
  <2>5. Good
    BY <1>2, <1>3, <1>8, <2>3, <2>4
  <2>6. QED
    BY <2>5 DEF u
<1>9. CASE t.color # "red" /\ ~(IsRed(l) /\ IsRed(r)) /\ IsRed(s) /\ IsRed(s.left)
  <2> DEFINE m == s.left  n == Node(t.key, "red", s.right, r)
  <2>1. u = Node(s.key, "black", m, n)
    <3>1. u = RbRotLL(t)
      BY <1>9 DEF RbRebalance
    <3>2. QED
      BY <1>4, <1>9, <3>1, RbShapeLL
  <2>2. m \in Trees /\ n \in Trees
    BY <1>1, <1>2, <1>4, <1>9, NodeIsTree
  <2>3. /\ BlackHeight(m) = BlackHeight(l) /\ BlackHeight(n) = BlackHeight(l)
        /\ NoRedPair(m) /\ NoRedPair(n)
    BY <1>1, <1>2, <1>4, <1>9, Colored
  <2> HIDE DEF m, n, u
  <2>4. BlackHeight(u) = BlackHeight(m) + 1 /\ NoRedPair(u) /\ Loose(u)
    <3>1. BlackHeight(m) = BlackHeight(n) /\ BlackHeight(m) > 0
      BY <2>3
    <3>2. QED
      BY <1>1, <1>4, <1>9, <2>1, <2>2, <2>3, <3>1, NodeWithRules
  <2>5. Good
    BY <1>2, <1>3, <1>9, <2>3, <2>4
  <2>6. QED
    BY <2>5 DEF u
<1>10. CASE t.color # "red" /\ ~(IsRed(l) /\ IsRed(r)) /\ IsRed(s) /\ ~IsRed(s.left) /\ IsRed(s.right)
  <2> DEFINE y == s.right
  <2>1. /\ y # Nil /\ y.key \in Int /\ y.left \in Trees /\ y.right \in Trees
        /\ y.color = "red" /\ BlackHeight(y.left) = BlackHeight(y.right)
        /\ BlackHeight(y.left) = BlackHeight(y) /\ BlackHeight(y.left) > 0
        /\ NoRedPair(y.left) /\ NoRedPair(y.right) /\ ~IsRed(y.left) /\ ~IsRed(y.right)
    BY <1>4, <1>10, RedIsNode, TreeParts, ColorsOf, BlackHeightDef
  <2> DEFINE m == Node(s.key, "red", s.left, y.left)  n == Node(t.key, "red", y.right, r)
  <2>2. u = Node(y.key, "black", m, n)
    <3>1. u = RbRotLR(t)
      BY <1>10 DEF RbRebalance
    <3>2. QED
      BY <1>4, <1>10, <2>1, <3>1, RbShapeLR
  <2>3. m \in Trees /\ n \in Trees
    BY <1>1, <1>2, <1>4, <1>10, <2>1, NodeIsTree
  <2> HIDE DEF y
  <2>4. BlackHeight(y) = BlackHeight(s.left) /\ BlackHeight(s) = BlackHeight(s.left)
    BY <1>4, <1>10 DEF y
  <2>5. BlackHeight(s) = BlackHeight(l) /\ BlackHeight(l) > 0 /\ NoRedPair(t.right)
    OBVIOUS
  <2>6. BlackHeight(m) = BlackHeight(l) /\ NoRedPair(m)
    BY <1>1, <1>2, <1>4, <1>10, <2>1, <2>4, <2>5, Colored
  <2>7. BlackHeight(n) = BlackHeight(l) /\ NoRedPair(n)
    <3>1. /\ BlackHeight(y.right) = BlackHeight(l) /\ BlackHeight(y.right) > 0
          /\ BlackHeight(s.left) = BlackHeight(l) /\ NoRedPair(s.left) /\ ~IsRed(s.left)
          /\ BlackHeight(r) = BlackHeight(l) /\ ~IsRed(t.right)
      BY <1>4, <1>10, <2>1, <2>4, <2>5
    <3>2. y.right \in Trees /\ NoRedPair(y.right) /\ ~IsRed(y.right)
      BY <2>1
    <3>3. s.left \in Trees /\ s.key \in Int
      BY <1>4, <1>10
    <3>4. QED
      BY <1>1, <1>2, <2>5, <3>1, <3>2, <3>3, Colored
  <2> HIDE DEF m, n, u
  <2>8. BlackHeight(u) = BlackHeight(m) + 1 /\ NoRedPair(u) /\ Loose(u)
    <3>1. BlackHeight(m) = BlackHeight(n) /\ BlackHeight(m) > 0
      BY <2>5, <2>6, <2>7
    <3>2. QED
      BY <1>1, <2>1, <2>2, <2>3, <2>6, <2>7, <3>1, NodeWithRules
  <2>9. Good
    BY <1>2, <1>3, <1>10, <2>6, <2>8
  <2>10. QED
    BY <2>9 DEF u
<1>11. CASE /\ t.color # "red" /\ ~(IsRed(l) /\ IsRed(r))
            /\ IsRed(s) => ~IsRed(s.left) /\ ~IsRed(s.right)
  <2>1. u = t
    BY <1>11 DEF RbRebalance
  <2>2. QED
    BY <1>6, <1>11, <2>1
<1>12. QED
  BY <1>7, <1>8, <1>9, <1>10, <1>11

\* The rebalancing on the way back from the right: a red pair below a black node
\* is taken apart, one at a red node is left to the caller.
LEMMA RulesOnTheRight ==
  ASSUME NEW t \in Trees, t # Nil, Loose(t.right), NoRedPair(t.left),
         BlackHeight(t.left) = BlackHeight(t.right), BlackHeight(t.left) > 0,
         t.color = "red" => NoRedPair(t.right) /\ ~IsRed(t.left)
  PROVE  LET u == RbRebalance(t, FALSE) IN
         /\ BlackHeight(u) = BlackHeight(t) /\ Loose(u)
         /\ t.color # "red" => NoRedPair(u)
         /\ t.color = "red" => IsRed(u)
<1> DEFINE u == RbRebalance(t, FALSE)
           l == t.left  r == t.right  s == t.right
           Good == /\ BlackHeight(u) = BlackHeight(t) /\ Loose(u)
                   /\ t.color # "red" => NoRedPair(u)
                   /\ t.color = "red" => IsRed(u)
<1>1. "black" \in Colors /\ "red" \in Colors /\ "red" # "black"
  BY BlackAndRed
<1>2. /\ t.key \in Int /\ t.color \in Colors /\ l \in Trees /\ r \in Trees
      /\ BlackHeight(l) \in Nat
  BY TreeParts, BlackHeightDef
<1>3. BlackHeight(t) = BlackHeight(l) + (IF t.color = "red" THEN 0 ELSE 1)
  BY ColorsOf
<1>4. IsRed(s) => /\ s # Nil /\ s.key \in Int /\ s.color = "red"
                  /\ s.left \in Trees /\ s.right \in Trees
                  /\ BlackHeight(s.left) = BlackHeight(s.right) /\ BlackHeight(s.left) > 0
                  /\ BlackHeight(s) = BlackHeight(s.left) /\ BlackHeight(s.left) \in Nat
                  /\ NoRedPair(s.left) /\ NoRedPair(s.right)
                  /\ ~(IsRed(s.left) /\ IsRed(s.right))
                  /\ NoRedPair(s) => ~IsRed(s.left) /\ ~IsRed(s.right)
  BY <1>2, RedIsNode, TreeParts, ColorsOf, BlackHeightDef DEF Loose
<1>5. ~IsRed(s) => NoRedPair(s)
  BY <1>2, NilColors, ColorsOf DEF Loose
<1>6. CASE u = t /\ (IsRed(s) => ~IsRed(s.left) /\ ~IsRed(s.right))
  <2>1. NoRedPair(s)
    BY <1>2, <1>4, <1>5, <1>6, ColorsOf
  <2>2. Good
    BY <1>2, <1>6, <2>1, ColorsOf DEF Loose
  <2>3. QED
    BY <2>2
<1>7. CASE t.color = "red"
  <2>1. ~(IsRed(l) /\ IsRed(r))
    BY <1>7
  <2>2. IsRed(s) => ~IsRed(s.left) /\ ~IsRed(s.right)
    BY <1>4, <1>7
  <2>3. u = t
    BY <2>1, <2>2 DEF RbRebalance
  <2>4. QED
    BY <1>6, <2>2, <2>3
<1>8. CASE t.color # "red" /\ IsRed(l) /\ IsRed(r)
  <2> DEFINE m == Paint(l, "black")  n == Paint(r, "black")
  <2>1. u = Node(t.key, "red", m, n)
    BY <1>8 DEF RbRebalance, Flip
  <2>2. ASSUME NEW x \in {l, r}
        PROVE  LET p == Paint(x, "black") IN
               /\ p \in Trees /\ ~IsRed(p) /\ NoRedPair(p)
               /\ BlackHeight(p) = BlackHeight(x) + 1 /\ BlackHeight(x) \in Nat
    <3>1. x \in Trees /\ x # Nil /\ x.color = "red" /\ IsRed(x)
      BY <1>2, <1>8, RedIsNode, ColorsOf
    <3>2. /\ x.key \in Int /\ x.left \in Trees /\ x.right \in Trees
      BY <3>1, TreeParts
    <3>3. NoRedPair(x.left) /\ NoRedPair(x.right)
      BY <1>2, <1>4, <1>8, <3>1, ColorsOf
    <3>4. /\ BlackHeight(x) = BlackHeight(x.left) /\ BlackHeight(x.left) = BlackHeight(x.right)
          /\ BlackHeight(x.left) > 0
      <4>1. BlackHeight(x) = BlackHeight(l) /\ BlackHeight(l) > 0
        BY <2>2
      <4>2. BlackHeight(x) > 0
        BY <4>1, <1>2
      <4> HIDE DEF l, r
      <4>3. BlackHeight(x.left) \in Nat
        BY <3>2, BlackHeightDef
      <4>4. QED
        BY <3>1, <4>2, <4>3, ColorsOf
    <3>5. Paint(x, "black") = Node(x.key, "black", x.left, x.right)
      BY <1>1, <3>1, Painted
    <3>6. Node(x.key, "black", x.left, x.right) \in Trees
      BY <1>1, <3>2, NodeIsTree
    <3> DEFINE p == Node(x.key, "black", x.left, x.right)
    <3>7. /\ ~IsRed(p)
          /\ BlackHeight(p) = BlackHeight(x.left) + 1 /\ NoRedPair(p)
      BY <1>1, <3>2, <3>3, <3>4, Colored
    <3>8. BlackHeight(x) \in Nat
      BY <3>1, BlackHeightDef
    <3> HIDE DEF p, l, r
    <3>9. QED
      BY <3>4, <3>5, <3>6, <3>7, <3>8 DEF p
  <2>3. /\ m \in Trees /\ ~IsRed(m) /\ NoRedPair(m) /\ BlackHeight(m) = BlackHeight(l) + 1
        /\ n \in Trees /\ ~IsRed(n) /\ NoRedPair(n) /\ BlackHeight(n) = BlackHeight(r) + 1
    BY <2>2
  <2> HIDE DEF m, n
  <2> HIDE DEF u
  <2>4. /\ IsRed(u) /\ BlackHeight(u) = BlackHeight(m) + 0 /\ NoRedPair(u) /\ Loose(u)
    <3>1. BlackHeight(m) = BlackHeight(n) /\ BlackHeight(m) > 0
      BY <1>2, <2>3
    <3>2. QED
      BY <1>1, <1>2, <2>1, <2>3, <3>1, NodeWithRules
  <2>5. Good
    BY <1>2, <1>3, <1>8, <2>3, <2>4
  <2>6. QED
    BY <2>5 DEF u
<1>9. CASE t.color # "red" /\ ~(IsRed(l) /\ IsRed(r)) /\ IsRed(s) /\ IsRed(s.right)
  <2> DEFINE m == Node(t.key, "red", l, s.left)  n == s.right
  <2>1. u = Node(s.key, "black", m, n)
    <3>1. u = RbRotRR(t)
      BY <1>9 DEF RbRebalance
    <3>2. QED
      BY <1>4, <1>9, <3>1, RbShapeRR
  <2>2. m \in Trees /\ n \in Trees
    BY <1>1, <1>2, <1>4, <1>9, NodeIsTree
  <2>3. /\ BlackHeight(m) = BlackHeight(l) /\ BlackHeight(n) = BlackHeight(l)
        /\ NoRedPair(m) /\ NoRedPair(n)
    BY <1>1, <1>2, <1>4, <1>9, Colored
  <2> HIDE DEF m, n, u
  <2>4. BlackHeight(u) = BlackHeight(m) + 1 /\ NoRedPair(u) /\ Loose(u)
    <3>1. BlackHeight(m) = BlackHeight(n) /\ BlackHeight(m) > 0
      BY <2>3
    <3>2. QED
      BY <1>1, <1>4, <1>9, <2>1, <2>2, <2>3, <3>1, NodeWithRules
  <2>5. Good
    BY <1>2, <1>3, <1>9, <2>3, <2>4
  <2>6. QED
    BY <2>5 DEF u
<1>10. CASE t.color # "red" /\ ~(IsRed(l) /\ IsRed(r)) /\ IsRed(s) /\ ~IsRed(s.right) /\ IsRed(s.left)
  <2> DEFINE y == s.left
  <2>1. /\ y # Nil /\ y.key \in Int /\ y.left \in Trees /\ y.right \in Trees
        /\ y.color = "red" /\ BlackHeight(y.left) = BlackHeight(y.right)
        /\ BlackHeight(y.left) = BlackHeight(y) /\ BlackHeight(y.left) > 0
        /\ NoRedPair(y.left) /\ NoRedPair(y.right) /\ ~IsRed(y.left) /\ ~IsRed(y.right)
    BY <1>4, <1>10, RedIsNode, TreeParts, ColorsOf, BlackHeightDef
  <2> DEFINE m == Node(t.key, "red", l, y.left)  n == Node(s.key, "red", y.right, s.right)
  <2>2. u = Node(y.key, "black", m, n)
    <3>1. u = RbRotRL(t)
      BY <1>10 DEF RbRebalance
    <3>2. QED
      BY <1>4, <1>10, <2>1, <3>1, RbShapeRL
  <2>3. m \in Trees /\ n \in Trees
    BY <1>1, <1>2, <1>4, <1>10, <2>1, NodeIsTree
  <2> HIDE DEF y
  <2>4. BlackHeight(y) = BlackHeight(s.right) /\ BlackHeight(s) = BlackHeight(s.right)
    BY <1>4, <1>10 DEF y
  <2>5. BlackHeight(s) = BlackHeight(l) /\ BlackHeight(l) > 0 /\ NoRedPair(t.left)
    OBVIOUS
  <2>6. BlackHeight(m) = BlackHeight(l) /\ NoRedPair(m)
    BY <1>1, <1>2, <1>4, <1>10, <2>1, <2>4, <2>5, Colored
  <2>7. BlackHeight(n) = BlackHeight(l) /\ NoRedPair(n)
    <3>1. /\ BlackHeight(y.right) = BlackHeight(l) /\ BlackHeight(y.right) > 0
          /\ BlackHeight(s.right) = BlackHeight(l) /\ NoRedPair(s.right) /\ ~IsRed(s.right)
          /\ BlackHeight(r) = BlackHeight(l) /\ ~IsRed(t.left)
      BY <1>4, <1>10, <2>1, <2>4, <2>5
    <3>2. y.right \in Trees /\ NoRedPair(y.right) /\ ~IsRed(y.right)
      BY <2>1
    <3>3. s.right \in Trees /\ s.key \in Int
      BY <1>4, <1>10
    <3>4. QED
      BY <1>1, <1>2, <2>5, <3>1, <3>2, <3>3, Colored
  <2> HIDE DEF m, n, u
  <2>8. BlackHeight(u) = BlackHeight(m) + 1 /\ NoRedPair(u) /\ Loose(u)
    <3>1. BlackHeight(m) = BlackHeight(n) /\ BlackHeight(m) > 0
      BY <2>5, <2>6, <2>7
    <3>2. QED
      BY <1>1, <2>1, <2>2, <2>3, <2>6, <2>7, <3>1, NodeWithRules
  <2>9. Good
    BY <1>2, <1>3, <1>10, <2>6, <2>8
  <2>10. QED
    BY <2>9 DEF u
<1>11. CASE /\ t.color # "red" /\ ~(IsRed(l) /\ IsRed(r))
            /\ IsRed(s) => ~IsRed(s.left) /\ ~IsRed(s.right)
  <2>1. u = t
    BY <1>11 DEF RbRebalance
  <2>2. QED
    BY <1>6, <1>11, <2>1
<1>12. QED
  BY <1>7, <1>8, <1>9, <1>10, <1>11

\* What a red node, or a key that is there, does to the rules on its way back.
Grown(t, u) ==
  /\ BlackHeight(u) = BlackHeight(t) /\ Loose(u)
  /\ ~IsRed(t) => NoRedPair(u)
  /\ IsRed(t) => IsRed(u)

\* RbNodeAttach of a red leaf, or of a key that is there already, leaves the rules but
\* for one red pair at the root.
LEMMA RbNodeAttachRules ==
  ASSUME NEW k \in Int, NEW color \in Colors
  PROVE  \A t \in Trees :
           /\ Ordered(t) /\ RbRules(t)
           /\ color = "red" \/ k \in KeysOf(t)
           => Grown(t, RbNodeAttach(t, k, color))
<1> DEFINE Fits(t) == Ordered(t) /\ RbRules(t) /\ (color = "red" \/ k \in KeysOf(t))
           S == {t \in Trees : Fits(t) => Grown(t, RbNodeAttach(t, k, color))}
<1>1. "black" \in Colors /\ "red" \in Colors /\ "red" # "black"
  BY BlackAndRed
<1>2. Nil \in S
  <2>1. SUFFICES ASSUME color = "red" PROVE Grown(Nil, RbNodeAttach(Nil, k, color))
    BY NilIsTree, OfNil
  <2>2. RbNodeAttach(Nil, k, color) = Node(k, color, Nil, Nil)
    BY NilIsTree, RbNodeAttachDef DEF Leaf
  <2> DEFINE u == RbNodeAttach(Nil, k, color)
  <2>3. u = Node(k, color, Nil, Nil)
    BY <2>2
  <2> HIDE DEF u
  <2>4. Loose(u) /\ NoRedPair(u) /\ BlackHeight(u) = BlackHeight(Nil) + 0
    BY <1>1, <2>1, <2>3, NilIsTree, NilColors, NodeWithRules
  <2>5. QED
    BY <2>4, NilColors DEF Grown, u
<1>3. ASSUME NEW t \in Trees, t # Nil, t.left \in S, t.right \in S PROVE t \in S
  <2> DEFINE u == RbNodeAttach(t, k, color)
  <2>1. SUFFICES ASSUME Fits(t) PROVE Grown(t, u)
    OBVIOUS
  <2>2. /\ t.key \in Int /\ t.color \in Colors /\ t.left \in Trees /\ t.right \in Trees
        /\ t = Node(t.key, t.color, t.left, t.right)
        /\ KeysOf(t) = {t.key} \cup KeysOf(t.left) \cup KeysOf(t.right)
        /\ Ordered(t.left) /\ Ordered(t.right)
        /\ \A x \in KeysOf(t.left) : x < t.key
        /\ \A x \in KeysOf(t.right) : t.key < x
    BY <1>3, <2>1, TreeParts, OfNode
  <2>3. /\ BlackHeight(t.left) = BlackHeight(t.right) /\ BlackHeight(t.left) > 0
        /\ BlackHeight(t) = BlackHeight(t.left) + (IF t.color = "red" THEN 0 ELSE 1)
        /\ NoRedPair(t.left) /\ NoRedPair(t.right) /\ NoRedPair(t)
        /\ IsRed(t) <=> t.color = "red"
        /\ t.color = "red" => ~IsRed(t.left) /\ ~IsRed(t.right)
    <3>1. BlackHeight(t.left) \in Nat /\ BlackHeight(t.right) \in Nat
      BY <2>2, BlackHeightDef
    <3>2. BlackHeight(t) > 0 /\ NoRedPair(t)
      BY <2>1 DEF RbRules
    <3>3. QED
      BY <1>3, <3>1, <3>2, ColorsOf
  <2>4. CASE k = t.key
    <3>1. u = t
      BY <1>3, <2>4, RbNodeAttachDef, Zenon
    <3> HIDE DEF u
    <3>2. Loose(t)
      BY <2>3 DEF Loose
    <3>3. QED
      BY <2>3, <3>1, <3>2 DEF Grown
  <2>5. CASE k < t.key
    <3> DEFINE a == RbNodeAttach(t.left, k, color)  h == Node(t.key, t.color, a, t.right)
    <3>1. a \in Trees /\ HangLeft(t, a) = h
      BY <1>3, <2>2, RbNodeAttachDef, HangFacts
    <3>2. u = RbRebalance(h, TRUE)
      <4>1. k # t.key
        BY <2>2, <2>5
      <4>2. u = RbRebalance(HangLeft(t, a), TRUE)
        BY <1>3, <2>5, <4>1, RbNodeAttachDef, Zenon
      <4>3. QED
        BY <3>1, <4>2, Zenon
    <3>3. Fits(t.left)
      BY <2>1, <2>2, <2>3, <2>5 DEF RbRules
    <3>4. Grown(t.left, a)
      BY <1>3, <3>3
    <3> HIDE DEF a, u
    <3>5. /\ h \in Trees /\ h # Nil /\ h.color = t.color /\ h.left = a /\ h.right = t.right
      BY <2>2, <3>1, NodeParts
    <3> HIDE DEF h
    <3>6. /\ Loose(h.left) /\ NoRedPair(h.right)
          /\ BlackHeight(h.left) = BlackHeight(h.right) /\ BlackHeight(h.left) > 0
          /\ h.color = "red" => NoRedPair(h.left) /\ ~IsRed(h.right)
      BY <2>3, <3>4, <3>5 DEF Grown
    <3>7. /\ BlackHeight(u) = BlackHeight(h) /\ Loose(u)
          /\ h.color # "red" => NoRedPair(u)
          /\ h.color = "red" => IsRed(u)
      BY <3>2, <3>5, <3>6, RulesOnTheLeft
    <3>8. BlackHeight(h) = BlackHeight(t)
      BY <2>3, <3>4, <3>5, <3>6, ColorsOf DEF Grown
    <3>9. QED
      BY <2>3, <3>5, <3>7, <3>8 DEF Grown
  <2>6. CASE k # t.key /\ ~(k < t.key)
    <3> DEFINE a == RbNodeAttach(t.right, k, color)  h == Node(t.key, t.color, t.left, a)
    <3>1. a \in Trees /\ HangRight(t, a) = h
      BY <1>3, <2>2, RbNodeAttachDef, HangFacts
    <3>2. u = RbRebalance(h, FALSE)
      <4>1. u = RbRebalance(HangRight(t, a), FALSE)
        BY <1>3, <2>6, RbNodeAttachDef, Zenon
      <4>2. QED
        BY <3>1, <4>1, Zenon
    <3>3. Fits(t.right)
      BY <2>1, <2>2, <2>3, <2>6 DEF RbRules
    <3>4. Grown(t.right, a)
      BY <1>3, <3>3
    <3> HIDE DEF a, u
    <3>5. /\ h \in Trees /\ h # Nil /\ h.color = t.color /\ h.left = t.left /\ h.right = a
      BY <2>2, <3>1, NodeParts
    <3> HIDE DEF h
    <3>6. /\ Loose(h.right) /\ NoRedPair(h.left)
          /\ BlackHeight(h.left) = BlackHeight(h.right) /\ BlackHeight(h.left) > 0
          /\ h.color = "red" => NoRedPair(h.right) /\ ~IsRed(h.left)
      BY <2>3, <3>4, <3>5 DEF Grown
    <3>7. /\ BlackHeight(u) = BlackHeight(h) /\ Loose(u)
          /\ h.color # "red" => NoRedPair(u)
          /\ h.color = "red" => IsRed(u)
      BY <3>2, <3>5, <3>6, RulesOnTheRight
    <3>8. BlackHeight(h) = BlackHeight(t)
      BY <2>3, <3>4, <3>5, <3>6, ColorsOf DEF Grown
    <3>9. QED
      BY <2>3, <3>5, <3>7, <3>8 DEF Grown
  <2>7. QED
    BY <2>4, <2>5, <2>6
<1> HIDE DEF S
<1>4. Trees \subseteq S
  BY <1>2, <1>3, ChildInduction
<1>5. QED
  BY <1>4 DEF S

\* RBtree_attach keeps the rules when it adds a red node, the first node, or none.
THEOREM RbAttachRules ==
  ASSUME NEW t \in Trees, NEW k \in Int, NEW color \in Colors,
         Ordered(t), RbRules(t), color = "red" \/ t = Nil \/ k \in KeysOf(t)
  PROVE  RbRules(RbAttach(t, k, color))
<1> DEFINE a == RbNodeAttach(t, k, color)  u == RbAttach(t, k, color)
<1>1. "black" \in Colors /\ "red" \in Colors /\ "red" # "black"
  BY BlackAndRed
<1>2. a \in Trees /\ a # Nil
  BY RbNodeAttachAdds
<1>3. Loose(a) /\ BlackHeight(a) > 0
  <2>1. CASE t = Nil
    <3>1. a = Node(k, color, Nil, Nil)
      BY <2>1, NilIsTree, RbNodeAttachDef DEF Leaf
    <3> HIDE DEF a
    <3>2. Loose(a) /\ BlackHeight(a) = 1 + (IF color = "red" THEN 0 ELSE 1)
      BY <3>1, NilIsTree, NilColors, NodeWithRules
    <3>3. QED
      BY <3>2
  <2>2. CASE t # Nil
    BY <2>2, RbNodeAttachRules DEF Grown, RbRules
  <2>3. QED
    BY <2>1, <2>2
<1>4. u = Node(a.key, "black", a.left, a.right)
  BY <1>1, <1>2, Painted DEF RbAttach
<1> HIDE DEF a
<1>5. /\ a.key \in Int /\ a.left \in Trees /\ a.right \in Trees
      /\ NoRedPair(a.left) /\ NoRedPair(a.right)
      /\ BlackHeight(a.left) = BlackHeight(a.right) /\ BlackHeight(a.left) > 0
      /\ BlackHeight(a.left) \in Nat
  <2>1. /\ a.key \in Int /\ a.left \in Trees /\ a.right \in Trees
        /\ NoRedPair(a.left) /\ NoRedPair(a.right)
    BY <1>2, <1>3, TreeParts DEF Loose
  <2>2. BlackHeight(a.left) \in Nat
    BY <2>1, BlackHeightDef
  <2>3. QED
    BY <1>2, <1>3, <2>1, <2>2, ColorsOf
<1> HIDE DEF u
<1>6. NoRedPair(u) /\ BlackHeight(u) = BlackHeight(a.left) + 1
  BY <1>1, <1>4, <1>5, NodeWithRules
<1>7. RbRules(u)
  BY <1>5, <1>6 DEF RbRules
<1>8. QED
  BY <1>7 DEF u

-----------------------------------------------------------------------------
(* Red-black tree: what a removal does to the keys.                        *)

\* Some key is there more than once: two nodes share a child.
Twice(t) == \E j \in Keys : Copies(t)[j] > 1

\* What a repair makes of t: the same keys, or a tree that is none any more.
Mends(t, u) ==
  \/ u = Fault
  \/ Keeps(t, u)
  \/ u \in Trees /\ (KeysOf(t) \subseteq Keys => KeysOf(u) \subseteq KeysOf(t) /\ Twice(u))

\* A repair returns a tree or a fault.
LEMMA MendsIsMaybe ==
  ASSUME NEW t, NEW u, Mends(t, u) PROVE u \in MaybeTrees
BY DEF Mends, Keeps, MaybeTrees

\* The turns of a red-black tree keep the keys or meet a NULL.
LEMMA RbTurns ==
  ASSUME NEW t \in Trees, t # Nil
  PROVE  /\ RbRotLL(t) = Fault \/ (t.left # Nil /\ Keeps(t, RbRotLL(t)))
         /\ RbRotRR(t) = Fault \/ (t.right # Nil /\ Keeps(t, RbRotRR(t)))
         /\ RbRotRL(t) = Fault \/ Keeps(t, RbRotRL(t))
<1>1. t.left = Nil => RbRotLL(t) = Fault
  BY ShapeLL DEF RbRotLL
<1>2. t.right = Nil => RbRotRR(t) = Fault
  BY ShapeRR DEF RbRotRR
<1>3. t.right = Nil \/ t.right.left = Nil => RbRotRL(t) = Fault
  <2>1. SUFFICES ASSUME t.right = Nil \/ t.right.left = Nil PROVE RbRotRL(t) = Fault
    OBVIOUS
  <2>2. Then(t.right, RbRotLL) = Fault
    <3>1. CASE t.right = Nil
      BY <3>1 DEF Then, Marks
    <3>2. CASE t.right # Nil
      <4>1. t.right \in Trees /\ t.right \notin Marks
        BY <3>2, TreeParts
      <4>2. RotLL(t.right) = Fault
        BY <2>1, <3>2, <4>1, ShapeLL
      <4>3. QED
        BY <4>1, <4>2 DEF Then, RbRotLL
    <3>3. QED
      BY <3>1, <3>2
  <2>3. HangRight(t, Fault) = Fault
    BY HangFacts
  <2>4. RbRotRL(t) = Then(Fault, RbRotRR)
    BY <2>2, <2>3 DEF RbRotRL
  <2>5. QED
    BY <2>4 DEF Then, Marks
<1>4. QED
  BY <1>1, <1>2, <1>3, RbRotationsKeep

\* The turn of a removal keeps the keys, or dereferences NULL.
LEMMA TurnAroundKeeps ==
  ASSUME NEW t \in Trees, t # Nil, NEW s
  PROVE  LET u == TurnAround(t, s) IN
         u = Fault \/ (Keeps(t, u) /\ u # Nil /\ u.left # Nil)
<1> DEFINE v == IF IsRed(s.right) THEN RbRotRR(t) ELSE RbRotRL(t)
           u == TurnAround(t, s)
           l == Paint(v.left, "black")  r == Paint(v.right, "black")
<1>1. v = Fault \/ Keeps(t, v)
  BY RbTurns
<1>2. u = IF v = Fault \/ Nil \in {v.left, v.right} THEN Fault ELSE Node(v.key, t.color, l, r)
  BY DEF TurnAround
<1> HIDE DEF u, v
<1>3. SUFFICES ASSUME v # Fault, v.left # Nil, v.right # Nil
               PROVE  Keeps(t, u) /\ u # Nil /\ u.left # Nil
  BY <1>2 DEF u
<1>4. Keeps(t, v) /\ v \in Trees /\ v # Nil
  BY <1>1, <1>3, KeepsNil DEF Keeps
<1>5. /\ v.key \in Int /\ v.color \in Colors /\ v.left \in Trees /\ v.right \in Trees
      /\ v = Node(v.key, v.color, v.left, v.right) /\ t.color \in Colors
  BY <1>4, TreeParts
<1>6. Keeps(v.left, l) /\ Keeps(v.right, r)
  BY <1>5, Painted, BlackAndRed
<1>7. l \in Trees /\ r \in Trees /\ l # Nil
  BY <1>3, <1>5, <1>6, KeepsNil DEF Keeps
<1> HIDE DEF l, r
<1>8. u = Node(v.key, t.color, l, r)
  BY <1>2, <1>3
<1>9. Keeps(Node(v.key, v.color, v.left, v.right), Node(v.key, t.color, l, r))
  BY <1>5, <1>6, KeepsNode
<1>10. Keeps(v, u)
  BY <1>5, <1>8, <1>9
<1>11. u # Nil /\ u.left = l
  BY <1>5, <1>7, <1>8, NodeParts
<1>12. QED
  BY <1>4, <1>7, <1>10, <1>11, KeepsTwice

\* A node with the same tree on one side and below the other.
LEMMA SharedChild ==
  ASSUME NEW k \in Int, NEW c \in Colors, NEW a \in Trees, a # Nil, a.left # Nil, NEW u,
         u = Node(k, c, a, a.left) \/ u = Node(k, c, a.left, a)
  PROVE  /\ u \in Trees /\ KeysOf(u) = {k} \cup KeysOf(a)
         /\ KeysOf(a) \subseteq Keys => Twice(u)
<1>1. a.left \in Trees /\ a.right \in Trees /\ a.left.key \in Int
      /\ a.left.left \in Trees /\ a.left.right \in Trees
  BY TreeParts
<1>2. /\ u \in Trees /\ KeysOf(u) = {k} \cup KeysOf(a) \cup KeysOf(a.left)
      /\ Copies(u) = [j \in Keys |-> Copies(a)[j] + Copies(a.left)[j] + (IF j = k THEN 1 ELSE 0)]
  <2>1. Copies(a) \in [Keys -> Nat] /\ Copies(a.left) \in [Keys -> Nat]
    BY <1>1, KeysAreInts
  <2>2. \A j \in Keys : Copies(a)[j] + Copies(a.left)[j] + (IF j = k THEN 1 ELSE 0)
                          = Copies(a.left)[j] + Copies(a)[j] + (IF j = k THEN 1 ELSE 0)
    BY <2>1
  <2>3. CASE u = Node(k, c, a, a.left)
    <3>1. Built(u, k, a, a.left)
      BY <1>1, <2>3, Made
    <3>2. QED
      BY <3>1 DEF Built
  <2>4. CASE u = Node(k, c, a.left, a)
    <3>1. Built(u, k, a.left, a)
      BY <1>1, <2>4, Made
    <3>2. QED
      BY <2>2, <3>1 DEF Built
  <2>5. QED
    BY <2>3, <2>4
<1>3. /\ KeysOf(a) = {a.key} \cup KeysOf(a.left) \cup KeysOf(a.right)
      /\ Copies(a) = [j \in Keys |-> Copies(a.left)[j] + Copies(a.right)[j]
                                     + (IF j = a.key THEN 1 ELSE 0)]
      /\ KeysOf(a.left) = {a.left.key} \cup KeysOf(a.left.left) \cup KeysOf(a.left.right)
      /\ Copies(a.left) = [j \in Keys |-> Copies(a.left.left)[j] + Copies(a.left.right)[j]
                                          + (IF j = a.left.key THEN 1 ELSE 0)]
  BY <1>1, OfNode
<1>4. ASSUME KeysOf(a) \subseteq Keys PROVE Twice(u)
  <2> DEFINE j == a.left.key
  <2>1. j \in Keys
    BY <1>3, <1>4
  <2>2. /\ Copies(a.right)[j] \in Nat /\ Copies(a.left.left)[j] \in Nat
        /\ Copies(a.left.right)[j] \in Nat /\ Copies(a.left)[j] \in Nat
    <3>1. /\ Copies(a.right) \in [Keys -> Nat] /\ Copies(a.left.left) \in [Keys -> Nat]
          /\ Copies(a.left.right) \in [Keys -> Nat] /\ Copies(a.left) \in [Keys -> Nat]
      BY <1>1, KeysAreInts
    <3>2. QED
      BY <2>1, <3>1
  <2>3. Copies(a.left)[j] >= 1
    BY <1>3, <2>1, <2>2
  <2>4. Copies(a)[j] >= Copies(a.left)[j] /\ Copies(a)[j] \in Nat
    BY <1>3, <2>1, <2>2
  <2>5. Copies(u)[j] = Copies(a)[j] + Copies(a.left)[j] + (IF j = k THEN 1 ELSE 0)
    BY <1>2, <2>1
  <2> HIDE DEF j
  <2>6. Copies(u)[j] > 1
    BY <2>2, <2>3, <2>4, <2>5
  <2>7. QED
    BY <2>1, <2>6 DEF Twice
<1>5. QED
  BY <1>2, <1>3, <1>4

\* One more colour below, or at, a node.
LEMMA HangKeeps ==
  ASSUME NEW t \in Trees, t # Nil, NEW u
  PROVE  /\ Keeps(t.left, u) => Keeps(t, HangLeft(t, u)) /\ HangLeft(t, u) # Nil
         /\ Keeps(t.right, u) => Keeps(t, HangRight(t, u)) /\ HangRight(t, u) # Nil
<1>1. u \in Trees => HangLeft(t, u) \in Trees \ {Nil} /\ HangRight(t, u) \in Trees \ {Nil}
  BY HangFacts
<1>2. \A s \in Trees : s # Fault
  BY TreeIsNoFault
<1>3. Keeps(t.left, u) => Keeps(t, HangLeft(t, u)) /\ HangLeft(t, u) # Nil
  BY <1>1, <1>2, HangTurns DEF Turns, Keeps
<1>4. Keeps(t.right, u) => Keeps(t, HangRight(t, u)) /\ HangRight(t, u) # Nil
  BY <1>1, <1>2, HangTurns DEF Turns, Keeps
<1>5. QED
  BY <1>3, <1>4

\* Recolouring a sibling keeps the keys.
LEMMA RecolourKeeps ==
  ASSUME NEW t \in Trees, t # Nil, NEW side \in {"left", "right"}
  PROVE  /\ Keeps(t, Recolour(t, side)[1])
         /\ Recolour(t, side) = <<Recolour(t, side)[1], IsRed(t)>>
<1> DEFINE h == HangOn(t, side, Paint(t[side], "red"))  u == Paint(h, "black")
<1>1. t.left \in Trees /\ t.right \in Trees
  BY TreeParts
<1>2. Keeps(t, h)
  <2>1. CASE side = "left"
    <3>1. h = HangLeft(t, Paint(t.left, "red"))
      BY <2>1 DEF HangOn
    <3>2. Keeps(t.left, Paint(t.left, "red"))
      BY <1>1, Painted, BlackAndRed
    <3>3. QED
      BY <3>1, <3>2, HangKeeps
  <2>2. CASE side = "right"
    <3>1. h = HangRight(t, Paint(t.right, "red"))
      BY <2>2 DEF HangOn
    <3>2. Keeps(t.right, Paint(t.right, "red"))
      BY <1>1, Painted, BlackAndRed
    <3>3. QED
      BY <3>1, <3>2, HangKeeps
  <2>3. QED
    BY <2>1, <2>2
<1> HIDE DEF h
<1>3. Keeps(h, u)
  BY <1>2, Painted, BlackAndRed DEF Keeps
<1>4. Keeps(t, u)
  BY <1>2, <1>3, KeepsTwice
<1>5. Recolour(t, side) = <<u, IsRed(t)>>
  BY DEF Recolour, h
<1> HIDE DEF u
<1>6. QED
  BY <1>4, <1>5

\* The two repairs of a red sibling: a node is turned up, then the old root is
\* repaired; a turn at the old root leaves its left child shared.
LEMMA RedSiblingsMend ==
  ASSUME NEW n \in Trees, n # Nil
  PROVE  /\ n.right # Nil => Mends(n, RedSiblingLeft(n))
         /\ n.left # Nil => Mends(n, RedSiblingRight(n))
<1>1. /\ n.key \in Int /\ n.color \in Colors /\ n.left \in Trees /\ n.right \in Trees
      /\ KeysOf(n) = {n.key} \cup KeysOf(n.left) \cup KeysOf(n.right)
      /\ n \notin Marks /\ n # Fault
  BY TreeParts, OfNode, TreeIsNoFault
<1>2. ASSUME NEW temp \in {n.left, n.right}, temp # Nil, NEW s,
             TurnAround(temp, s) # Fault, NEW u,
             LET v == TurnAround(temp, s) IN u = Hang(n, v, v.left) \/ u = Hang(n, v.left, v)
      PROVE  Mends(n, u)
  <2> DEFINE v == TurnAround(temp, s)
  <2>1. temp \in Trees /\ Keeps(temp, v) /\ v # Nil /\ v.left # Nil
    BY <1>1, <1>2, TurnAroundKeeps
  <2>2. v \in Trees /\ KeysOf(v) = KeysOf(temp)
    BY <2>1 DEF Keeps
  <2>3. u = Hang(n, v, v.left) \/ u = Hang(n, v.left, v)
    BY <1>2
  <2> HIDE DEF v
  <2>4. v.left \in Trees
    BY <2>1, <2>2, TreeParts
  <2>5. Fault \notin {v, v.left} /\ Loop \notin {v, v.left}
    BY <2>2, <2>4, TreeIsNoFault
  <2>6. u = Node(n.key, n.color, v, v.left) \/ u = Node(n.key, n.color, v.left, v)
    BY <2>3, <2>5, HangFacts
  <2>7. /\ u \in Trees /\ KeysOf(u) = {n.key} \cup KeysOf(v)
        /\ KeysOf(v) \subseteq Keys => Twice(u)
    BY <1>1, <2>1, <2>2, <2>6, SharedChild
  <2>8. KeysOf(temp) \subseteq KeysOf(n) /\ n.key \in KeysOf(n)
    BY <1>1, <1>2
  <2>9. QED
    BY <2>2, <2>7, <2>8 DEF Mends
<1>3. ASSUME n.right # Nil PROVE Mends(n, RedSiblingLeft(n))
  <2> DEFINE temp == n.right  s == temp.right  v == TurnAround(temp, s)
  <2>1. Keeps(n, HangRight(n, Recolour(temp, "right")[1]))
    <3>1. Keeps(temp, Recolour(temp, "right")[1])
      BY <1>1, <1>3, RecolourKeeps
    <3>2. QED
      BY <3>1, HangKeeps
  <2>2. v # Fault => Mends(n, Hang(n, v, v.left))
    BY <1>2, <1>3
  <2>3. RedSiblingLeft(n) = IF ~IsRed(s.left) /\ ~IsRed(s.right)
                            THEN HangRight(n, Recolour(temp, "right")[1])
                            ELSE IF v = Fault THEN Fault ELSE Hang(n, v, v.left)
    BY DEF RedSiblingLeft
  <2> HIDE DEF v, temp, s
  <2>4. QED
    BY <2>1, <2>2, <2>3 DEF Mends
<1>4. ASSUME n.left # Nil PROVE Mends(n, RedSiblingRight(n))
  <2> DEFINE temp == n.left  v == TurnAround(temp, temp)
  <2>1. Keeps(n, HangLeft(n, Paint(temp, "red")))
    <3>1. Keeps(temp, Paint(temp, "red"))
      BY <1>1, Painted, BlackAndRed
    <3>2. QED
      BY <3>1, HangKeeps
  <2>2. v # Fault => Mends(n, Hang(n, v.left, v))
    BY <1>2, <1>4
  <2>3. RedSiblingRight(n) = IF ~IsRed(temp.left) /\ ~IsRed(temp.right)
                             THEN HangLeft(n, Paint(temp, "red"))
                             ELSE IF v = Fault THEN Fault ELSE Hang(n, v.left, v)
    BY DEF RedSiblingRight
  <2> HIDE DEF v, temp
  <2>4. QED
    BY <2>1, <2>2, <2>3 DEF Mends
<1>5. QED
  BY <1>3, <1>4

\* What mends a tree with the same keys mends the tree.
LEMMA KeepsMends ==
  ASSUME NEW t, NEW u, NEW v, Keeps(t, u), Mends(u, v) PROVE Mends(t, v)
BY KeepsTwice DEF Mends, Keeps

\* rebalance, after a removal, for any node and any side.
LEMMA RbRepairMends ==
  ASSUME NEW t \in Trees, t # Nil, NEW cmp \in Int
  PROVE  \E u \in MaybeTrees, b \in BOOLEAN : RbRepair(t, cmp) = <<u, b>> /\ Mends(t, u)
<1> DEFINE side == IF cmp <= 0 THEN "right" ELSE "left"
<1>1. /\ t.left \in Trees /\ t.right \in Trees /\ t # Fault /\ side \in {"left", "right"}
      /\ t.key \in Int
  BY TreeParts, TreeIsNoFault
<1>2. RbRepair(t, cmp) =
        IF ~IsRed(t[side]) THEN BlackSibling(t, side)
        ELSE IF cmp < 0 THEN <<Then(RbRotLL(t), RedSiblingLeft), TRUE>>
        ELSE <<Then(RbRotRR(t), RedSiblingRight), TRUE>>
  BY <1>1 DEF RbRepair
<1> HIDE DEF side
<1>3. IsRed(t) \in BOOLEAN
  BY DEF IsRed
<1>4. Keeps(t, t)
  BY KeepsSelf
<1>5. \E u, b : /\ b \in BOOLEAN /\ BlackSibling(t, side) = <<u, b>> /\ Mends(t, u)
  <2> DEFINE s == t[side]
  <2>1. CASE s = Nil
    <3>1. BlackSibling(t, side) = <<t, FALSE>>
      BY <2>1 DEF BlackSibling
    <3>2. QED
      BY <1>4, <3>1 DEF Mends
  <2>2. CASE s # Nil /\ ~IsRed(s.left) /\ ~IsRed(s.right)
    <3>1. BlackSibling(t, side) = Recolour(t, side)
      BY <2>2 DEF BlackSibling
    <3>2. Keeps(t, Recolour(t, side)[1]) /\ Recolour(t, side) = <<Recolour(t, side)[1], IsRed(t)>>
      BY <1>1, RecolourKeeps
    <3>3. QED
      BY <1>3, <3>1, <3>2 DEF Mends
  <2>3. CASE s # Nil /\ ~(~IsRed(s.left) /\ ~IsRed(s.right))
    <3>1. BlackSibling(t, side) = <<TurnAround(t, s), TRUE>>
      BY <2>3 DEF BlackSibling
    <3>2. Mends(t, TurnAround(t, s))
      BY TurnAroundKeeps DEF Mends
    <3>3. QED
      BY <3>1, <3>2
  <2>4. QED
    BY <2>1, <2>2, <2>3
<1>6. Mends(t, Then(RbRotLL(t), RedSiblingLeft))
  <2> DEFINE n == RbRotLL(t)
  <2>1. CASE n = Fault
    BY <2>1 DEF Mends, Then, Marks
  <2>2. CASE n # Fault
    <3>1. t.left # Nil /\ Keeps(t, n)
      BY <2>2, RbTurns
    <3>2. n \in Trees /\ n # Nil
      BY <3>1, KeepsNil DEF Keeps
    <3>3. n.right # Nil
      <4>1. n = Node(t.left.key, "black", t.left.left, Node(t.key, "red", t.left.right, t.right))
        BY <3>1, RbShapeLL
      <4> HIDE DEF n
      <4>2. n.right = Node(t.key, "red", t.left.right, t.right)
        BY <4>1, NodeIsRecord
      <4>3. QED
        BY <4>2, NodeIsRecord DEF Marks
    <3> HIDE DEF n
    <3>4. Mends(n, RedSiblingLeft(n))
      BY <3>2, <3>3, RedSiblingsMend
    <3>5. n \notin Marks
      BY <3>2, TreeParts
    <3>6. Then(n, RedSiblingLeft) = RedSiblingLeft(n)
      BY <3>5 DEF Then
    <3>7. Mends(t, Then(n, RedSiblingLeft))
      BY <3>1, <3>4, <3>6, KeepsMends
    <3>8. QED
      BY <3>7 DEF n
  <2>3. QED
    BY <2>1, <2>2
<1>7. Mends(t, Then(RbRotRR(t), RedSiblingRight))
  <2> DEFINE n == RbRotRR(t)
  <2>1. CASE n = Fault
    BY <2>1 DEF Mends, Then, Marks
  <2>2. CASE n # Fault
    <3>1. t.right # Nil /\ Keeps(t, n)
      BY <2>2, RbTurns
    <3>2. n \in Trees /\ n # Nil
      BY <3>1, KeepsNil DEF Keeps
    <3>3. n.left # Nil
      <4>1. n = Node(t.right.key, "black", Node(t.key, "red", t.left, t.right.left), t.right.right)
        BY <3>1, RbShapeRR
      <4> HIDE DEF n
      <4>2. n.left = Node(t.key, "red", t.left, t.right.left)
        BY <4>1, NodeIsRecord
      <4>3. QED
        BY <4>2, NodeIsRecord DEF Marks
    <3> HIDE DEF n
    <3>4. Mends(n, RedSiblingRight(n))
      BY <3>2, <3>3, RedSiblingsMend
    <3>5. n \notin Marks
      BY <3>2, TreeParts
    <3>6. Then(n, RedSiblingRight) = RedSiblingRight(n)
      BY <3>5 DEF Then
    <3>7. Mends(t, Then(n, RedSiblingRight))
      BY <3>1, <3>4, <3>6, KeepsMends
    <3>8. QED
      BY <3>7 DEF n
  <2>3. QED
    BY <2>1, <2>2
<1>8. \E u, b : b \in BOOLEAN /\ RbRepair(t, cmp) = <<u, b>> /\ Mends(t, u)
  <2>1. CASE ~IsRed(t[side])
    BY <1>2, <1>5, <2>1
  <2>2. CASE IsRed(t[side]) /\ cmp < 0
    BY <1>2, <1>6, <2>2
  <2>3. CASE IsRed(t[side]) /\ ~(cmp < 0)
    BY <1>2, <1>7, <2>3
  <2>4. QED
    BY <2>1, <2>2, <2>3
<1>9. QED
  BY <1>8, MendsIsMaybe

\* What tree_remove returns: the tree and p_balanced.
Results == MaybeTrees \X BOOLEAN

\* The removals from one tree, by key and p_balanced.
RbRemovals == [Int -> [BOOLEAN -> Results]]

\* What the removal of k leaves: the rest in order, or a tree that is none.
RbGone(t, k, u) ==
  \/ u = Fault
  \/ u \in Trees /\ KeysOf(u) \subseteq KeysOf(t) /\ (Removed(t, k, u) \/ Twice(u))

\* A search that goes on below a node, and the repair on its way back.
LEMMA RbDownParts ==
  ASSUME NEW t \in Trees, t # Nil, NEW j \in Int, NEW b \in BOOLEAN, NEW f,
         f[t.left] \in RbRemovals, f[t.right] \in RbRemovals
  PROVE  \E x \in MaybeTrees, h \in MaybeTrees, v \in MaybeTrees, c \in BOOLEAN :
           /\ RbDown(f, t, j, b) = <<v, c>>
           /\ \/ j <= t.key /\ x = f[t.left][j][b][1] /\ h = HangLeft(t, x)
              \/ t.key < j /\ x = f[t.right][j][b][1] /\ h = HangRight(t, x)
           /\ h = Fault => v = Fault
           /\ h # Fault => h \in Trees /\ h # Nil /\ Mends(h, v)
<1> DEFINE side == IF Sign(j, t) <= 0 THEN t.left ELSE t.right
           below == f[side][j][b]
           h == IF Sign(j, t) <= 0 THEN HangLeft(t, below[1]) ELSE HangRight(t, below[1])
<1>1. t.key \in Int /\ t.left \in Trees /\ t.right \in Trees
  BY TreeParts
<1>2. /\ Sign(j, t) \in Int
      /\ Sign(j, t) <= 0 <=> j <= t.key
      /\ ~(Sign(j, t) <= 0) <=> t.key < j
  BY <1>1 DEF Sign
<1>3. below \in Results
  BY DEF RbRemovals
<1>4. below[1] \in MaybeTrees /\ below[2] \in BOOLEAN /\ below = <<below[1], below[2]>>
  BY <1>3 DEF Results
<1>5. RbDown(f, t, j, b) = IF below[2] THEN <<h, TRUE>> ELSE RbRepair(h, Sign(j, t))
  BY DEF RbDown
<1>6. \/ j <= t.key /\ below[1] = f[t.left][j][b][1] /\ h = HangLeft(t, below[1])
      \/ t.key < j /\ below[1] = f[t.right][j][b][1] /\ h = HangRight(t, below[1])
  BY <1>2
<1> HIDE DEF below, side
<1>7. h = Fault \/ (h \in Trees /\ h # Nil)
  BY <1>4, HangFacts DEF MaybeTrees
<1> HIDE DEF h
<1>8. h \in MaybeTrees
  BY <1>7 DEF MaybeTrees
<1>9. \E v \in MaybeTrees, c \in BOOLEAN :
        /\ RbDown(f, t, j, b) = <<v, c>>
        /\ h = Fault => v = Fault
        /\ h # Fault => h \in Trees /\ h # Nil /\ Mends(h, v)
  <2>1. CASE below[2]
    <3>1. RbDown(f, t, j, b) = <<h, TRUE>>
      BY <1>5, <2>1
    <3>2. h # Fault => Mends(h, h)
      BY <1>7, KeepsSelf DEF Mends
    <3>3. QED
      BY <1>7, <1>8, <3>1, <3>2
  <2>2. CASE ~below[2] /\ h = Fault
    <3>1. RbDown(f, t, j, b) = <<Fault, TRUE>>
      BY <1>5, <2>2 DEF RbRepair
    <3>2. QED
      BY <1>8, <2>2, <3>1
  <2>3. CASE ~below[2] /\ h # Fault
    <3>1. RbDown(f, t, j, b) = RbRepair(h, Sign(j, t))
      BY <1>5, <2>3
    <3>2. h \in Trees /\ h # Nil
      BY <1>7, <2>3
    <3>3. \E u \in MaybeTrees, c \in BOOLEAN : RbRepair(h, Sign(j, t)) = <<u, c>> /\ Mends(h, u)
      BY <1>2, <3>2, RbRepairMends
    <3>4. QED
      BY <2>3, <3>1, <3>2, <3>3
  <2>4. QED
    BY <2>1, <2>2, <2>3
<1>10. QED
  BY <1>4, <1>6, <1>8, <1>9

\* RbDown returns a result.
LEMMA RbDownType ==
  ASSUME NEW t \in Trees, NEW j \in Int, NEW b \in BOOLEAN, NEW f,
         t # Nil => f[t.left] \in RbRemovals /\ f[t.right] \in RbRemovals
  PROVE  RbDown(f, t, j, b) \in Results
<1>1. CASE t = Nil
  BY <1>1, NilIsTree DEF RbDown, Results, MaybeTrees
<1>2. CASE t # Nil
  <2>1. \E v \in MaybeTrees, c \in BOOLEAN : RbDown(f, t, j, b) = <<v, c>>
    BY <1>2, RbDownParts
  <2>2. QED
    BY <2>1 DEF Results
<1>3. QED
  BY <1>1, <1>2

\* The child that takes the place of its parent keeps its key and its children.
LEMMA SplicedIsTree ==
  ASSUME NEW t \in Trees, t # Nil
  PROVE  /\ Keeps(OnlyChild(t), Spliced(t))
         /\ Spliced(t) = Nil <=> OnlyChild(t) = Nil
         /\ OnlyChild(t) # Nil => /\ Spliced(t).key = OnlyChild(t).key
                                  /\ Spliced(t).left = OnlyChild(t).left
                                  /\ Spliced(t).right = OnlyChild(t).right
<1> DEFINE c == OnlyChild(t)
<1>1. c \in Trees /\ Keeps(c, c)
  BY OnlyChildIsTree, KeepsSelf
<1> HIDE DEF c
<1>2. Keeps(c, Paint(c, "black")) /\ (c # Nil => Paint(c, "black") = Node(c.key, "black", c.left, c.right))
  BY <1>1, Painted, BlackAndRed
<1>3. /\ Paint(c, "black") = Nil <=> c = Nil
      /\ c # Nil => /\ Paint(c, "black").key = c.key /\ Paint(c, "black").left = c.left
                    /\ Paint(c, "black").right = c.right
  BY <1>1, <1>2, KeepsNil, NodeIsRecord
<1>4. QED
  BY <1>1, <1>2, <1>3 DEF Spliced, c

\* The removal from s looks at trees lower than s only.
LEMMA RbDownSame ==
  ASSUME NEW s \in Trees, s # Nil, NEW f, NEW g,
         \A r \in Trees : Height(r) < Height(s) => f[r] = g[r]
  PROVE  \A j \in Int : \A b :
           /\ RbDown(f, s, j, b) = RbDown(g, s, j, b)
           /\ RbDown(f, Spliced(s), j, b) = RbDown(g, Spliced(s), j, b)
           /\ ~HalfEmpty(s) => RbDown(f, TakesLargest(s), Largest(s.left).key, b)
                                 = RbDown(g, TakesLargest(s), Largest(s.left).key, b)
<1>1. f[s.left] = g[s.left] /\ f[s.right] = g[s.right]
  BY TreeParts
<1>2. Spliced(s) # Nil => f[Spliced(s).left] = g[Spliced(s).left]
                          /\ f[Spliced(s).right] = g[Spliced(s).right]
  <2>1. SUFFICES ASSUME OnlyChild(s) # Nil
                 PROVE  f[OnlyChild(s).left] = g[OnlyChild(s).left]
                        /\ f[OnlyChild(s).right] = g[OnlyChild(s).right]
    BY SplicedIsTree
  <2> DEFINE c == OnlyChild(s)
  <2>2. c \in Trees /\ Height(c) < Height(s)
    BY OnlyChildIsTree
  <2> HIDE DEF c
  <2>3. c.left \in Trees /\ c.right \in Trees /\ Height(c.left) < Height(c) /\ Height(c.right) < Height(c)
    BY <2>1, <2>2, TreeParts DEF c
  <2>4. Height(c.left) < Height(s) /\ Height(c.right) < Height(s)
    BY <2>2, <2>3, HeightIsLeast
  <2>5. QED
    BY <2>3, <2>4 DEF c
<1>3. ~HalfEmpty(s) => TakesLargest(s).left = s.left /\ TakesLargest(s).right = s.right
  BY TakesLargestIsTree
<1>4. ASSUME NEW u, u # Nil => f[u.left] = g[u.left] /\ f[u.right] = g[u.right], NEW i, NEW b
      PROVE  RbDown(f, u, i, b) = RbDown(g, u, i, b)
  <2>1. CASE u = Nil
    BY <2>1 DEF RbDown
  <2>2. CASE u # Nil
    <3>1. f[IF Sign(i, u) <= 0 THEN u.left ELSE u.right] = g[IF Sign(i, u) <= 0 THEN u.left ELSE u.right]
      BY <1>4, <2>2
    <3>2. QED
      BY <2>2, <3>1 DEF RbDown
  <2>3. QED
    BY <2>1, <2>2
<1>5. QED
  BY <1>1, <1>2, <1>3, <1>4

\* A removal, by the removals from lower trees.
RbRemoval(f, s, j, b) ==
  IF s = Nil THEN <<Nil, TRUE>>
  ELSE IF s.key # j THEN RbDown(f, s, j, b)
  ELSE IF ~HalfEmpty(s) THEN RbDown(f, TakesLargest(s), Largest(s.left).key, b)
  ELSE RbDown(f, Spliced(s), j, b \/ IsRed(s) \/ IsRed(OnlyChild(s)))

\* One step of tree_remove returns a result.
LEMMA RbRemovalType ==
  ASSUME NEW s \in Trees, NEW j \in Int, NEW b \in BOOLEAN, NEW f \in [Trees -> RbRemovals]
  PROVE  RbRemoval(f, s, j, b) \in Results
<1>1. \A t \in Trees : t # Nil => f[t.left] \in RbRemovals /\ f[t.right] \in RbRemovals
  BY TreeParts
<1>2. ASSUME NEW t \in Trees, NEW i \in Int, NEW d \in BOOLEAN PROVE RbDown(f, t, i, d) \in Results
  BY <1>1, RbDownType
<1>3. CASE s = Nil
  BY <1>3, NilIsTree DEF RbRemoval, Results, MaybeTrees
<1>4. CASE s # Nil /\ s.key # j
  BY <1>2, <1>4 DEF RbRemoval
<1>5. CASE s # Nil /\ s.key = j /\ ~HalfEmpty(s)
  <2>1. TakesLargest(s) \in Trees /\ Largest(s.left).key \in Int
    BY <1>5, TakesLargestIsTree
  <2>2. QED
    BY <1>2, <1>5, <2>1 DEF RbRemoval
<1>6. CASE s # Nil /\ s.key = j /\ HalfEmpty(s)
  <2> DEFINE d == b \/ IsRed(s) \/ IsRed(OnlyChild(s))
  <2>1. d \in BOOLEAN
    OBVIOUS
  <2>2. RbRemoval(f, s, j, b) = RbDown(f, Spliced(s), j, d)
    BY <1>6 DEF RbRemoval
  <2> HIDE DEF d
  <2>3. Spliced(s) \in Trees
    BY <1>6, SplicedIsTree DEF Keeps
  <2>4. QED
    BY <1>2, <2>1, <2>2, <2>3
<1>7. QED
  BY <1>3, <1>4, <1>5, <1>6

\* One step of tree_remove looks only at lower trees.
LEMMA RbRemovalSame ==
  ASSUME NEW s \in Trees, NEW f, NEW g,
         \A r \in Trees : Height(r) < Height(s) => f[r] = g[r]
  PROVE  \A j \in Int : \A b \in BOOLEAN : RbRemoval(f, s, j, b) = RbRemoval(g, s, j, b)
<1>1. CASE s = Nil
  BY <1>1 DEF RbRemoval
<1>2. CASE s # Nil
  BY <1>2, RbDownSame, SMTT(40) DEF RbRemoval
<1>3. QED
  BY <1>1, <1>2

\* The equation of RbRemove.
LEMMA RbRemoveDef ==
  \E f \in [Trees -> RbRemovals] : \A s \in Trees : \A j \in Int : \A b \in BOOLEAN :
    /\ RbRemove(s, j, b) = f[s][j][b]
    /\ f[s][j][b] = RbRemoval(f, s, j, b)
<1> DEFINE V == RbRemovals
           Body(f, s) == [j \in Int |-> [b \in BOOLEAN |-> RbRemoval(f, s, j, b)]]
           G == [s \in Trees |-> [f \in [Trees -> V] |-> Body(f, s)]]
<1>1. \A s \in Trees : \A f \in [Trees -> V] : Body(f, s) \in V
  BY RbRemovalType DEF RbRemovals
<1>2. \A s \in Trees : \A f, g \in [Trees -> V] :
        (\A r \in Trees : Height(r) < Height(s) => f[r] = g[r]) => Body(f, s) = Body(g, s)
  <2>1. ASSUME NEW s \in Trees, NEW f \in [Trees -> V], NEW g \in [Trees -> V],
               \A r \in Trees : Height(r) < Height(s) => f[r] = g[r]
        PROVE  Body(f, s) = Body(g, s)
    <3> HIDE DEF V
    <3>1. \A j \in Int : \A b \in BOOLEAN : RbRemoval(f, s, j, b) = RbRemoval(g, s, j, b)
      BY <2>1, RbRemovalSame
    <3>2. QED
      BY <3>1
  <2>2. QED
    BY <2>1
<1>3. PICK g \in [Trees -> V] : \A s \in Trees : g[s] = Body(g, s)
  <2> HIDE DEF Body
  <2>1. V # {}
    <3>1. <<Nil, TRUE>> \in Results
      BY NilIsTree DEF Results, MaybeTrees
    <3>2. [j \in Int |-> [b \in BOOLEAN |-> <<Nil, TRUE>>]] \in V
      BY <3>1 DEF RbRemovals
    <3>3. QED
      BY <3>2
  <2> HIDE DEF V
  <2>2. G \in [Trees -> [[Trees -> V] -> V]]
    BY <1>1
  <2>3. \A s \in Trees : \A f \in [Trees -> V] : G[s][f] = Body(f, s)
    OBVIOUS
  <2> HIDE DEF G
  <2>4. \A s \in Trees : \A f, g \in [Trees -> V] :
          (\A r \in Trees : Height(r) < Height(s) => f[r] = g[r]) => G[s][f] = G[s][g]
    BY <1>2, <2>3
  <2>5. \E g \in [Trees -> V] : \A s \in Trees : g[s] = G[s][g]
    <3>1. LooksLower(V, G)
      BY <2>1, <2>2, <2>4 DEF LooksLower
    <3>2. QED
      BY <3>1, TreeRecursion
  <2>6. QED
    BY <2>3, <2>5
<1> HIDE DEF V
<1>4. ASSUME NEW u \in Trees, NEW k \in Int, NEW b \in BOOLEAN PROVE RbRemove(u, k, b) = g[u][k][b]
  <2> DEFINE D == UpTo(u)
             Is(f) == f = [s \in D |-> Body(f, s)]
             h == CHOOSE f : Is(f)
  <2>1. D \in SUBSET Trees /\ u \in D
    BY LowerTrees, HeightIsLeast
  <2>2. ASSUME NEW s \in D, NEW f, NEW e,
               \A r \in D : Height(r) < Height(s) => f[r] = e[r]
        PROVE  Body(f, s) = Body(e, s)
    <3>1. s \in Trees /\ \A r \in Trees : Height(r) < Height(s) => f[r] = e[r]
      <4>1. \A r \in Trees : Height(r) < Height(s) => r \in D
        BY <2>1, LowerStill
      <4>2. QED
        BY <2>1, <2>2, <4>1
    <3>2. \A j \in Int : \A d \in BOOLEAN : RbRemoval(f, s, j, d) = RbRemoval(e, s, j, d)
      BY <3>1, RbRemovalSame
    <3>3. QED
      BY <3>2
  <2>3. Is([s \in D |-> g[s]])
    <3> HIDE DEF D, Body
    <3>1. \A s \in D : g[s] = Body([r \in D |-> g[r]], s)
      BY <1>3, <2>1, <2>2
    <3>2. QED
      BY <3>1
  <2>4. RbRemove(u, k, b) = h[u][k][b]
    BY DEF RbRemove, RbRemoval
  <2>5. Is(h)
    <3> HIDE DEF Is
    <3>1. QED
      BY <2>3
  <2> HIDE DEF h
  <2>6. \A s \in D : h[s] = g[s]
    <3> HIDE DEF D, Body
    <3>1. \A s \in D : h[s] = Body(h, s) /\ g[s] = Body(g, s)
      BY <1>3, <2>1, <2>5
    <3>2. ASSUME NEW s \in D, \A r \in D : Height(r) < Height(s) => h[r] = g[r]
          PROVE  h[s] = g[s]
      BY <2>2, <3>1, <3>2
    <3>3. QED
      BY <2>1, <3>2, SameOnLower
  <2>7. QED
    BY <2>1, <2>4, <2>6
<1>5. \A s \in Trees : \A j \in Int : \A b \in BOOLEAN : g[s][j][b] = RbRemoval(g, s, j, b)
  BY <1>3
<1>6. QED
  BY <1>4, <1>5 DEF V

\* A shared node below is one above.
LEMMA TwiceAbove ==
  ASSUME NEW k \in Int, NEW c \in Colors, NEW l \in Trees, NEW r \in Trees, Twice(l) \/ Twice(r)
  PROVE  Twice(Node(k, c, l, r))
<1> DEFINE t == Node(k, c, l, r)
<1>1. Built(t, k, l, r)
  BY Made
<1>2. Copies(l) \in [Keys -> Nat] /\ Copies(r) \in [Keys -> Nat]
  BY KeysAreInts
<1> HIDE DEF t
<1>3. \A j \in Keys : Copies(t)[j] >= Copies(l)[j] /\ Copies(t)[j] >= Copies(r)[j]
  BY <1>1, <1>2 DEF Built
<1>4. \A j \in Keys : Copies(t)[j] \in Nat
  BY <1>1, <1>2 DEF Built
<1>5. Twice(t)
  BY <1>2, <1>3, <1>4 DEF Twice
<1>6. QED
  BY <1>5 DEF t

\* A mended tree has the same keys in order, or a shared node.
LEMMA MendedStill ==
  ASSUME NEW h \in Trees, NEW v, Mends(h, v), KeysOf(h) \subseteq Keys
  PROVE  \/ v = Fault
         \/ /\ v \in Trees /\ KeysOf(v) \subseteq KeysOf(h)
            /\ Twice(h) => Twice(v)
            /\ Ordered(h) => (Ordered(v) /\ KeysOf(v) = KeysOf(h)) \/ Twice(v)
BY DEF Mends, Keeps, Twice

\* The way down removes the key from a node when it removes it from its children; or a
\* subtree was shared, and then a key is held twice.
LEMMA RbDownRemoves ==
  ASSUME NEW t \in Trees, t # Nil, NEW j \in Int, NEW b \in BOOLEAN, NEW f,
         f[t.left] \in RbRemovals, f[t.right] \in RbRemovals,
         \A c \in {t.left, t.right} : RbGone(c, j, f[c][j][b][1]),
         Ordered(t.left), Ordered(t.right), KeysOf(t) \subseteq Keys,
         \A x \in KeysOf(t.left) : x < t.key \/ (x = j /\ j = t.key),
         \A x \in KeysOf(t.right) : t.key < x
  PROVE  LET v == RbDown(f, t, j, b)[1] IN
         \/ v = Fault
         \/ /\ v \in Trees /\ KeysOf(v) \subseteq KeysOf(t)
            /\ \/ /\ Ordered(v)
                  /\ KeysOf(v) = {t.key} \cup ((KeysOf(t.left) \cup KeysOf(t.right)) \ {j})
               \/ Twice(v)
<1> DEFINE Rest == {t.key} \cup ((KeysOf(t.left) \cup KeysOf(t.right)) \ {j})
<1>1. /\ t.key \in Int /\ t.color \in Colors /\ t.left \in Trees /\ t.right \in Trees
      /\ KeysOf(t.left) \subseteq Int /\ KeysOf(t.right) \subseteq Int
      /\ KeysOf(t) = {t.key} \cup KeysOf(t.left) \cup KeysOf(t.right)
  BY TreeParts, KeysAreInts, OfNode
<1>2. PICK x \in MaybeTrees, h \in MaybeTrees, v \in MaybeTrees, c \in BOOLEAN :
        /\ RbDown(f, t, j, b) = <<v, c>>
        /\ \/ j <= t.key /\ x = f[t.left][j][b][1] /\ h = HangLeft(t, x)
           \/ t.key < j /\ x = f[t.right][j][b][1] /\ h = HangRight(t, x)
        /\ h = Fault => v = Fault
        /\ h # Fault => h \in Trees /\ h # Nil /\ Mends(h, v)
  BY RbDownParts
<1>3. RbDown(f, t, j, b)[1] = v
  BY <1>2
<1>4. SUFFICES ASSUME h # Fault
               PROVE  \/ v = Fault
                      \/ /\ v \in Trees /\ KeysOf(v) \subseteq KeysOf(t)
                         /\ (Ordered(v) /\ KeysOf(v) = Rest) \/ Twice(v)
  BY <1>2, <1>3
<1>5. KeysOf(h) \subseteq KeysOf(t) /\ ((Ordered(h) /\ KeysOf(h) = Rest) \/ Twice(h))
  <2>1. CASE j <= t.key /\ x = f[t.left][j][b][1] /\ h = HangLeft(t, x)
    <3>1. RbGone(t.left, j, x) /\ x # Fault
      BY <1>4, <2>1, HangFacts
    <3>2. x \in Trees /\ KeysOf(x) \subseteq KeysOf(t.left) /\ (Removed(t.left, j, x) \/ Twice(x))
      BY <3>1 DEF RbGone
    <3>3. h = Node(t.key, t.color, x, t.right)
      BY <2>1, <3>2, HangFacts
    <3>4. Built(h, t.key, x, t.right)
      BY <1>1, <3>2, <3>3, Made
    <3>5. KeysOf(h) \subseteq KeysOf(t)
      BY <1>1, <3>2, <3>4 DEF Built
    <3>6. CASE Twice(x)
      BY <1>1, <3>2, <3>3, <3>5, <3>6, TwiceAbove
    <3>7. CASE Removed(t.left, j, x)
      <4>1. KeysOf(x) = KeysOf(t.left) \ {j} /\ Ordered(x)
        BY <3>7 DEF Removed
      <4>2. \A y \in KeysOf(x) : y < t.key
        BY <4>1
      <4>3. j \notin KeysOf(t.right)
        BY <1>1, <2>1
      <4>4. Ordered(h) /\ KeysOf(h) = Rest
        BY <3>4, <4>1, <4>2, <4>3 DEF Built
      <4>5. QED
        BY <3>5, <4>4
    <3>8. QED
      BY <3>2, <3>6, <3>7
  <2>2. CASE t.key < j /\ x = f[t.right][j][b][1] /\ h = HangRight(t, x)
    <3>1. RbGone(t.right, j, x) /\ x # Fault
      BY <1>4, <2>2, HangFacts
    <3>2. x \in Trees /\ KeysOf(x) \subseteq KeysOf(t.right) /\ (Removed(t.right, j, x) \/ Twice(x))
      BY <3>1 DEF RbGone
    <3>3. h = Node(t.key, t.color, t.left, x)
      BY <2>2, <3>2, HangFacts
    <3>4. Built(h, t.key, t.left, x)
      BY <1>1, <3>2, <3>3, Made
    <3>5. KeysOf(h) \subseteq KeysOf(t)
      BY <1>1, <3>2, <3>4 DEF Built
    <3>6. CASE Twice(x)
      BY <1>1, <3>2, <3>3, <3>5, <3>6, TwiceAbove
    <3>7. CASE Removed(t.right, j, x)
      <4>1. KeysOf(x) = KeysOf(t.right) \ {j} /\ Ordered(x)
        BY <3>7 DEF Removed
      <4>2. j \notin KeysOf(t.left) /\ \A y \in KeysOf(t.left) : y < t.key
        BY <1>1, <2>2
      <4>3. Ordered(h) /\ KeysOf(h) = Rest
        BY <3>4, <4>1, <4>2 DEF Built
      <4>4. QED
        BY <3>5, <4>3
    <3>8. QED
      BY <3>2, <3>6, <3>7
  <2>3. QED
    BY <1>2, <2>1, <2>2
<1>6. h \in Trees /\ Mends(h, v) /\ KeysOf(h) \subseteq Keys
  BY <1>2, <1>4, <1>5
<1> HIDE DEF Rest
<1>7. \/ v = Fault
      \/ /\ v \in Trees /\ KeysOf(v) \subseteq KeysOf(h)
         /\ Twice(h) => Twice(v)
         /\ Ordered(h) => (Ordered(v) /\ KeysOf(v) = KeysOf(h)) \/ Twice(v)
  BY <1>6, MendedStill
<1>8. QED
  BY <1>5, <1>7

\* tree_remove of a red-black tree takes one key and keeps the order, as long as
\* what it leaves is a tree: it may dereference a NULL, or share a node.
LEMMA RbRemoves ==
  \A t \in Trees : Ordered(t) /\ KeysOf(t) \subseteq Keys =>
    \A j \in Int : \A b \in BOOLEAN : RbGone(t, j, RbRemove(t, j, b)[1])
<1>1. PICK f \in [Trees -> RbRemovals] : \A s \in Trees : \A j \in Int : \A b \in BOOLEAN :
        RbRemove(s, j, b) = f[s][j][b] /\ f[s][j][b] = RbRemoval(f, s, j, b)
  BY RbRemoveDef
<1> DEFINE Done(s, j, b) == RbGone(s, j, f[s][j][b][1])
           S == {s \in Trees : Ordered(s) /\ KeysOf(s) \subseteq Keys =>
                   \A j \in Int : \A b \in BOOLEAN : Done(s, j, b)}
<1>2. ASSUME NEW t \in Trees, \A s \in Trees : Height(s) < Height(t) => s \in S
      PROVE  t \in S
  <2>1. SUFFICES ASSUME Ordered(t), KeysOf(t) \subseteq Keys, NEW j \in Int, NEW b \in BOOLEAN
                 PROVE  Done(t, j, b)
    OBVIOUS
  <2>2. CASE t = Nil
    <3>1. f[t][j][b] = <<Nil, TRUE>>
      BY <1>1, <2>2 DEF RbRemoval
    <3>2. QED
      BY <2>2, <3>1, NilIsTree, OfNil DEF RbGone, Removed
  <2>3. CASE t # Nil
    <3>1. /\ t.key \in Int /\ t.left \in Trees /\ t.right \in Trees
          /\ KeysOf(t.left) \subseteq Int /\ KeysOf(t.right) \subseteq Int
          /\ KeysOf(t) = {t.key} \cup KeysOf(t.left) \cup KeysOf(t.right)
          /\ Ordered(t.left) /\ Ordered(t.right)
          /\ \A x \in KeysOf(t.left) : x < t.key
          /\ \A x \in KeysOf(t.right) : t.key < x
      BY <2>1, <2>3, TreeParts, KeysAreInts, OfNode
    <3>2. ASSUME NEW i \in Int, NEW d \in BOOLEAN, NEW c \in {t.left, t.right} PROVE Done(c, i, d)
      <4>1. KeysOf(c) \subseteq Keys /\ c \in Trees /\ Height(c) < Height(t) /\ Ordered(c)
        BY <2>1, <2>3, <3>1, TreeParts
      <4>2. QED
        BY <1>2, <4>1
    <3>3. \A s \in Trees : f[s] \in RbRemovals
      OBVIOUS
    <3> HIDE DEF S
    <3>4. CASE t.key # j
      <4>1. f[t][j][b] = RbDown(f, t, j, b)
        BY <1>1, <2>3, <3>4 DEF RbRemoval
      <4> DEFINE v == RbDown(f, t, j, b)[1]
      <4>2. \A c \in {t.left, t.right} : RbGone(c, j, f[c][j][b][1])
        BY <3>2
      <4>3. \/ v = Fault
            \/ /\ v \in Trees /\ KeysOf(v) \subseteq KeysOf(t)
               /\ \/ /\ Ordered(v)
                     /\ KeysOf(v) = {t.key} \cup ((KeysOf(t.left) \cup KeysOf(t.right)) \ {j})
                  \/ Twice(v)
        BY <2>1, <2>3, <3>3, <3>1, <4>2, RbDownRemoves
      <4> HIDE DEF v
      <4>4. RbGone(t, j, v)
        BY <3>1, <3>4, <4>3 DEF RbGone, Removed
      <4>5. QED
        BY <4>1, <4>4 DEF v
    <3>5. CASE t.key = j /\ HalfEmpty(t)
      <4> DEFINE d == b \/ IsRed(t) \/ IsRed(OnlyChild(t))
                 o == OnlyChild(t)  c == Spliced(t)  v == RbDown(f, c, j, d)[1]
      <4>1. d \in BOOLEAN
        OBVIOUS
      <4>2. f[t][j][b] = RbDown(f, c, j, d)
        BY <1>1, <2>3, <3>5 DEF RbRemoval
      <4> HIDE DEF d
      <4>3. o \in Trees /\ Ordered(o) /\ KeysOf(o) = KeysOf(t) \ {j} /\ Height(o) < Height(t)
        <5>1. t.left = Nil => KeysOf(t.left) = {}
          BY OfNil
        <5>2. t.right = Nil => KeysOf(t.right) = {}
          BY OfNil
        <5>3. Height(o) < Height(t) /\ o \in Trees
          BY <2>3, OnlyChildIsTree
        <5>4. QED
          BY <3>1, <3>5, <5>1, <5>2, <5>3 DEF OnlyChild, HalfEmpty
      <4>4. /\ Keeps(o, c) /\ (c = Nil <=> o = Nil)
            /\ o # Nil => c.key = o.key /\ c.left = o.left /\ c.right = o.right
        BY <2>3, SplicedIsTree
      <4>5. c \in Trees /\ Ordered(c) /\ KeysOf(c) = KeysOf(t) \ {j}
        BY <4>3, <4>4 DEF Keeps
      <4> HIDE DEF o, c
      <4>6. CASE c = Nil
        <5>1. v = Nil
          BY <4>6 DEF RbDown
        <5> HIDE DEF v
        <5>2. RbGone(t, j, v)
          BY <4>5, <4>6, <5>1, OfNil DEF RbGone, Removed
        <5>3. QED
          BY <4>2, <5>2 DEF v
      <4>7. CASE c # Nil
        <5>1. /\ c.key \in Int /\ c.left \in Trees /\ c.right \in Trees
              /\ KeysOf(c) = {c.key} \cup KeysOf(c.left) \cup KeysOf(c.right)
              /\ Ordered(c.left) /\ Ordered(c.right)
              /\ \A x \in KeysOf(c.left) : x < c.key
              /\ \A x \in KeysOf(c.right) : c.key < x
          BY <4>5, <4>7, TreeParts, OfNode
        <5>2. ASSUME NEW e \in {c.left, c.right} PROVE RbGone(e, j, f[e][j][d][1])
          <6>1. o # Nil /\ e \in {o.left, o.right}
            BY <4>4, <4>7
          <6>2. e \in Trees /\ Height(e) < Height(o)
            BY <4>3, <6>1, TreeParts
          <6>3. Height(e) < Height(t)
            BY <4>3, <6>2, HeightIsLeast
          <6>4. KeysOf(e) \subseteq Keys /\ Ordered(e)
            BY <2>1, <4>5, <5>1
          <6>5. QED
            BY <1>2, <4>1, <6>2, <6>3, <6>4 DEF S
        <5>3. KeysOf(c) \subseteq Keys
          BY <2>1, <4>5
        <5>4. \/ v = Fault
              \/ /\ v \in Trees /\ KeysOf(v) \subseteq KeysOf(c)
                 /\ \/ /\ Ordered(v)
                       /\ KeysOf(v) = {c.key} \cup ((KeysOf(c.left) \cup KeysOf(c.right)) \ {j})
                    \/ Twice(v)
          <6>1. \A x \in KeysOf(c.left) : x < c.key \/ (x = j /\ j = c.key)
            BY <5>1
          <6>2. QED
            BY <3>3, <4>1, <4>5, <4>7, <5>1, <5>2, <5>3, <6>1, RbDownRemoves
        <5> HIDE DEF v
        <5>5. RbGone(t, j, v)
          BY <4>5, <5>1, <5>4 DEF RbGone, Removed
        <5>6. QED
          BY <4>2, <5>5 DEF v
      <4>8. QED
        BY <4>6, <4>7
    <3>6. CASE t.key = j /\ ~HalfEmpty(t)
      <4> DEFINE s == TakesLargest(t)  m == Largest(t.left).key  v == RbDown(f, s, m, b)[1]
      <4>1. f[t][j][b] = RbDown(f, s, m, b)
        BY <1>1, <2>3, <3>6 DEF RbRemoval
      <4>2. /\ s \in Trees /\ s # Nil /\ s.key = m /\ s.left = t.left /\ s.right = t.right /\ m \in Int
        BY <2>3, <3>6, TakesLargestIsTree
      <4>3. m \in KeysOf(t.left) /\ \A x \in KeysOf(t.left) : x <= m
        BY <3>1, <3>6, LargestIsLast DEF HalfEmpty
      <4> HIDE DEF s, m
      <4>4. \A x \in KeysOf(s.left) : x < s.key \/ (x = m /\ m = s.key)
        BY <3>1, <4>2, <4>3
      <4>5. \A x \in KeysOf(s.right) : s.key < x
        <5>1. m < j
          BY <3>1, <3>6, <4>3
        <5>2. \A x \in KeysOf(t.right) : x \in Int /\ j < x
          BY <3>1, <3>6
        <5>3. QED
          BY <4>2, <5>1, <5>2
      <4>6. \A c \in {s.left, s.right} : RbGone(c, m, f[c][m][b][1])
        BY <3>2, <4>2
      <4>7. KeysOf(s) = KeysOf(t) \ {j}
        <5>1. KeysOf(s) = {m} \cup KeysOf(t.left) \cup KeysOf(t.right)
          BY <4>2, OfNode
        <5>2. QED
          BY <3>1, <3>6, <4>3, <5>1
      <4>8. {m} \cup ((KeysOf(t.left) \cup KeysOf(t.right)) \ {m}) = KeysOf(t) \ {j}
        BY <3>1, <3>6, <4>3
      <4>9. \/ v = Fault
            \/ /\ v \in Trees /\ KeysOf(v) \subseteq KeysOf(s)
               /\ \/ /\ Ordered(v)
                     /\ KeysOf(v) = {s.key} \cup ((KeysOf(s.left) \cup KeysOf(s.right)) \ {m})
                  \/ Twice(v)
        <5>1. Ordered(s.left) /\ Ordered(s.right) /\ KeysOf(s) \subseteq Keys
          BY <2>1, <3>1, <4>2, <4>7
        <5>2. f[s.left] \in RbRemovals /\ f[s.right] \in RbRemovals
          BY <3>3, <3>1, <4>2
        <5>3. QED
          BY <4>2, <4>4, <4>5, <4>6, <5>1, <5>2, RbDownRemoves
      <4> HIDE DEF v
      <4>10. RbGone(t, j, v)
        BY <4>2, <4>7, <4>8, <4>9 DEF RbGone, Removed
      <4>11. QED
        BY <4>1, <4>10 DEF v
    <3>7. QED
      BY <3>4, <3>5, <3>6
  <2>4. QED
    BY <2>2, <2>3
<1> HIDE DEF S
<1>3. Trees \subseteq S
  BY <1>2, TreeInduction
<1>4. QED
  BY <1>1, <1>3 DEF S

-----------------------------------------------------------------------------
(* AVL tree: what an attachment does to the balance.                       *)

\* The height of a node with these two trees, and whether it is balanced.
Weighs(t, l, r) ==
  /\ t \in Trees
  /\ Height(t) = 1 + (IF Height(l) > Height(r) THEN Height(l) ELSE Height(r))
  /\ ~Leans(t) <=> Height(l) - Height(r) \in -1 .. 1
  /\ Balanced(t) <=> Balanced(l) /\ Balanced(r) /\ ~Leans(t)

\* The height and tilt of a node made of two trees.
LEMMA Weighed ==
  ASSUME NEW k \in Int, NEW c \in Colors, NEW l \in Trees, NEW r \in Trees, NEW t,
         t = Node(k, c, l, r)
  PROVE  Weighs(t, l, r)
<1>1. t \in Trees /\ t # Nil /\ t.left = l /\ t.right = r
  BY NodeParts
<1>2. Nodes(t) = {t} \cup Nodes(l) \cup Nodes(r)
  BY <1>1, NodesDef
<1>3. Height(t) = 1 + (IF Height(l) > Height(r) THEN Height(l) ELSE Height(r))
  BY NodeIsTree
<1>4. ~Leans(t) <=> Height(l) - Height(r) \in -1 .. 1
  BY <1>1 DEF Leans, Tilt
<1>5. QED
  BY <1>1, <1>2, <1>3, <1>4 DEF Balanced, Weighs

\* The height and tilt of a node.
LEMMA WeighedNode ==
  ASSUME NEW t \in Trees, t # Nil
  PROVE  Weighs(t, t.left, t.right)
<1>1. /\ t.key \in Int /\ t.color \in Colors /\ t.left \in Trees /\ t.right \in Trees
      /\ t = Node(t.key, t.color, t.left, t.right)
  BY TreeParts
<1> DEFINE k == t.key  c == t.color  l == t.left  r == t.right
<1> HIDE DEF k, c, l, r
<1>2. k \in Int /\ c \in Colors /\ l \in Trees /\ r \in Trees /\ t = Node(k, c, l, r)
  BY <1>1 DEF k, c, l, r
<1>3. Weighs(t, l, r)
  BY <1>2, Weighed
<1>4. QED
  BY <1>3 DEF l, r

\* Two balanced trees of nearly the same height make one.
LEMMA Stacked ==
  ASSUME NEW k \in Int, NEW c \in Colors, NEW l \in Trees, NEW r \in Trees, NEW t,
         t = Node(k, c, l, r), Balanced(l), Balanced(r), NEW h \in Nat,
         Height(l) \in {h, h - 1}, Height(r) \in {h, h - 1}, h \in {Height(l), Height(r)}
  PROVE  t \in Trees /\ Height(t) = h + 1 /\ Balanced(t)
<1>1. /\ t \in Trees
      /\ Height(t) = 1 + (IF Height(l) > Height(r) THEN Height(l) ELSE Height(r))
      /\ ~Leans(t) <=> Height(l) - Height(r) \in -1 .. 1
      /\ Balanced(t) <=> Balanced(l) /\ Balanced(r) /\ ~Leans(t)
  <2>1. Weighs(t, l, r)
    BY Weighed
  <2>2. QED
    BY <2>1 DEF Weighs
<1>2. Height(l) - Height(r) \in -1 .. 1
  OBVIOUS
<1>3. Height(t) = h + 1
  BY <1>1
<1>4. QED
  BY <1>1, <1>2, <1>3

\* A tree that grew higher is higher on the side of the new key.
Tips(a, k) ==
  IF k < a.key THEN Height(a.left) = Height(a.right) + 1
  ELSE Height(a.right) = Height(a.left) + 1

\* A turn after a key was attached on the left.
LEMMA BalanceOnTheLeft ==
  ASSUME NEW t \in Trees, t # Nil, NEW k \in Int, k < t.key,
         Balanced(t), NEW a \in Trees, Balanced(a), a # Nil, a.key \in Int,
         Height(a) \in {Height(t.left), Height(t.left) + 1},
         Height(a) = Height(t.left) + 1 /\ t.left # Nil => Tips(a, k),
         NEW n, n = Node(t.key, t.color, a, t.right)
  PROVE  /\ ~Leans(n) => /\ Balanced(n) /\ Height(n) \in {Height(t), Height(t) + 1}
                         /\ Height(n) = Height(t) + 1 => Tips(n, k)
         /\ Leans(n) => /\ AvlTurn(n, k) \in Trees /\ Balanced(AvlTurn(n, k))
                        /\ Height(AvlTurn(n, k)) = Height(t)
<1> DEFINE hl == Height(t.left)  hr == Height(t.right)
<1>1. /\ t.key \in Int /\ t.color \in Colors /\ t.left \in Trees /\ t.right \in Trees
      /\ hl \in Nat /\ hr \in Nat
  BY TreeParts, HeightIsLeast
<1>2. /\ Balanced(t.left) /\ Balanced(t.right) /\ hl - hr \in -1 .. 1
      /\ Height(t) = 1 + (IF hl > hr THEN hl ELSE hr)
  <2>1. /\ Height(t) = 1 + (IF Height(t.left) > Height(t.right) THEN Height(t.left) ELSE Height(t.right))
        /\ Balanced(t.left) /\ Balanced(t.right) /\ Height(t.left) - Height(t.right) \in -1 .. 1
    BY WeighedNode DEF Weighs
  <2>2. QED
    BY <1>1, <2>1
<1>3. /\ n \in Trees /\ n # Nil /\ n.key = t.key /\ n.left = a /\ n.right = t.right
  BY <1>1, NodeParts
<1>4. /\ Height(n) = 1 + (IF Height(a) > hr THEN Height(a) ELSE hr)
      /\ Balanced(n) <=> ~Leans(n)
      /\ ~Leans(n) <=> Height(a) - hr \in -1 .. 1
      /\ Height(a) \in Nat
  <2>1. /\ Height(n) = 1 + (IF Height(n.left) > Height(n.right) THEN Height(n.left) ELSE Height(n.right))
        /\ Balanced(n) <=> Balanced(n.left) /\ Balanced(n.right) /\ ~Leans(n)
        /\ ~Leans(n) <=> Height(n.left) - Height(n.right) \in -1 .. 1
    BY <1>3, WeighedNode DEF Weighs
  <2>2. Height(a) \in Nat
    BY HeightIsLeast
  <2>3. QED
    BY <1>1, <1>2, <1>3, <2>1, <2>2
<1>5. CASE ~Leans(n)
  <2>1. Height(n) \in {Height(t), Height(t) + 1}
    BY <1>1, <1>2, <1>4
  <2>2. Height(n) = Height(t) + 1 => Height(n.left) = Height(n.right) + 1
    BY <1>1, <1>2, <1>3, <1>4, <1>5
  <2>3. QED
    BY <1>3, <1>4, <1>5, <2>1, <2>2 DEF Tips
<1>6. CASE Leans(n)
  <2>1. Height(a) = hr + 2 /\ hl = hr + 1 /\ Height(t) = hr + 2 /\ t.left # Nil
    <3>1. Height(a) = hr + 2 /\ hl = hr + 1 /\ Height(t) = hr + 2
      BY <1>1, <1>2, <1>4, <1>6
    <3>2. QED
      BY <1>1, <3>1, NilIsTree
  <2>2. Tips(a, k)
    <3>1. Height(a) = Height(t.left) + 1
      BY <1>1, <2>1
    <3>2. QED
      BY <2>1, <3>1
  <2> DEFINE l == a.left  r == a.right
  <2>3. /\ a.color \in Colors /\ l \in Trees /\ r \in Trees /\ Height(l) \in Nat /\ Height(r) \in Nat
        /\ Height(a) = 1 + (IF Height(l) > Height(r) THEN Height(l) ELSE Height(r))
        /\ Balanced(l) /\ Balanced(r)
    BY TreeParts, HeightIsLeast, WeighedNode DEF Weighs
  <2>4. CASE k < a.key
    <3>1. Height(a.left) = hr + 1 /\ Height(a.right) = hr
      BY <1>1, <2>1, <2>2, <2>3, <2>4 DEF Tips
    <3>2. AvlTurn(n, k) = RotLL(n)
      BY <1>1, <1>3, <1>6, <2>4 DEF AvlTurn
    <3> DEFINE m == Node(t.key, t.color, a.right, t.right)
    <3>3. RotLL(n) = Node(a.key, a.color, a.left, m)
      <4>1. n.color = t.color
        BY <1>1, NodeParts
      <4>2. QED
        BY <1>3, <4>1, ShapeLL
    <3>4. m \in Trees /\ Height(m) = hr + 1 /\ Balanced(m)
      <4>1. hr \in {hr, hr - 1}
        OBVIOUS
      <4> HIDE DEF hr
      <4>2. QED
        BY <1>1, <1>2, <2>3, <3>1, <4>1, Stacked DEF hr
    <3> DEFINE u == AvlTurn(n, k)
    <3>5. u = Node(a.key, a.color, a.left, m)
      BY <3>2, <3>3
    <3> HIDE DEF m, u
    <3>6. u \in Trees /\ Height(u) = hr + 2 /\ Balanced(u)
      <4>1. hr + 1 \in Nat /\ hr + 1 \in {hr + 1, hr + 1 - 1}
        BY <1>1
      <4> HIDE DEF hr
      <4>2. Height(u) = hr + 1 + 1 /\ u \in Trees /\ Balanced(u)
        BY <2>3, <3>1, <3>4, <3>5, <4>1, Stacked
      <4>3. QED
        BY <1>1, <4>2
    <3>7. QED
      BY <1>6, <2>1, <3>6 DEF u
  <2>5. CASE ~(k < a.key)
    <3>1. Height(a.right) = hr + 1 /\ Height(a.left) = hr
      BY <1>1, <2>1, <2>2, <2>3, <2>5 DEF Tips
    <3>2. AvlTurn(n, k) = RotLR(n)
      BY <1>1, <1>3, <1>6, <2>5 DEF AvlTurn
    <3> DEFINE y == a.right
    <3>3. /\ y # Nil /\ y.key \in Int /\ y.color \in Colors /\ y.left \in Trees /\ y.right \in Trees
          /\ Height(y.left) \in Nat /\ Height(y.right) \in Nat
          /\ Balanced(y.left) /\ Balanced(y.right)
          /\ Height(y.left) \in {hr, hr - 1} /\ Height(y.right) \in {hr, hr - 1}
      <4>1. y # Nil /\ y \in Trees
        BY <1>1, <2>3, <3>1, NilIsTree
      <4> HIDE DEF y
      <4>2. /\ y.key \in Int /\ y.color \in Colors /\ y.left \in Trees /\ y.right \in Trees
            /\ Height(y.left) \in Nat /\ Height(y.right) \in Nat
        BY <4>1, TreeParts, HeightIsLeast
      <4>3. /\ Height(y) = 1 + (IF Height(y.left) > Height(y.right) THEN Height(y.left) ELSE Height(y.right))
            /\ Balanced(y.left) /\ Balanced(y.right) /\ Height(y.left) - Height(y.right) \in -1 .. 1
        BY <2>3, <4>1, WeighedNode DEF Weighs, y
      <4>4. Height(y) = hr + 1
        BY <3>1 DEF y
      <4> HIDE DEF hr
      <4>5. QED
        BY <1>1, <4>1, <4>2, <4>3, <4>4
    <3> DEFINE p == Node(a.key, a.color, a.left, y.left)
               q == Node(t.key, t.color, y.right, t.right)
    <3>4. RotLR(n) = Node(y.key, y.color, p, q)
      <4>1. n.color = t.color
        BY <1>1, NodeParts
      <4>2. QED
        BY <1>3, <3>3, <4>1, ShapeLR
    <3>5. p \in Trees /\ Height(p) = hr + 1 /\ Balanced(p)
      <4>1. hr \in {hr, hr - 1}
        OBVIOUS
      <4> HIDE DEF hr, y
      <4>2. QED
        BY <1>1, <1>2, <2>3, <3>1, <3>3, <4>1, Stacked DEF hr
    <3>6. q \in Trees /\ Height(q) = hr + 1 /\ Balanced(q)
      <4>1. hr \in {hr, hr - 1}
        OBVIOUS
      <4> HIDE DEF hr, y
      <4>2. QED
        BY <1>1, <1>2, <2>3, <3>1, <3>3, <4>1, Stacked DEF hr
    <3> DEFINE u == AvlTurn(n, k)
    <3>7. u = Node(y.key, y.color, p, q)
      BY <3>2, <3>4
    <3> HIDE DEF p, q, u
    <3>8. u \in Trees /\ Height(u) = hr + 2 /\ Balanced(u)
      <4>1. hr + 1 \in Nat /\ hr + 1 \in {hr + 1, hr + 1 - 1}
        BY <1>1
      <4> HIDE DEF hr, y
      <4>2. Height(u) = hr + 1 + 1 /\ u \in Trees /\ Balanced(u)
        BY <3>3, <3>5, <3>6, <3>7, <4>1, Stacked
      <4>3. QED
        BY <1>1, <4>2
    <3>9. QED
      BY <1>6, <2>1, <3>8 DEF u
  <2>6. QED
    BY <2>4, <2>5
<1>7. QED
  BY <1>5, <1>6

\* A turn after a key was attached on the right.
LEMMA BalanceOnTheRight ==
  ASSUME NEW t \in Trees, t # Nil, NEW k \in Int, ~(k < t.key),
         Balanced(t), NEW a \in Trees, Balanced(a), a # Nil, a.key \in Int,
         Height(a) \in {Height(t.right), Height(t.right) + 1},
         Height(a) = Height(t.right) + 1 /\ t.right # Nil => Tips(a, k),
         NEW n, n = Node(t.key, t.color, t.left, a)
  PROVE  /\ ~Leans(n) => /\ Balanced(n) /\ Height(n) \in {Height(t), Height(t) + 1}
                         /\ Height(n) = Height(t) + 1 => Tips(n, k)
         /\ Leans(n) => /\ AvlTurn(n, k) \in Trees /\ Balanced(AvlTurn(n, k))
                        /\ Height(AvlTurn(n, k)) = Height(t)
<1> DEFINE hl == Height(t.right)  hr == Height(t.left)
<1>1. /\ t.key \in Int /\ t.color \in Colors /\ t.left \in Trees /\ t.right \in Trees
      /\ hl \in Nat /\ hr \in Nat
  BY TreeParts, HeightIsLeast
<1>2. /\ Balanced(t.left) /\ Balanced(t.right) /\ hl - hr \in -1 .. 1
      /\ Height(t) = 1 + (IF hl > hr THEN hl ELSE hr)
  <2>1. /\ Height(t) = 1 + (IF Height(t.left) > Height(t.right) THEN Height(t.left) ELSE Height(t.right))
        /\ Balanced(t.left) /\ Balanced(t.right) /\ Height(t.left) - Height(t.right) \in -1 .. 1
    BY WeighedNode DEF Weighs
  <2>2. QED
    BY <1>1, <2>1
<1>3. /\ n \in Trees /\ n # Nil /\ n.key = t.key /\ n.right = a /\ n.left = t.left
  BY <1>1, NodeParts
<1>4. /\ Height(n) = 1 + (IF Height(a) > hr THEN Height(a) ELSE hr)
      /\ Balanced(n) <=> ~Leans(n)
      /\ ~Leans(n) <=> Height(a) - hr \in -1 .. 1
      /\ Height(a) \in Nat
  <2>1. /\ Height(n) = 1 + (IF Height(n.left) > Height(n.right) THEN Height(n.left) ELSE Height(n.right))
        /\ Balanced(n) <=> Balanced(n.left) /\ Balanced(n.right) /\ ~Leans(n)
        /\ ~Leans(n) <=> Height(n.left) - Height(n.right) \in -1 .. 1
    BY <1>3, WeighedNode DEF Weighs
  <2>2. Height(a) \in Nat
    BY HeightIsLeast
  <2>3. QED
    BY <1>1, <1>2, <1>3, <2>1, <2>2
<1>5. CASE ~Leans(n)
  <2>1. Height(n) \in {Height(t), Height(t) + 1}
    BY <1>1, <1>2, <1>4
  <2>2. Height(n) = Height(t) + 1 => Height(n.right) = Height(n.left) + 1
    BY <1>1, <1>2, <1>3, <1>4, <1>5
  <2>3. QED
    BY <1>3, <1>4, <1>5, <2>1, <2>2 DEF Tips
<1>6. CASE Leans(n)
  <2>1. Height(a) = hr + 2 /\ hl = hr + 1 /\ Height(t) = hr + 2 /\ t.right # Nil
    <3>1. Height(a) = hr + 2 /\ hl = hr + 1 /\ Height(t) = hr + 2
      BY <1>1, <1>2, <1>4, <1>6
    <3>2. QED
      BY <1>1, <3>1, NilIsTree
  <2>2. Tips(a, k)
    <3>1. Height(a) = Height(t.right) + 1
      BY <1>1, <2>1
    <3>2. QED
      BY <2>1, <3>1
  <2> DEFINE l == a.left  r == a.right
  <2>3. /\ a.color \in Colors /\ l \in Trees /\ r \in Trees /\ Height(l) \in Nat /\ Height(r) \in Nat
        /\ Height(a) = 1 + (IF Height(l) > Height(r) THEN Height(l) ELSE Height(r))
        /\ Balanced(l) /\ Balanced(r)
    BY TreeParts, HeightIsLeast, WeighedNode DEF Weighs
  <2>4. CASE ~(k < a.key)
    <3>1. Height(a.right) = hr + 1 /\ Height(a.left) = hr
      BY <1>1, <2>1, <2>2, <2>3, <2>4 DEF Tips
    <3>2. AvlTurn(n, k) = RotRR(n)
      BY <1>1, <1>3, <1>6, <2>4 DEF AvlTurn
    <3> DEFINE m == Node(t.key, t.color, t.left, a.left)
    <3>3. RotRR(n) = Node(a.key, a.color, m, a.right)
      <4>1. n.color = t.color
        BY <1>1, NodeParts
      <4>2. QED
        BY <1>3, <4>1, ShapeRR
    <3>4. m \in Trees /\ Height(m) = hr + 1 /\ Balanced(m)
      <4>1. hr \in {hr, hr - 1}
        OBVIOUS
      <4> HIDE DEF hr
      <4>2. QED
        BY <1>1, <1>2, <2>3, <3>1, <4>1, Stacked DEF hr
    <3> DEFINE u == AvlTurn(n, k)
    <3>5. u = Node(a.key, a.color, m, a.right)
      BY <3>2, <3>3
    <3> HIDE DEF m, u
    <3>6. u \in Trees /\ Height(u) = hr + 2 /\ Balanced(u)
      <4>1. hr + 1 \in Nat /\ hr + 1 \in {hr + 1, hr + 1 - 1}
        BY <1>1
      <4> HIDE DEF hr
      <4>2. Height(u) = hr + 1 + 1 /\ u \in Trees /\ Balanced(u)
        BY <2>3, <3>1, <3>4, <3>5, <4>1, Stacked
      <4>3. QED
        BY <1>1, <4>2
    <3>7. QED
      BY <1>6, <2>1, <3>6 DEF u
  <2>5. CASE k < a.key
    <3>1. Height(a.left) = hr + 1 /\ Height(a.right) = hr
      BY <1>1, <2>1, <2>2, <2>3, <2>5 DEF Tips
    <3>2. AvlTurn(n, k) = RotRL(n)
      BY <1>1, <1>3, <1>6, <2>5 DEF AvlTurn
    <3> DEFINE y == a.left
    <3>3. /\ y # Nil /\ y.key \in Int /\ y.color \in Colors /\ y.left \in Trees /\ y.right \in Trees
          /\ Height(y.left) \in Nat /\ Height(y.right) \in Nat
          /\ Balanced(y.left) /\ Balanced(y.right)
          /\ Height(y.left) \in {hr, hr - 1} /\ Height(y.right) \in {hr, hr - 1}
      <4>1. y # Nil /\ y \in Trees
        BY <1>1, <2>3, <3>1, NilIsTree
      <4> HIDE DEF y
      <4>2. /\ y.key \in Int /\ y.color \in Colors /\ y.left \in Trees /\ y.right \in Trees
            /\ Height(y.left) \in Nat /\ Height(y.right) \in Nat
        BY <4>1, TreeParts, HeightIsLeast
      <4>3. /\ Height(y) = 1 + (IF Height(y.left) > Height(y.right) THEN Height(y.left) ELSE Height(y.right))
            /\ Balanced(y.left) /\ Balanced(y.right) /\ Height(y.left) - Height(y.right) \in -1 .. 1
        BY <2>3, <4>1, WeighedNode DEF Weighs, y
      <4>4. Height(y) = hr + 1
        BY <3>1 DEF y
      <4> HIDE DEF hr
      <4>5. QED
        BY <1>1, <4>1, <4>2, <4>3, <4>4
    <3> DEFINE p == Node(t.key, t.color, t.left, y.left)
               q == Node(a.key, a.color, y.right, a.right)
    <3>4. RotRL(n) = Node(y.key, y.color, p, q)
      <4>1. n.color = t.color
        BY <1>1, NodeParts
      <4>2. QED
        BY <1>3, <3>3, <4>1, ShapeRL
    <3>5. p \in Trees /\ Height(p) = hr + 1 /\ Balanced(p)
      <4>1. hr \in {hr, hr - 1}
        OBVIOUS
      <4> HIDE DEF hr, y
      <4>2. QED
        BY <1>1, <1>2, <2>3, <3>1, <3>3, <4>1, Stacked DEF hr
    <3>6. q \in Trees /\ Height(q) = hr + 1 /\ Balanced(q)
      <4>1. hr \in {hr, hr - 1}
        OBVIOUS
      <4> HIDE DEF hr, y
      <4>2. QED
        BY <1>1, <1>2, <2>3, <3>1, <3>3, <4>1, Stacked DEF hr
    <3> DEFINE u == AvlTurn(n, k)
    <3>7. u = Node(y.key, y.color, p, q)
      BY <3>2, <3>4
    <3> HIDE DEF p, q, u
    <3>8. u \in Trees /\ Height(u) = hr + 2 /\ Balanced(u)
      <4>1. hr + 1 \in Nat /\ hr + 1 \in {hr + 1, hr + 1 - 1}
        BY <1>1
      <4> HIDE DEF hr, y
      <4>2. Height(u) = hr + 1 + 1 /\ u \in Trees /\ Balanced(u)
        BY <3>3, <3>5, <3>6, <3>7, <4>1, Stacked
      <4>3. QED
        BY <1>1, <4>2
    <3>9. QED
      BY <1>6, <2>1, <3>8 DEF u
  <2>6. QED
    BY <2>4, <2>5
<1>7. QED
  BY <1>5, <1>6

\* A node leans on the way to k when it leans itself, or one further down the way does.
LEMMA WayOf ==
  ASSUME NEW k \in Int
  PROVE  /\ ~OnTheWay(Nil, k)
         /\ \A t \in Trees : t # Nil =>
              (OnTheWay(t, k) <=> Leans(t) \/ OnTheWay(IF k < t.key THEN t.left ELSE t.right, k))
<1>1. Way(Nil, k) = {}
  BY NilIsTree, WayDef
<1>2. ASSUME NEW t \in Trees, t # Nil
      PROVE  OnTheWay(t, k) <=> Leans(t) \/ OnTheWay(IF k < t.key THEN t.left ELSE t.right, k)
  <2>1. Way(t, k) = {t} \cup Way(IF k < t.key THEN t.left ELSE t.right, k)
    BY <1>2, WayDef
  <2>2. QED
    BY <2>1 DEF OnTheWay
<1>3. QED
  BY <1>1, <1>2 DEF OnTheWay

\* What attaching a key to the balanced tree t makes of it before (a) and after
\* (r) the turn.
Rebalanced(t, a, r, k) ==
  /\ OnTheWay(a, k) => r \in Trees /\ Balanced(r) /\ Height(r) = Height(t)
  /\ ~OnTheWay(a, k) => /\ r = a /\ Balanced(a) /\ Height(a) \in {Height(t), Height(t) + 1}
                        /\ Height(a) = Height(t) + 1 /\ t # Nil => Tips(a, k)

\* AvlRebalance after Attach gives back a balanced tree whose height is that of one or
\* the other.
LEMMA AvlAttachRebalances ==
  ASSUME NEW k \in Int
  PROVE  \A t \in Trees : Balanced(t) =>
           Rebalanced(t, Attach(t, k), AvlRebalance(Attach(t, k), k), k)
<1> DEFINE P(t) == Rebalanced(t, Attach(t, k), AvlRebalance(Attach(t, k), k), k)
           S == {t \in Trees : Balanced(t) => P(t)}
<1>1. Nil \in S
  <2> DEFINE a == Leaf(k, "black")
  <2>1. Attach(Nil, k) = a
    BY NilIsTree, AttachDef
  <2>2. /\ a \in Trees /\ a # Nil /\ a.key = k /\ a.left = Nil /\ a.right = Nil
        /\ Balanced(a) /\ ~Leans(a) /\ Height(a) = 1
    <3>1. a = Node(k, "black", Nil, Nil)
      BY DEF Leaf
    <3> HIDE DEF a
    <3>2. a \in Trees /\ a # Nil /\ a.key = k /\ a.left = Nil /\ a.right = Nil
      BY <3>1, NilIsTree, BlackAndRed, NodeParts
    <3>3. Weighs(a, Nil, Nil)
      BY <3>1, NilIsTree, BlackAndRed, Weighed
    <3>4. Balanced(Nil)
      BY OfNil DEF Balanced
    <3>5. QED
      BY <3>2, <3>3, <3>4, NilIsTree DEF Weighs
  <2> HIDE DEF a
  <2>3. ~OnTheWay(a, k)
    BY <2>2, WayOf
  <2>4. AvlRebalance(a, k) = a
    <3>1. AvlRebalance(a, k) = AvlTurn(a, k)
      BY <2>2, AvlRebalanceDef, WayOf
    <3>2. QED
      BY <2>2, <3>1 DEF AvlTurn
  <2>5. Rebalanced(Nil, a, AvlRebalance(a, k), k)
    BY <2>2, <2>3, <2>4, NilIsTree DEF Rebalanced
  <2>6. QED
    BY <2>1, <2>5, NilIsTree
<1>2. ASSUME NEW t \in Trees, t # Nil, t.left \in S, t.right \in S PROVE t \in S
  <2>1. SUFFICES ASSUME Balanced(t) PROVE P(t)
    OBVIOUS
  <2> DEFINE n == Attach(t, k)
  <2>2. /\ t.key \in Int /\ t.color \in Colors /\ t.left \in Trees /\ t.right \in Trees
        /\ Height(t.left) \in Nat /\ Height(t.right) \in Nat /\ Weighs(t, t.left, t.right)
        /\ Balanced(t.left) /\ Balanced(t.right)
    BY <1>2, <2>1, TreeParts, HeightIsLeast, WeighedNode DEF Weighs
  <2>3. CASE k < t.key
    <3> DEFINE a == Attach(t.left, k)  r == AvlRebalance(a, k)
    <3>1. a \in Trees /\ a # Nil /\ a.key \in Int
      BY <2>2, AttachAdds, TreeParts
    <3>2. Rebalanced(t.left, a, r, k)
      BY <1>2, <2>2
    <3>3. n = Node(t.key, t.color, a, t.right)
      BY <1>2, <2>3, <3>1, AttachDef, HangFacts
    <3> HIDE DEF n, a, r
    <3>4. n \in Trees /\ n # Nil /\ n.key = t.key /\ n.left = a /\ n.right = t.right /\ n.color = t.color
      BY <2>2, <3>1, <3>3, NodeParts
    <3>5. OnTheWay(n, k) <=> Leans(n) \/ OnTheWay(a, k)
      BY <2>3, <3>4, WayOf
    <3>6. AvlRebalance(n, k) = IF ~OnTheWay(a, k) THEN AvlTurn(n, k) ELSE HangLeft(n, r)
      BY <2>3, <3>4, AvlRebalanceDef DEF r
    <3>7. CASE OnTheWay(a, k)
      <4>1. r \in Trees /\ Balanced(r) /\ Height(r) = Height(t.left)
        BY <3>2, <3>7 DEF Rebalanced
      <4> DEFINE u == AvlRebalance(n, k)
      <4>2. u = Node(t.key, t.color, r, t.right)
        BY <3>4, <3>6, <3>7, <4>1, HangFacts
      <4> HIDE DEF u
      <4>3. Weighs(u, r, t.right)
        BY <2>2, <4>1, <4>2, Weighed
      <4>4. u \in Trees /\ Balanced(u) /\ Height(u) = Height(t)
        BY <2>1, <2>2, <4>1, <4>3 DEF Weighs
      <4>5. Rebalanced(t, n, u, k)
        BY <3>5, <3>7, <4>4 DEF Rebalanced
      <4>6. QED
        BY <4>5 DEF u, n
    <3>8. CASE ~OnTheWay(a, k)
      <4> DEFINE u == AvlRebalance(n, k)
      <4>1. /\ Balanced(a) /\ Height(a) \in {Height(t.left), Height(t.left) + 1}
            /\ Height(a) = Height(t.left) + 1 /\ t.left # Nil => Tips(a, k)
        BY <3>2, <3>8 DEF Rebalanced
      <4>2. /\ ~Leans(n) => /\ Balanced(n) /\ Height(n) \in {Height(t), Height(t) + 1}
                            /\ Height(n) = Height(t) + 1 => Tips(n, k)
            /\ Leans(n) => /\ AvlTurn(n, k) \in Trees /\ Balanced(AvlTurn(n, k))
                           /\ Height(AvlTurn(n, k)) = Height(t)
        BY <1>2, <2>1, <2>3, <3>1, <3>3, <4>1, BalanceOnTheLeft
      <4>3. u = AvlTurn(n, k)
        BY <3>6, <3>8
      <4>4. ~Leans(n) => u = n
        BY <4>3 DEF AvlTurn
      <4> HIDE DEF u
      <4>5. Rebalanced(t, n, u, k)
        BY <3>5, <3>8, <4>2, <4>3, <4>4 DEF Rebalanced
      <4>6. QED
        BY <4>5 DEF u, n
    <3>9. QED
      BY <3>7, <3>8
  <2>4. CASE ~(k < t.key)
    <3> DEFINE a == Attach(t.right, k)  r == AvlRebalance(a, k)
    <3>1. a \in Trees /\ a # Nil /\ a.key \in Int
      BY <2>2, AttachAdds, TreeParts
    <3>2. Rebalanced(t.right, a, r, k)
      BY <1>2, <2>2
    <3>3. n = Node(t.key, t.color, t.left, a)
      <4>1. n = HangRight(t, a)
        BY <1>2, <2>4, AttachDef
      <4> HIDE DEF a, n
      <4>2. QED
        BY <1>2, <3>1, <4>1, HangFacts
    <3> HIDE DEF n, a, r
    <3>4. n \in Trees /\ n # Nil /\ n.key = t.key /\ n.left = t.left /\ n.right = a /\ n.color = t.color
      BY <2>2, <3>1, <3>3, NodeParts
    <3>5. OnTheWay(n, k) <=> Leans(n) \/ OnTheWay(a, k)
      BY <2>4, <3>4, WayOf
    <3>6. AvlRebalance(n, k) = IF ~OnTheWay(a, k) THEN AvlTurn(n, k) ELSE HangRight(n, r)
      BY <2>4, <3>4, AvlRebalanceDef DEF r
    <3>7. CASE OnTheWay(a, k)
      <4>1. r \in Trees /\ Balanced(r) /\ Height(r) = Height(t.right)
        BY <3>2, <3>7 DEF Rebalanced
      <4> DEFINE u == AvlRebalance(n, k)
      <4>2. u = Node(t.key, t.color, t.left, r)
        BY <3>4, <3>6, <3>7, <4>1, HangFacts
      <4> HIDE DEF u
      <4>3. Weighs(u, t.left, r)
        BY <2>2, <4>1, <4>2, Weighed
      <4>4. u \in Trees /\ Balanced(u) /\ Height(u) = Height(t)
        BY <2>1, <2>2, <4>1, <4>3 DEF Weighs
      <4>5. Rebalanced(t, n, u, k)
        BY <3>5, <3>7, <4>4 DEF Rebalanced
      <4>6. QED
        BY <4>5 DEF u, n
    <3>8. CASE ~OnTheWay(a, k)
      <4> DEFINE u == AvlRebalance(n, k)
      <4>1. /\ Balanced(a) /\ Height(a) \in {Height(t.right), Height(t.right) + 1}
            /\ Height(a) = Height(t.right) + 1 /\ t.right # Nil => Tips(a, k)
        BY <3>2, <3>8 DEF Rebalanced
      <4>2. /\ ~Leans(n) => /\ Balanced(n) /\ Height(n) \in {Height(t), Height(t) + 1}
                            /\ Height(n) = Height(t) + 1 => Tips(n, k)
            /\ Leans(n) => /\ AvlTurn(n, k) \in Trees /\ Balanced(AvlTurn(n, k))
                           /\ Height(AvlTurn(n, k)) = Height(t)
        BY <1>2, <2>1, <2>4, <3>1, <3>3, <4>1, BalanceOnTheRight
      <4>3. u = AvlTurn(n, k)
        BY <3>6, <3>8
      <4>4. ~Leans(n) => u = n
        BY <4>3 DEF AvlTurn
      <4> HIDE DEF u
      <4>5. Rebalanced(t, n, u, k)
        BY <3>5, <3>8, <4>2, <4>3, <4>4 DEF Rebalanced
      <4>6. QED
        BY <4>5 DEF u, n
    <3>9. QED
      BY <3>7, <3>8
  <2>5. QED
    BY <2>3, <2>4
<1> HIDE DEF S
<1>3. Trees \subseteq S
  BY <1>1, <1>2, ChildInduction
<1>4. QED
  BY <1>3 DEF S

\* AVLtree_attach keeps a balanced tree balanced, and never dereferences a NULL.
THEOREM AvlAttachBalances ==
  ASSUME NEW t \in Trees, NEW k \in Int, Balanced(t)
  PROVE  AvlAttach(t, k) \in Trees /\ Balanced(AvlAttach(t, k))
<1>1. Rebalanced(t, Attach(t, k), AvlRebalance(Attach(t, k), k), k)
  BY AvlAttachRebalances
<1>2. Attach(t, k) \in Trees
  BY AttachDef
<1>3. CASE t = Nil
  <2>1. Leaf(k, "black") \in Trees /\ Balanced(Leaf(k, "black"))
    <3>1. Leaf(k, "black") = Node(k, "black", Nil, Nil)
      BY DEF Leaf
    <3>2. Weighs(Leaf(k, "black"), Nil, Nil)
      BY <3>1, NilIsTree, BlackAndRed, Weighed
    <3>3. QED
      BY <1>3, <3>2, NilIsTree DEF Weighs
  <2>2. QED
    BY <1>3, <2>1 DEF AvlAttach
<1>4. CASE t # Nil
  BY <1>1, <1>2, <1>4 DEF Rebalanced, AvlAttach
<1>5. QED
  BY <1>3, <1>4

-----------------------------------------------------------------------------
(* The shell: the invariant and what follows from it.                      *)

\* What an AVL tree whose keys were added once, or a red-black tree that is one
\* still, holds.
HoldsKeys ==
  running \in {"yes", "failed"} /\ (kind = "rb" \/ (kind = "avl" /\ plain)) =>
    /\ root \in Trees /\ Ordered(root)
    /\ held \in [Keys -> {0, 1}] /\ KeysOf(root) = {k \in Keys : held[k] > 0}

\* What an AVL tree that only grew is.
GrewBalanced ==
  kind = "avl" /\ usable /\ ~removed =>
    running \in {"yes", "failed"} /\ root \in Trees /\ Balanced(root)

\* What a red-black tree that only grew from red nodes is.
GrewByTheRules ==
  kind = "rb" /\ usable /\ ~removed /\ plain =>
    running \in {"yes", "failed"} /\ RbRules(root)

\* The inductive invariant of the shell.
TreeInv == HoldsKeys /\ GrewBalanced /\ GrewByTheRules

\* An empty tree is all of these.
LEMMA EmptyTree ==
  /\ Nil \in Trees /\ Ordered(Nil) /\ Balanced(Nil) /\ RbRules(Nil)
  /\ Nothing \in [Keys -> {0, 1}] /\ KeysOf(Nil) = {k \in Keys : Nothing[k] > 0}
<1>1. Nil \in Trees /\ Ordered(Nil) /\ Balanced(Nil) /\ KeysOf(Nil) = {}
  BY NilIsTree, OfNil DEF Balanced
<1>2. RbRules(Nil)
  BY NilColors DEF RbRules
<1>3. Nothing \in [Keys -> {0, 1}] /\ \A k \in Keys : ~(Nothing[k] > 0)
  BY DEF Nothing
<1>4. QED
  BY <1>1, <1>2, <1>3

\* In order, no node of a tree is shared.
LEMMA OrderedIsNotTwice ==
  ASSUME NEW t \in Trees, Ordered(t) PROVE ~Twice(t)
BY OrderedCopies DEF Twice

\* How a call that leaves a tree in order ends.
LEMMA TreeGoesOn ==
  ASSUME NEW t \in Trees, Becomes(t), Ordered(t) \/ kind # "rb"
  PROVE  root' = t /\ running' = "yes"
<1>1. t # Fault /\ t # Loop
  BY TreeIsNoFault
<1>2. kind = "rb" => ~\E k \in Keys : Copies(t)[k] > 1
  BY OrderedIsNotTwice DEF Twice
<1>3. QED
  BY <1>1, <1>2 DEF Becomes, Outcome

\* A call that dereferences a NULL, or shares a node, ends the program.
LEMMA TreeIsOver ==
  ASSUME NEW t, Becomes(t), t = Fault \/ (t \in Trees /\ Twice(t) /\ kind = "rb")
  PROVE  running' \notin {"yes", "failed"}
BY TreeIsNoFault DEF Becomes, Outcome, Twice

\* The shell starts in the invariant.
LEMMA TreeStarts == TreeInit => TreeInv
BY EmptyTree DEF TreeInit, TreeInv, HoldsKeys, GrewBalanced, GrewByTheRules

\* An AVL tree that grows.
LEMMA AvlAddKeeps ==
  ASSUME TreeInv, NEW k \in Keys, AvlAdd(k)
  PROVE  TreeInv'
<1> DEFINE u == AvlAttach(root, k)
<1>1. /\ kind = "avl" /\ running = "yes" /\ kind' = "avl" /\ UNCHANGED <<usable, removed>>
      /\ Becomes(IF Callable THEN u ELSE Fault)
      /\ held' = [held EXCEPT ![k] = held[k] + 1]
      /\ plain' = (plain /\ held[k] = 0) /\ k \in Int
  BY TreesAssumption DEF AvlAdd, Grows, Tree
<1>2. HoldsKeys'
  <2>1. SUFFICES ASSUME running' \in {"yes", "failed"}, plain'
                 PROVE  /\ root' \in Trees /\ Ordered(root')
                        /\ held' \in [Keys -> {0, 1}] /\ KeysOf(root') = {j \in Keys : held'[j] > 0}
    BY <1>1 DEF HoldsKeys
  <2>2. /\ root \in Trees /\ Ordered(root) /\ held[k] = 0
        /\ held \in [Keys -> {0, 1}] /\ KeysOf(root) = {j \in Keys : held[j] > 0}
    BY <1>1, <2>1 DEF TreeInv, HoldsKeys
  <2>3. Callable /\ u # Fault /\ Becomes(u)
    BY <1>1, <2>1, TreeIsOver
  <2>4. u \in Trees /\ KeysOf(u) = KeysOf(root) \cup {k} /\ Ordered(u)
    BY <1>1, <2>2, <2>3, AvlAttachAdds
  <2>5. root' = u
    BY <2>3 DEF Becomes
  <2>6. held' \in [Keys -> {0, 1}] /\ held'[k] = 1 /\ \A j \in Keys \ {k} : held'[j] = held[j]
    BY <1>1, <2>2
  <2>7. KeysOf(root) \cup {k} = {j \in Keys : held'[j] > 0}
    BY <2>2, <2>6
  <2>8. QED
    BY <2>4, <2>5, <2>6, <2>7
<1>3. GrewBalanced'
  <2>1. SUFFICES ASSUME usable, ~removed
                 PROVE  running' \in {"yes", "failed"} /\ root' \in Trees /\ Balanced(root')
    BY <1>1 DEF GrewBalanced
  <2>2. Callable /\ u \in Trees /\ Balanced(u)
    BY <1>1, <2>1, AvlAttachBalances DEF TreeInv, GrewBalanced, Callable
  <2>3. root' = u /\ running' = "yes"
    BY <1>1, <2>2, TreeGoesOn
  <2>4. QED
    BY <2>2, <2>3
<1>4. GrewByTheRules'
  BY <1>1 DEF GrewByTheRules
<1>5. QED
  BY <1>2, <1>3, <1>4 DEF TreeInv

\* What the shell held after a removal that was one.
LEMMA HeldAfterRemoval ==
  ASSUME NEW k \in Keys, Deleted(k), held \in [Keys -> {0, 1}]
  PROVE  /\ held' \in [Keys -> {0, 1}]
         /\ {j \in Keys : held'[j] > 0} = {j \in Keys : held[j] > 0} \ {k}
<1>1. held' = [held EXCEPT ![k] = IF held[k] > 0 THEN held[k] - 1 ELSE 0]
  BY DEF Deleted
<1>2. held' \in [Keys -> {0, 1}] /\ held'[k] = 0 /\ \A j \in Keys \ {k} : held'[j] = held[j]
  BY <1>1
<1>3. QED
  BY <1>2

\* A removal from an AVL tree.
LEMMA AvlDelKeeps ==
  ASSUME TreeInv, NEW k \in Keys, AvlDel(k)
  PROVE  TreeInv'
<1> DEFINE u == AvlRemove(root, k)
<1>1. /\ kind = "avl" /\ running = "yes" /\ kind' = "avl" /\ UNCHANGED <<usable, plain>>
      /\ Becomes(IF Callable THEN u ELSE Fault) /\ Deleted(k) /\ removed' = TRUE /\ k \in Int
  BY TreesAssumption DEF AvlDel, Deleted, Tree
<1>2. HoldsKeys'
  <2>1. SUFFICES ASSUME running' \in {"yes", "failed"}, plain
                 PROVE  /\ root' \in Trees /\ Ordered(root')
                        /\ held' \in [Keys -> {0, 1}] /\ KeysOf(root') = {j \in Keys : held'[j] > 0}
    BY <1>1 DEF HoldsKeys
  <2>2. /\ root \in Trees /\ Ordered(root)
        /\ held \in [Keys -> {0, 1}] /\ KeysOf(root) = {j \in Keys : held[j] > 0}
    BY <1>1, <2>1 DEF TreeInv, HoldsKeys
  <2>3. Callable /\ u # Fault /\ Becomes(u)
    BY <1>1, <2>1, TreeIsOver
  <2>4. Removed(root, k, u)
    BY <1>1, <2>2, <2>3, AvlRemoves
  <2>5. root' = u
    BY <2>3 DEF Becomes
  <2>6. QED
    BY <1>1, <2>2, <2>4, <2>5, HeldAfterRemoval DEF Removed
<1>3. QED
  BY <1>1, <1>2 DEF TreeInv, GrewBalanced, GrewByTheRules

\* A red-black tree that grows.
LEMMA RbAddKeeps ==
  ASSUME TreeInv, NEW k \in Keys, RbAdd(k)
  PROVE  TreeInv'
<1>1. PICK color \in FreshColors :
        /\ Grows(RbAttach(root, k, color), k)
        /\ plain' = (plain /\ (color = "red" \/ root = Nil \/ held[k] > 0))
  BY DEF RbAdd
<1> DEFINE u == RbAttach(root, k, color)
<1>2. /\ kind = "rb" /\ running = "yes" /\ kind' = "rb" /\ UNCHANGED <<usable, removed>>
      /\ Becomes(IF Callable THEN u ELSE Fault)
      /\ held' = [held EXCEPT ![k] = 1] /\ k \in Int /\ color \in Colors
  BY <1>1, TreesAssumption DEF RbAdd, Grows, Tree
<1>3. /\ root \in Trees /\ Ordered(root)
      /\ held \in [Keys -> {0, 1}] /\ KeysOf(root) = {j \in Keys : held[j] > 0}
  BY <1>2 DEF TreeInv, HoldsKeys
<1>4. u \in Trees /\ KeysOf(u) = KeysOf(root) \cup {k} /\ Ordered(u)
  BY <1>2, <1>3, RbAttachAdds
<1>5. CASE ~Callable
  <2>1. running' \notin {"yes", "failed"} /\ ~usable'
    BY <1>2, <1>5, TreeIsOver DEF Callable
  <2>2. QED
    BY <1>2, <2>1 DEF TreeInv, HoldsKeys, GrewBalanced, GrewByTheRules
<1>6. CASE Callable
  <2>1. root' = u /\ running' = "yes"
    BY <1>2, <1>4, <1>6, TreeGoesOn
  <2>2. held' \in [Keys -> {0, 1}] /\ held'[k] = 1 /\ \A j \in Keys \ {k} : held'[j] = held[j]
    BY <1>2, <1>3
  <2>3. KeysOf(root') = {j \in Keys : held'[j] > 0}
    BY <1>3, <1>4, <2>1, <2>2
  <2>4. HoldsKeys' /\ GrewBalanced'
    BY <1>2, <1>4, <2>1, <2>2, <2>3 DEF HoldsKeys, GrewBalanced
  <2>5. GrewByTheRules'
    <3>1. SUFFICES ASSUME usable, ~removed, plain' PROVE RbRules(root')
      BY <1>2, <2>1 DEF GrewByTheRules
    <3>2. RbRules(root) /\ (color = "red" \/ root = Nil \/ k \in KeysOf(root))
      BY <1>1, <1>2, <1>3, <3>1 DEF TreeInv, GrewByTheRules
    <3>3. RbRules(u)
      BY <1>2, <1>3, <3>2, RbAttachRules
    <3>4. QED
      BY <2>1, <3>3
  <2>6. QED
    BY <2>4, <2>5 DEF TreeInv
<1>7. QED
  BY <1>5, <1>6

\* The root is painted black after a removal: a fault stays one, and a tree
\* keeps its keys.
LEMMA PaintedAfter ==
  ASSUME NEW t \in Trees, NEW j, NEW u, RbGone(t, j, u)
  PROVE  RbGone(t, j, Paint(u, "black"))
<1>1. CASE u = Fault
  BY <1>1 DEF Paint, Marks, RbGone
<1>2. CASE u # Fault
  <2> DEFINE v == Paint(u, "black")
  <2>1. u \in Trees /\ KeysOf(u) \subseteq KeysOf(t) /\ (Removed(t, j, u) \/ Twice(u))
    BY <1>2 DEF RbGone
  <2>2. Keeps(u, v)
    BY <2>1, Painted, BlackAndRed
  <2>3. v \in Trees /\ KeysOf(v) = KeysOf(u) /\ (Ordered(u) => Ordered(v)) /\ Copies(v) = Copies(u)
    BY <2>2 DEF Keeps
  <2>4. QED
    BY <2>1, <2>3 DEF RbGone, Removed, Twice
<1>3. QED
  BY <1>1, <1>2

\* A removal from a red-black tree.
LEMMA RbDelKeeps ==
  ASSUME TreeInv, NEW k \in Keys, RbDel(k), root # Nil
  PROVE  TreeInv'
<1> DEFINE u == Paint(RbRemove(root, k, FALSE)[1], "black")
<1>1. /\ kind = "rb" /\ running = "yes" /\ kind' = "rb" /\ UNCHANGED <<usable, plain>>
      /\ Becomes(IF Callable THEN u ELSE Fault) /\ Deleted(k) /\ removed' = TRUE /\ k \in Int
  BY TreesAssumption DEF RbDel, Deleted, Tree
<1>2. HoldsKeys'
  <2>1. SUFFICES ASSUME running' \in {"yes", "failed"}
                 PROVE  /\ root' \in Trees /\ Ordered(root')
                        /\ held' \in [Keys -> {0, 1}] /\ KeysOf(root') = {j \in Keys : held'[j] > 0}
    BY <1>1 DEF HoldsKeys
  <2>2. /\ root \in Trees /\ Ordered(root) /\ KeysOf(root) \subseteq Keys
        /\ held \in [Keys -> {0, 1}] /\ KeysOf(root) = {j \in Keys : held[j] > 0}
    BY <1>1 DEF TreeInv, HoldsKeys
  <2>3. Callable /\ u # Fault /\ Becomes(u)
    BY <1>1, <2>1, TreeIsOver
  <2>4. RbGone(root, k, u)
    <3>1. RbGone(root, k, RbRemove(root, k, FALSE)[1])
      BY <1>1, <2>2, RbRemoves
    <3>2. QED
      BY <2>2, <3>1, PaintedAfter
  <2>5. Removed(root, k, u)
    BY <1>1, <2>1, <2>3, <2>4, TreeIsOver DEF RbGone
  <2>6. root' = u
    BY <2>3 DEF Becomes
  <2>7. QED
    BY <1>1, <2>2, <2>5, <2>6, HeldAfterRemoval DEF Removed
<1>3. QED
  BY <1>1, <1>2 DEF TreeInv, GrewBalanced, GrewByTheRules

\* A call on a plain search tree.
LEMMA BstKeeps ==
  ASSUME TreeInv, kind = "bst", kind' = "bst"
  PROVE  TreeInv'
BY DEF TreeInv, HoldsKeys, GrewBalanced, GrewByTheRules

\* A command that fails, or that only looks.
LEMMA LooksKeep ==
  ASSUME TreeInv, running = "yes", Fails \/ Reads
  PROVE  TreeInv'
<1>1. CASE Fails
  BY <1>1 DEF Fails, TreeInv, HoldsKeys, GrewBalanced, GrewByTheRules
<1>2. CASE Reads
  BY <1>2 DEF Reads, Callable, TreeInv, HoldsKeys, GrewBalanced, GrewByTheRules
<1>3. QED
  BY <1>1, <1>2

\* A new tree, or a destroyed one.
LEMMA EmptyKeeps ==
  ASSUME running = "yes", running' = running, root' = Nil, held' = Nothing
  PROVE  TreeInv'
BY EmptyTree DEF TreeInv, HoldsKeys, GrewBalanced, GrewByTheRules

\* Every operation of the shell keeps the invariant: one step per action.
LEMMA TreeStep == TreeInv /\ [TreeNext]_treeVars => TreeInv'
<1>1. SUFFICES ASSUME TreeInv, [TreeNext]_treeVars PROVE TreeInv'
  OBVIOUS
<1>2. CASE UNCHANGED treeVars
  BY <1>1, <1>2 DEF treeVars, TreeInv, HoldsKeys, GrewBalanced, GrewByTheRules
<1>3. ASSUME NEW c \in Kinds, Create(c) PROVE TreeInv'
  BY <1>3, EmptyKeeps DEF Create
<1>4. ASSUME NEW k \in Keys, BstAdd(k) \/ BstDel(k) PROVE TreeInv'
  <2>1. kind = "bst" /\ kind' = "bst"
    BY <1>4 DEF BstAdd, BstDel, Tree, Grows, Deleted, Fails
  <2>2. QED
    BY <1>1, <2>1, BstKeeps
<1>5. ASSUME NEW k \in Keys, RbDel(k) PROVE TreeInv'
  <2>1. CASE root = Nil
    BY <1>1, <1>5, <2>1, LooksKeep DEF RbDel, Tree
  <2>2. QED
    BY <1>1, <1>5, <2>1, RbDelKeeps
<1>6. ASSUME NEW k \in Keys, AvlAdd(k) \/ AvlDel(k) \/ RbAdd(k) PROVE TreeInv'
  BY <1>1, <1>6, AvlAddKeeps, AvlDelKeeps, RbAddKeeps
<1>7. CASE Find \/ Display
  BY <1>1, <1>7, LooksKeep DEF Find, Display
<1>8. CASE Destroy
  BY <1>1, <1>8, LooksKeep, EmptyKeeps DEF Destroy
<1>9. QED
  BY <1>1, <1>2, <1>3, <1>4, <1>5, <1>6, <1>7, <1>8 DEF TreeNext

\* The inductive invariant of the shell is an invariant.
THEOREM TreeInvariant == TreeSpec => []TreeInv
BY TreeStarts, TreeStep, PTL DEF TreeSpec

\* KeepsKeys: an AVL or red-black tree that still runs holds exactly the keys that were
\* added and not removed, each once and in order (tree_attach, tree_remove).
THEOREM TreesKeepKeys == TreeSpec => []KeepsKeys
<1>1. TreeInv => KeepsKeys
  <2>1. SUFFICES ASSUME TreeInv, running = "yes", kind = "rb" \/ (kind = "avl" /\ plain)
                 PROVE  /\ Sorted(root) /\ Copies(root) = held
                        /\ \A k \in Keys : Lookup(root, k) # Nil <=> held[k] > 0
    BY DEF KeepsKeys
  <2>2. /\ root \in Trees /\ Ordered(root)
        /\ held \in [Keys -> {0, 1}] /\ KeysOf(root) = {k \in Keys : held[k] > 0}
    BY <2>1 DEF TreeInv, HoldsKeys
  <2>3. Sorted(root)
    BY <2>2, OrderedSorted
  <2>4. Copies(root) = held
    <3>1. Copies(root) = [k \in Keys |-> IF k \in KeysOf(root) THEN 1 ELSE 0]
      BY <2>2, OrderedCopies
    <3>2. \A k \in Keys : held[k] = IF k \in KeysOf(root) THEN 1 ELSE 0
      BY <2>2
    <3>3. QED
      BY <2>2, <3>1, <3>2
  <2>5. ASSUME NEW k \in Keys PROVE Lookup(root, k) # Nil <=> held[k] > 0
    <3>1. k \in Int
      BY TreesAssumption
    <3>2. Lookup(root, k) # Nil <=> k \in KeysOf(root)
      BY <2>2, <3>1, LookupFinds
    <3>3. QED
      BY <2>2, <3>2
  <2>6. QED
    BY <2>3, <2>4, <2>5
<1>2. QED
  BY <1>1, TreeInvariant, PTL

\* BalancedUntilRemoval: until the first removal an AVL tree leans nowhere by more than
\* one (AVLtree_attach).
THEOREM AvlGrowsBalanced == TreeSpec => []BalancedUntilRemoval
<1>1. TreeInv => BalancedUntilRemoval
  BY DEF TreeInv, GrewBalanced, BalancedUntilRemoval
<1>2. QED
  BY <1>1, TreeInvariant, PTL

\* RulesUntilRemoval: until the first removal, and as long as new nodes are red, a red-
\* black tree keeps its rules (RBtree_attach).
THEOREM RbGrowsByTheRules == TreeSpec => []RulesUntilRemoval
<1>1. TreeInv => RulesUntilRemoval
  BY DEF TreeInv, GrewByTheRules, RulesUntilRemoval
<1>2. QED
  BY <1>1, TreeInvariant, PTL

-----------------------------------------------------------------------------
(* The shell: types.                                                       *)

\* The bound of the shell is on the sum of what it holds.
LEMMA RoomIsSum ==
  ASSUME held \in [Keys -> Int]
  PROVE  Room <=> SumFunction(held) < MaxHeld
<1>1. DOMAIN held = Keys
  OBVIOUS
<1>2. MapThenSumSet(LAMBDA k : held[k], Keys) = SumFunctionOnSet(held, Keys)
  BY DEF MapThenSumSet, SumFunctionOnSet, FoldFunctionOnSet
<1>3. QED
  BY <1>1, <1>2 DEF Room, SumFunction

\* A key can be added, then, without leaving the bound.
LEMMA RoomForOne ==
  ASSUME held \in [Keys -> 0 .. MaxHeld], Room, NEW k \in Keys
  PROVE  held[k] + 1 \in 0 .. MaxHeld /\ 1 \in 0 .. MaxHeld
<1>1. held \in [Keys -> Int] /\ IsFiniteSet(Keys) /\ MaxHeld \in Nat
  BY TreesAssumption
<1> DEFINE g == [held EXCEPT ![k] = 0]
<1>2. g \in [Keys -> Int] /\ \A j \in Keys : g[j] \in Nat
  BY <1>1
<1>3. SumFunction(g) = SumFunction(held) - held[k] + 0
  <2>1. PICK f \in [Keys -> Int], z \in Int : f = held /\ z = 0
    BY <1>1
  <2>2. SumFunction([f EXCEPT ![k] = z]) = SumFunction(f) - f[k] + z
    BY <1>1, SumChange
  <2>3. QED
    BY <2>1, <2>2
<1> HIDE DEF g
<1>4. SumFunction(g) \in Nat /\ SumFunction(held) \in Int
  BY <1>1, <1>2, SumType
<1>5. SumFunction(held) < MaxHeld
  BY <1>1, RoomIsSum
<1>6. held[k] \in 0 .. MaxHeld
  OBVIOUS
<1>7. QED
  BY <1>1, <1>3, <1>4, <1>5, <1>6

\* What a call that leaves t ends as.
LEMMA OutcomeType ==
  ASSUME NEW t, Becomes(t)
  PROVE  /\ running' \in {"yes", "failed", "fault", "loop", "shared"}
         /\ root' = Fault => running' = "fault"
BY DEF Becomes, Outcome

\* Every operation of the shell keeps the types.
LEMMA TypesStep == TreeTypeOK /\ [TreeNext]_treeVars => TreeTypeOK'
<1>1. SUFFICES ASSUME TreeTypeOK, [TreeNext]_treeVars PROVE TreeTypeOK'
  OBVIOUS
<1>2. held \in [Keys -> 0 .. MaxHeld] /\ Nothing \in [Keys -> 0 .. MaxHeld] /\ MaxHeld \in Nat
  BY <1>1, TreesAssumption DEF TreeTypeOK, Nothing
<1>3. CASE UNCHANGED treeVars
  BY <1>1, <1>3 DEF treeVars, TreeTypeOK
<1>4. ASSUME NEW k \in Keys, NEW t, Room, Grows(t, k), plain' \in BOOLEAN PROVE TreeTypeOK'
  <2>1. held' \in [Keys -> 0 .. MaxHeld]
    <3>1. held[k] + 1 \in 0 .. MaxHeld /\ 1 \in 0 .. MaxHeld
      BY <1>2, <1>4, RoomForOne
    <3>2. QED
      BY <1>2, <1>4, <3>1 DEF Grows
  <2>2. /\ running' \in {"yes", "failed", "fault", "loop", "shared"}
        /\ root' = Fault => running' = "fault"
    BY <1>4, OutcomeType DEF Grows
  <2>3. QED
    BY <1>1, <1>4, <2>1, <2>2 DEF TreeTypeOK, Grows
<1>5. ASSUME NEW k \in Keys, NEW t, Becomes(t), Deleted(k) PROVE TreeTypeOK'
  <2>1. held' \in [Keys -> 0 .. MaxHeld]
    <3>1. (IF held[k] > 0 THEN held[k] - 1 ELSE 0) \in 0 .. MaxHeld
      BY <1>2
    <3>2. QED
      BY <1>2, <1>5, <3>1 DEF Deleted
  <2>2. /\ running' \in {"yes", "failed", "fault", "loop", "shared"}
        /\ root' = Fault => running' = "fault"
    BY <1>5, OutcomeType
  <2>3. QED
    BY <1>1, <1>5, <2>1, <2>2 DEF TreeTypeOK, Deleted
<1>6. ASSUME running = "yes", Fails \/ Reads PROVE TreeTypeOK'
  BY <1>1, <1>6 DEF TreeTypeOK, Fails, Reads
<1>7. ASSUME NEW c \in Kinds, Create(c) PROVE TreeTypeOK'
  BY <1>1, <1>2, <1>7, MarksDiffer DEF TreeTypeOK, Create
<1>8. ASSUME NEW k \in Keys, BstAdd(k) \/ AvlAdd(k) \/ RbAdd(k) PROVE TreeTypeOK'
  <2>1. plain \in BOOLEAN
    BY <1>1 DEF TreeTypeOK
  <2>2. CASE BstAdd(k)
    <3>1. plain' \in BOOLEAN
      BY <2>1, <2>2 DEF BstAdd
    <3>2. QED
      BY <1>4, <2>2, <3>1 DEF BstAdd
  <2>3. CASE AvlAdd(k)
    <3>1. plain' \in BOOLEAN
      BY <2>1, <2>3 DEF AvlAdd
    <3>2. QED
      BY <1>4, <2>3, <3>1 DEF AvlAdd
  <2>4. CASE RbAdd(k)
    <3>1. PICK color \in FreshColors :
            /\ Grows(RbAttach(root, k, color), k)
            /\ plain' = (plain /\ (color = "red" \/ root = Nil \/ held[k] > 0))
      BY <2>4 DEF RbAdd
    <3>2. plain' \in BOOLEAN
      BY <2>1, <3>1
    <3>3. QED
      BY <1>4, <2>4, <3>1, <3>2 DEF RbAdd
  <2>5. QED
    BY <1>8, <2>2, <2>3, <2>4
<1>9. ASSUME NEW k \in Keys, BstDel(k) \/ AvlDel(k) \/ RbDel(k) PROVE TreeTypeOK'
  BY <1>5, <1>6, <1>9 DEF BstDel, AvlDel, RbDel, Tree
<1>10. CASE Find \/ Display
  BY <1>6, <1>10 DEF Find, Display
<1>11. CASE Destroy
  <2>1. CASE root = Nil
    BY <1>6, <1>11, <2>1 DEF Destroy
  <2>2. CASE root # Nil
    BY <1>1, <1>2, <1>11, <2>2, MarksDiffer DEF TreeTypeOK, Destroy
  <2>3. QED
    BY <2>1, <2>2
<1>12. QED
  BY <1>1, <1>3, <1>7, <1>8, <1>9, <1>10, <1>11 DEF TreeNext

\* TreeTypeOK, of the shell: a NULL that was dereferenced ends the program, and no
\* more keys are held than there is room for.
THEOREM TreeTypes == TreeSpec => []TreeTypeOK
<1>1. TreeInit => TreeTypeOK
  <2>1. SUFFICES ASSUME TreeInit PROVE TreeTypeOK
    OBVIOUS
  <2>2. held \in [Keys -> 0 .. MaxHeld]
    BY <2>1, TreesAssumption DEF TreeInit, Nothing
  <2>3. kind \in Kinds \cup {"none"} /\ running = "yes" /\ root # Fault
    BY <2>1, MarksDiffer DEF TreeInit
  <2>4. {usable, removed, plain} \subseteq BOOLEAN
    BY <2>1 DEF TreeInit
  <2>5. QED
    BY <2>2, <2>3, <2>4 DEF TreeTypeOK
<1>2. QED
  BY <1>1, TypesStep, PTL DEF TreeSpec

-----------------------------------------------------------------------------
(* Binary search tree: removal.                                            *)

\* The smallest of a tree is a node of it.
LEMMA SmallestIsNode ==
  \A t \in Trees : t # Nil => Smallest(t) \in Trees /\ Smallest(t) # Nil
<1> DEFINE S == {t \in Trees : t # Nil => Smallest(t) # Nil}
<1>1. Nil \in S
  BY NilIsTree
<1>2. ASSUME NEW t \in Trees, t # Nil, t.left \in S, t.right \in S PROVE t \in S
  BY <1>2, SmallestDef
<1> HIDE DEF S
<1>3. Trees \subseteq S
  BY <1>1, <1>2, ChildInduction
<1>4. QED
  BY <1>3, SmallestDef DEF S

\* What replaces a node: its left child, or the smallest on its right.
LEMMA ReplacedParts ==
  ASSUME NEW t \in Trees, t # Nil
  PROVE  /\ Replaced(t) \in Trees
         /\ t.right = Nil => Replaced(t) = t.left
         /\ t.right # Nil =>
              LET s == Smallest(t.right) IN
              /\ s.key \in Int /\ s.color \in Colors /\ DropSmallest(t.right) \in Trees
              /\ Replaced(t) = Node(s.key, s.color, t.left, DropSmallest(t.right))
<1>1. t.left \in Trees /\ t.right \in Trees
  BY TreeParts
<1>2. CASE t.right = Nil
  BY <1>1, <1>2 DEF Replaced
<1>3. CASE t.right # Nil
  <2> DEFINE s == Smallest(t.right)  d == DropSmallest(t.right)
  <2>1. s \in Trees /\ s # Nil /\ d \in Trees
    BY <1>1, <1>3, SmallestIsNode, DropSmallestDef
  <2>2. Replaced(t) = Hang(s, t.left, d)
    BY <1>3 DEF Replaced
  <2> HIDE DEF s, d
  <2>3. Fault \notin {t.left, d} /\ Loop \notin {t.left, d}
    BY <1>1, <2>1, TreeIsNoFault
  <2>4. Hang(s, t.left, d) = Node(s.key, s.color, t.left, d) /\ s.key \in Int /\ s.color \in Colors
    <3>1. s.key \in Int /\ s.color \in Colors /\ s \notin Marks
      BY <2>1, TreeParts
    <3>2. Hang(s, t.left, d) = Node(s.key, s.color, t.left, d)
      BY <2>3, <3>1 DEF Hang, Marks
    <3>3. QED
      BY <3>1, <3>2
  <2>5. Node(s.key, s.color, t.left, d) \in Trees
    BY <1>1, <2>1, <2>4, NodeIsTree
  <2>6. QED
    BY <1>3, <2>1, <2>2, <2>4, <2>5 DEF s, d
<1>4. QED
  BY <1>2, <1>3

\* The two sides of a node.
LEMMA Sides ==
  ASSUME NEW t \in Trees, t # Nil, NEW side \in {"left", "right"}
  PROVE  /\ t[side] \in Trees /\ Height(t[side]) < Height(t)
         /\ side = "left" => t[side] = t.left
         /\ side = "right" => t[side] = t.right
         /\ HangOn(t, side, Loop) = Loop
         /\ \A s \in Trees : HangOn(t, side, s) \in Trees \ {Nil}
<1>1. CASE side = "left"
  BY <1>1, TreeParts, HangFacts DEF HangOn
<1>2. CASE side = "right"
  BY <1>2, TreeParts, HangFacts DEF HangOn
<1>3. QED
  BY <1>1, <1>2

\* The removal of a child leaves a tree, or a node that is its own child.
LEMMA RemoveChildType ==
  ASSUME NEW t \in Trees, t # Nil, NEW side \in {"left", "right"}, t[side] # Nil
  PROVE  RemoveChild(t, side) \in Trees \cup {Loop}
<1> DEFINE c == t[side]
<1>1. c \in Trees /\ c # Nil
  BY Sides
<1>2. RemoveChild(t, side) =
        IF ~NoLeftBelow(c) THEN HangOn(t, side, Replaced(c))
        ELSE IF side = "left" THEN HangLeft(t, c.right.right) ELSE Loop
  BY DEF RemoveChild
<1> HIDE DEF c
<1>3. HangOn(t, side, Replaced(c)) \in Trees
  BY <1>1, ReplacedParts, Sides
<1>4. NoLeftBelow(c) => HangLeft(t, c.right.right) \in Trees
  <2>1. SUFFICES ASSUME NoLeftBelow(c) PROVE HangLeft(t, c.right.right) \in Trees
    OBVIOUS
  <2>2. c.right \in Trees /\ c.right # Nil
    BY <1>1, <2>1, TreeParts DEF NoLeftBelow
  <2>3. c.right.right \in Trees
    BY <2>2, TreeParts
  <2>4. QED
    BY <2>3, HangFacts
<1>5. QED
  BY <1>2, <1>3, <1>4

\* The way down to the parent of the node with k.
LEMMA RemoveBelowDef ==
  ASSUME NEW t \in Trees, NEW k \in Int
  PROVE  /\ RemoveBelow(t, k) \in Trees \cup {Loop}
         /\ t # Nil =>
              LET side == IF k < t.key THEN "left" ELSE "right" IN
              RemoveBelow(t, k) =
                IF t[side] # Nil /\ t[side].key = k THEN RemoveChild(t, side)
                ELSE HangOn(t, side, RemoveBelow(t[side], k))
<1> DEFINE V == Trees \cup {Loop}
           Side(s) == IF k < s.key THEN "left" ELSE "right"
           Body(f, s) == IF s = Nil THEN Nil
                         ELSE IF s[Side(s)] # Nil /\ s[Side(s)].key = k
                         THEN RemoveChild(s, Side(s))
                         ELSE HangOn(s, Side(s), f[s[Side(s)]])
           G == [s \in Trees |-> [f \in [Trees -> V] |-> Body(f, s)]]
<1>1. \A s \in Trees : \A f \in [Trees -> V] : Body(f, s) \in V
  <2>1. ASSUME NEW s \in Trees, NEW f \in [Trees -> V] PROVE Body(f, s) \in V
    <3>1. CASE s = Nil
      <4>1. Nil \in Trees
        BY NilIsTree
      <4>2. QED
        BY <3>1, <4>1
    <3>2. CASE s # Nil
      <4>1. PICK side \in {"left", "right"} : side = Side(s)
        OBVIOUS
      <4> HIDE DEF Side
      <4>2. s[side] \in Trees /\ f[s[side]] \in Trees \cup {Loop}
        BY <3>2, Sides
      <4>3. HangOn(s, side, f[s[side]]) \in Trees \cup {Loop}
        BY <3>2, <4>2, Sides
      <4>4. s[side] # Nil => RemoveChild(s, side) \in Trees \cup {Loop}
        BY <3>2, RemoveChildType
      <4>5. QED
        BY <3>2, <4>1, <4>3, <4>4
    <3>3. QED
      BY <3>1, <3>2
  <2>2. QED
    BY <2>1
<1>2. \A s \in Trees : \A f, g \in [Trees -> V] :
        (\A r \in Trees : Height(r) < Height(s) => f[r] = g[r]) => Body(f, s) = Body(g, s)
  <2>1. \A s \in Trees : s # Nil => s[Side(s)] \in Trees /\ Height(s[Side(s)]) < Height(s)
    BY Sides
  <2> HIDE DEF Side
  <2>2. QED
    BY <2>1
<1>3. PICK g \in [Trees -> V] : \A s \in Trees : g[s] = Body(g, s)
  <2> HIDE DEF Body
  <2>1. V # {}
    BY NilIsTree
  <2> HIDE DEF V
  <2>2. G \in [Trees -> [[Trees -> V] -> V]]
    BY <1>1
  <2>3. \A s \in Trees : \A f \in [Trees -> V] : G[s][f] = Body(f, s)
    OBVIOUS
  <2> HIDE DEF G
  <2>4. \A s \in Trees : \A f, g \in [Trees -> V] :
          (\A r \in Trees : Height(r) < Height(s) => f[r] = g[r]) => G[s][f] = G[s][g]
    BY <1>2, <2>3
  <2>5. \E g \in [Trees -> V] : \A s \in Trees : g[s] = G[s][g]
    <3>1. LooksLower(V, G)
      BY <2>1, <2>2, <2>4 DEF LooksLower
    <3>2. QED
      BY <3>1, TreeRecursion
  <2>6. QED
    BY <2>3, <2>5
<1> HIDE DEF V
<1>4. ASSUME NEW u \in Trees PROVE RemoveBelow(u, k) = g[u]
  <2> DEFINE D == UpTo(u)
             Is(f) == f = [s \in D |-> Body(f, s)]
             h == CHOOSE f : Is(f)
  <2>1. D \in SUBSET Trees /\ u \in D
    BY LowerTrees, HeightIsLeast
  <2>2. ASSUME NEW s \in D, NEW f, NEW e,
               \A r \in D : Height(r) < Height(s) => f[r] = e[r]
        PROVE  Body(f, s) = Body(e, s)
    <3>1. CASE s = Nil
      BY <3>1
    <3>2. CASE s # Nil
      <4>1. /\ s \in Trees /\ s.left \in D /\ s.right \in D
            /\ Height(s.left) < Height(s) /\ Height(s.right) < Height(s)
        BY <2>1, <3>2, ChildrenAreLower
      <4>2. s[Side(s)] \in D /\ Height(s[Side(s)]) < Height(s)
        BY <3>2, <4>1, Sides
      <4> HIDE DEF D, Side
      <4>3. f[s[Side(s)]] = e[s[Side(s)]]
        BY <2>2, <4>2
      <4>4. QED
        BY <4>3
    <3>3. QED
      BY <3>1, <3>2
  <2>3. Is([s \in D |-> g[s]])
    <3> HIDE DEF D, Body
    <3>1. \A s \in D : g[s] = Body([r \in D |-> g[r]], s)
      BY <1>3, <2>1, <2>2
    <3>2. QED
      BY <3>1
  <2>4. RemoveBelow(u, k) = h[u]
    BY DEF RemoveBelow
  <2>5. Is(h)
    <3> HIDE DEF Is
    <3>1. QED
      BY <2>3
  <2> HIDE DEF h
  <2>6. \A s \in D : h[s] = g[s]
    <3> HIDE DEF D, Body
    <3>1. \A s \in D : h[s] = Body(h, s) /\ g[s] = Body(g, s)
      BY <1>3, <2>1, <2>5
    <3>2. ASSUME NEW s \in D, \A r \in D : Height(r) < Height(s) => h[r] = g[r]
          PROVE  h[s] = g[s]
      BY <2>2, <3>1, <3>2
    <3>3. QED
      BY <2>1, <3>2, SameOnLower
  <2>7. QED
    BY <2>1, <2>4, <2>6
<1>5. RemoveBelow(t, k) = g[t] /\ g[t] \in Trees \cup {Loop}
  BY <1>3, <1>4 DEF V
<1>6. CASE t # Nil
  <2>1. t[Side(t)] \in Trees
    BY <1>6, Sides
  <2>2. RemoveBelow(t[Side(t)], k) = g[t[Side(t)]]
    BY <1>4, <2>1
  <2>3. QED
    BY <1>3, <1>5, <1>6, <2>2
<1>7. QED
  BY <1>5, <1>6

\* BStree_remove leaves a tree, a node that is its own child, or dereferences a NULL.
LEMMA BstRemoveType ==
  ASSUME NEW t \in Trees, NEW k \in Int, t # Nil
  PROVE  BstRemove(t, k) \in Trees \cup {Loop, Fault}
BY RemoveBelowDef, ReplacedParts DEF BstRemove

\* In order, where equal keys may be on either side.
Weak(t) ==
  \A s \in Nodes(t) : /\ \A x \in KeysOf(s.left) : x <= s.key
                      /\ \A x \in KeysOf(s.right) : s.key <= x

\* The order of a node, from its parts.
LEMMA WeakNode ==
  ASSUME NEW t \in Trees, t # Nil
  PROVE  Weak(t) <=> /\ Weak(t.left) /\ Weak(t.right)
                     /\ \A x \in KeysOf(t.left) : x <= t.key
                     /\ \A x \in KeysOf(t.right) : t.key <= x
BY NodesDef DEF Weak

\* A weakly ordered node made of two trees.
LEMMA WeakMade ==
  ASSUME NEW k \in Int, NEW c \in Colors, NEW l \in Trees, NEW r \in Trees, NEW t,
         t = Node(k, c, l, r)
  PROVE  Weak(t) <=> /\ Weak(l) /\ Weak(r)
                     /\ \A x \in KeysOf(l) : x <= k
                     /\ \A x \in KeysOf(r) : k <= x
<1>1. t \in Trees /\ t # Nil /\ t.key = k /\ t.left = l /\ t.right = r
  BY NodeParts
<1>2. QED
  BY <1>1, WeakNode

\* What is displayed goes up exactly when the tree is in order.
LEMMA SortedIsWeak ==
  \A t \in Trees : Sorted(t) <=> Weak(t)
<1> DEFINE Shows(t) == /\ \A i \in DOMAIN InOrder(t) : InOrder(t)[i] \in KeysOf(t)
                       /\ \A x \in KeysOf(t) : \E i \in DOMAIN InOrder(t) : InOrder(t)[i] = x
           S == {t \in Trees : Shows(t) /\ (Sorted(t) <=> Weak(t))}
<1>1. Nil \in S
  <2>1. InOrder(Nil) = <<>>
    BY NilIsTree, InOrderDef
  <2>2. Shows(Nil) /\ Sorted(Nil) /\ Weak(Nil)
    BY <2>1, OfNil DEF Sorted, Weak
  <2>3. QED
    BY <2>2, NilIsTree
<1>2. ASSUME NEW t \in Trees, t # Nil, t.left \in S, t.right \in S PROVE t \in S
  <2> DEFINE p == InOrder(t.left)  q == InOrder(t.right)  s == InOrder(t)  m == Len(p)
  <2>1. /\ t.key \in Int /\ t.left \in Trees /\ t.right \in Trees
        /\ KeysOf(t) = {t.key} \cup KeysOf(t.left) \cup KeysOf(t.right)
        /\ KeysOf(t.left) \subseteq Int /\ KeysOf(t.right) \subseteq Int
    BY <1>2, TreeParts, OfNode, KeysAreInts
  <2>2. p \in Seq(Int) /\ q \in Seq(Int) /\ s = p \o <<t.key>> \o q
    BY <1>2, <2>1, InOrderDef
  <2>3. /\ DOMAIN s = 1 .. (m + 1 + Len(q))
        /\ \A i \in 1 .. (m + 1 + Len(q)) :
             s[i] = IF i <= m THEN p[i] ELSE IF i = m + 1 THEN t.key ELSE q[i - m - 1]
    BY <2>1, <2>2, AroundOne
  <2>4. /\ m \in Nat /\ Len(q) \in Nat /\ DOMAIN p = 1 .. m /\ DOMAIN q = 1 .. Len(q)
    BY <2>2
  <2>5. /\ \A i \in 1 .. m : p[i] \in KeysOf(t.left)
        /\ \A i \in 1 .. Len(q) : q[i] \in KeysOf(t.right)
        /\ \A x \in KeysOf(t.left) : \E i \in 1 .. m : p[i] = x
        /\ \A x \in KeysOf(t.right) : \E i \in 1 .. Len(q) : q[i] = x
    BY <1>2, <2>4
  <2>6. /\ Weak(t.left) <=> \A i, j \in 1 .. m : i < j => p[i] <= p[j]
        /\ Weak(t.right) <=> \A i, j \in 1 .. Len(q) : i < j => q[i] <= q[j]
        /\ Weak(t) <=> /\ Weak(t.left) /\ Weak(t.right)
                       /\ \A x \in KeysOf(t.left) : x <= t.key
                       /\ \A x \in KeysOf(t.right) : t.key <= x
    BY <1>2, <2>4, WeakNode DEF Sorted
  <2>7. Sorted(t) <=> \A i, j \in DOMAIN s : i < j => s[i] <= s[j]
    BY DEF Sorted
  <2> HIDE DEF p, q, s, m
  <2>8. \A i \in 1 .. m : i \in DOMAIN s /\ s[i] = p[i]
    BY <2>3, <2>4
  <2>9. m + 1 \in DOMAIN s /\ s[m + 1] = t.key
    BY <2>3, <2>4
  <2>10. \A i \in 1 .. Len(q) : i + m + 1 \in DOMAIN s /\ s[i + m + 1] = q[i]
    <3>1. SUFFICES ASSUME NEW i \in 1 .. Len(q)
                   PROVE  i + m + 1 \in DOMAIN s /\ s[i + m + 1] = q[i]
      OBVIOUS
    <3>2. i + m + 1 \in 1 .. (m + 1 + Len(q)) /\ ~(i + m + 1 <= m) /\ i + m + 1 # m + 1
          /\ (i + m + 1) - m - 1 = i
      BY <2>4
    <3>3. QED
      BY <2>3, <3>2
  <2>11. \A i \in DOMAIN s : \/ i \in 1 .. m
                             \/ i = m + 1
                             \/ \E n \in 1 .. Len(q) : i = n + m + 1
    <3>1. SUFFICES ASSUME NEW i \in DOMAIN s, i \notin 1 .. m, i # m + 1
                   PROVE  \E n \in 1 .. Len(q) : i = n + m + 1
      OBVIOUS
    <3>2. i - m - 1 \in 1 .. Len(q) /\ i = (i - m - 1) + m + 1
      BY <2>3, <2>4, <3>1
    <3>3. QED
      BY <3>2
  <2>12. Shows(t)
    <3>1. \A i \in DOMAIN s : s[i] \in KeysOf(t)
      BY <2>1, <2>5, <2>8, <2>9, <2>10, <2>11
    <3>2. \A x \in KeysOf(t) : \E i \in DOMAIN s : s[i] = x
      BY <2>1, <2>5, <2>8, <2>9, <2>10
    <3>3. QED
      BY <3>1, <3>2 DEF s
  <2>13. ASSUME Sorted(t) PROVE Weak(t)
    <3>1. \A i, j \in 1 .. m : i < j => p[i] <= p[j]
      BY <2>7, <2>8, <2>13
    <3>2. \A i, j \in 1 .. Len(q) : i < j => q[i] <= q[j]
      <4>1. SUFFICES ASSUME NEW i \in 1 .. Len(q), NEW j \in 1 .. Len(q), i < j
                     PROVE  q[i] <= q[j]
        OBVIOUS
      <4>2. i + m + 1 < j + m + 1
        BY <2>4, <4>1
      <4>3. QED
        BY <2>7, <2>10, <2>13, <4>2
    <3>3. \A i \in 1 .. m : p[i] <= t.key
      <4>1. SUFFICES ASSUME NEW i \in 1 .. m PROVE p[i] <= t.key
        OBVIOUS
      <4>2. i < m + 1
        BY <2>4
      <4>3. QED
        BY <2>7, <2>8, <2>9, <2>13, <4>2
    <3>4. \A i \in 1 .. Len(q) : t.key <= q[i]
      <4>1. SUFFICES ASSUME NEW i \in 1 .. Len(q) PROVE t.key <= q[i]
        OBVIOUS
      <4>2. m + 1 < i + m + 1
        BY <2>4
      <4>3. QED
        BY <2>7, <2>9, <2>10, <2>13, <4>2
    <3>5. QED
      BY <2>5, <2>6, <3>1, <3>2, <3>3, <3>4
  <2>14. ASSUME Weak(t) PROVE Sorted(t)
    <3>1. SUFFICES ASSUME NEW i \in DOMAIN s, NEW j \in DOMAIN s, i < j PROVE s[i] <= s[j]
      BY <2>7
    <3>2. /\ \A x \in KeysOf(t.left) : x \in Int /\ x <= t.key
          /\ \A x \in KeysOf(t.right) : x \in Int /\ t.key <= x
      BY <2>1, <2>6, <2>14
    <3>3. CASE i \in 1 .. m /\ j \in 1 .. m
      BY <2>6, <2>8, <2>14, <3>1, <3>3
    <3>4. CASE i \in 1 .. m /\ j = m + 1
      BY <2>5, <2>8, <2>9, <3>2, <3>4
    <3>5. ASSUME NEW n \in 1 .. Len(q), i \in 1 .. m \/ i = m + 1, j = n + m + 1 PROVE s[i] <= s[j]
      <4>1. s[j] \in KeysOf(t.right) /\ (s[i] \in KeysOf(t.left) \/ s[i] = t.key)
        BY <2>5, <2>8, <2>9, <2>10, <3>5
      <4>2. QED
        BY <2>1, <3>2, <4>1
    <3>6. ASSUME NEW a \in 1 .. Len(q), NEW n \in 1 .. Len(q), i = a + m + 1, j = n + m + 1
          PROVE  s[i] <= s[j]
      <4>1. a < n
        BY <2>4, <3>1, <3>6
      <4>2. QED
        BY <2>6, <2>10, <2>14, <3>6, <4>1
    <3>7. ASSUME ~(i \in 1 .. m), j \in 1 .. m PROVE FALSE
      BY <2>3, <2>4, <3>1, <3>7
    <3>8. ASSUME i = m + 1, j = m + 1 PROVE FALSE
      BY <2>4, <3>1, <3>8
    <3>9. ASSUME NEW n \in 1 .. Len(q), i = n + m + 1, j = m + 1 PROVE FALSE
      BY <2>4, <3>1, <3>9
    <3>10. QED
      BY <2>11, <3>3, <3>4, <3>5, <3>6, <3>7, <3>8, <3>9
  <2>15. QED
    BY <2>12, <2>13, <2>14
<1> HIDE DEF S
<1>3. Trees \subseteq S
  BY <1>1, <1>2, ChildInduction
<1>4. QED
  BY <1>3 DEF S

\* What is left of t without one node of key k.
Without(t, k, u) ==
  /\ u \in Trees /\ Weak(u) /\ KeysOf(u) \subseteq KeysOf(t)
  /\ \A j \in Keys : Copies(t)[j] = Copies(u)[j] + (IF j = k THEN 1 ELSE 0)

\* How many a node holds of each key.
LEMMA CopiesMade ==
  ASSUME NEW k \in Int, NEW c \in Colors, NEW l \in Trees, NEW r \in Trees, NEW t,
         t = Node(k, c, l, r)
  PROVE  /\ KeysOf(t) = {k} \cup KeysOf(l) \cup KeysOf(r)
         /\ \A j \in Keys : Copies(t)[j] = Copies(l)[j] + Copies(r)[j] + (IF j = k THEN 1 ELSE 0)
BY Made DEF Built

\* A node whose child lost one has lost one.
LEMMA WithoutAbove ==
  ASSUME NEW t \in Trees, t # Nil, Weak(t), NEW k \in Int, NEW w
  PROVE  /\ Without(t.left, k, w) => Without(t, k, HangLeft(t, w))
         /\ Without(t.right, k, w) => Without(t, k, HangRight(t, w))
<1>1. /\ t.key \in Int /\ t.color \in Colors /\ t.left \in Trees /\ t.right \in Trees
      /\ Copies(t.left) \in [Keys -> Nat] /\ Copies(t.right) \in [Keys -> Nat]
      /\ t = Node(t.key, t.color, t.left, t.right)
  BY TreeParts, KeysAreInts
<1>2. /\ Weak(t.left) /\ Weak(t.right)
      /\ \A x \in KeysOf(t.left) : x <= t.key
      /\ \A x \in KeysOf(t.right) : t.key <= x
  BY WeakNode
<1>3. /\ KeysOf(t) = {t.key} \cup KeysOf(t.left) \cup KeysOf(t.right)
      /\ \A j \in Keys :
           Copies(t)[j] = Copies(t.left)[j] + Copies(t.right)[j] + (IF j = t.key THEN 1 ELSE 0)
  BY <1>1, CopiesMade
<1>4. ASSUME Without(t.left, k, w) PROVE Without(t, k, HangLeft(t, w))
  <2> DEFINE u == HangLeft(t, w)
  <2>1. w \in Trees /\ Weak(w) /\ KeysOf(w) \subseteq KeysOf(t.left) /\ Copies(w) \in [Keys -> Nat]
    BY <1>4, KeysAreInts DEF Without
  <2>2. u = Node(t.key, t.color, w, t.right) /\ u \in Trees
    BY <2>1, HangFacts
  <2> HIDE DEF u
  <2>3. Weak(u)
    BY <1>1, <1>2, <2>1, <2>2, WeakMade
  <2>4. /\ KeysOf(u) = {t.key} \cup KeysOf(w) \cup KeysOf(t.right)
        /\ \A j \in Keys :
             Copies(u)[j] = Copies(w)[j] + Copies(t.right)[j] + (IF j = t.key THEN 1 ELSE 0)
    BY <1>1, <2>1, <2>2, CopiesMade
  <2>5. ASSUME NEW j \in Keys
        PROVE  Copies(t)[j] = Copies(u)[j] + (IF j = k THEN 1 ELSE 0)
    <3>1. /\ Copies(t.left)[j] \in Nat /\ Copies(w)[j] \in Nat /\ Copies(t.right)[j] \in Nat
          /\ Copies(t.left)[j] = Copies(w)[j] + (IF j = k THEN 1 ELSE 0)
      BY <1>1, <1>4, <2>1 DEF Without
    <3>2. QED
      BY <1>3, <2>4, <3>1
  <2>6. QED
    BY <1>3, <2>1, <2>2, <2>3, <2>4, <2>5 DEF Without, u
<1>5. ASSUME Without(t.right, k, w) PROVE Without(t, k, HangRight(t, w))
  <2> DEFINE u == HangRight(t, w)
  <2>1. w \in Trees /\ Weak(w) /\ KeysOf(w) \subseteq KeysOf(t.right) /\ Copies(w) \in [Keys -> Nat]
    BY <1>5, KeysAreInts DEF Without
  <2>2. u = Node(t.key, t.color, t.left, w) /\ u \in Trees
    BY <2>1, HangFacts
  <2> HIDE DEF u
  <2>3. Weak(u)
    BY <1>1, <1>2, <2>1, <2>2, WeakMade
  <2>4. /\ KeysOf(u) = {t.key} \cup KeysOf(t.left) \cup KeysOf(w)
        /\ \A j \in Keys :
             Copies(u)[j] = Copies(t.left)[j] + Copies(w)[j] + (IF j = t.key THEN 1 ELSE 0)
    BY <1>1, <2>1, <2>2, CopiesMade
  <2>5. ASSUME NEW j \in Keys
        PROVE  Copies(t)[j] = Copies(u)[j] + (IF j = k THEN 1 ELSE 0)
    <3>1. /\ Copies(t.right)[j] \in Nat /\ Copies(w)[j] \in Nat /\ Copies(t.left)[j] \in Nat
          /\ Copies(t.right)[j] = Copies(w)[j] + (IF j = k THEN 1 ELSE 0)
      BY <1>1, <1>5, <2>1 DEF Without
    <3>2. QED
      BY <1>3, <2>4, <3>1
  <2>6. QED
    BY <1>3, <2>1, <2>2, <2>3, <2>4, <2>5 DEF Without, u
<1>6. QED
  BY <1>4, <1>5

\* The smallest is first in order, and dropping it takes that key once.
LEMMA SmallestIsFirst ==
  \A t \in Trees : t # Nil /\ Weak(t) =>
    /\ Smallest(t).key \in KeysOf(t) /\ \A x \in KeysOf(t) : Smallest(t).key <= x
    /\ Without(t, Smallest(t).key, DropSmallest(t))
<1> DEFINE First(t) == /\ Smallest(t).key \in KeysOf(t)
                       /\ \A x \in KeysOf(t) : Smallest(t).key <= x
                       /\ Without(t, Smallest(t).key, DropSmallest(t))
           S == {t \in Trees : t # Nil /\ Weak(t) => First(t)}
<1>1. Nil \in S
  BY NilIsTree
<1>2. ASSUME NEW t \in Trees, t # Nil, t.left \in S, t.right \in S PROVE t \in S
  <2>1. SUFFICES ASSUME Weak(t) PROVE First(t)
    BY <1>2
  <2>2. /\ t.key \in Int /\ t.left \in Trees /\ t.right \in Trees
        /\ KeysOf(t) = {t.key} \cup KeysOf(t.left) \cup KeysOf(t.right)
        /\ KeysOf(t.left) \subseteq Int /\ KeysOf(t.right) \subseteq Int
        /\ Weak(t.left) /\ Weak(t.right)
        /\ \A x \in KeysOf(t.left) : x <= t.key
        /\ \A x \in KeysOf(t.right) : t.key <= x
        /\ Copies(t) = [k \in Keys |-> Copies(t.left)[k] + Copies(t.right)[k]
                                       + (IF k = t.key THEN 1 ELSE 0)]
        /\ Copies(t.left) \in [Keys -> Nat] /\ Copies(t.right) \in [Keys -> Nat]
    BY <1>2, <2>1, TreeParts, KeysAreInts, OfNode, WeakNode
  <2>3. CASE t.left = Nil
    <3>1. Smallest(t) = t /\ DropSmallest(t) = t.right
      BY <1>2, <2>3, SmallestDef, DropSmallestDef
    <3>2. KeysOf(t.left) = {} /\ \A j \in Keys : Copies(t.left)[j] = 0
      BY <2>3, OfNil DEF Nothing
    <3>3. \A j \in Keys : Copies(t)[j] = Copies(t.right)[j] + (IF j = t.key THEN 1 ELSE 0)
      BY <2>2, <3>2
    <3>4. QED
      BY <2>2, <3>1, <3>2, <3>3 DEF Without
  <2>4. CASE t.left # Nil
    <3>1. Smallest(t) = Smallest(t.left) /\ DropSmallest(t) = HangLeft(t, DropSmallest(t.left))
      BY <1>2, <2>4, SmallestDef, DropSmallestDef
    <3>2. First(t.left)
      BY <1>2, <2>2, <2>4
    <3>3. Smallest(t.left).key \in Int
      BY <2>2, <3>2
    <3>4. Without(t, Smallest(t).key, DropSmallest(t))
      BY <1>2, <2>1, <3>1, <3>2, <3>3, WithoutAbove
    <3>5. Smallest(t).key \in KeysOf(t) /\ \A x \in KeysOf(t) : Smallest(t).key <= x
      BY <2>2, <3>1, <3>2, <3>3
    <3>6. QED
      BY <3>4, <3>5
  <2>5. QED
    BY <2>3, <2>4
<1> HIDE DEF S
<1>3. Trees \subseteq S
  BY <1>1, <1>2, ChildInduction
<1>4. QED
  BY <1>3 DEF S

\* What replaces a node is the rest of its keys in order.
LEMMA ReplacedWithout ==
  ASSUME NEW t \in Trees, t # Nil, Weak(t)
  PROVE  Without(t, t.key, Replaced(t))
<1>1. /\ t.key \in Int /\ t.left \in Trees /\ t.right \in Trees
      /\ KeysOf(t) = {t.key} \cup KeysOf(t.left) \cup KeysOf(t.right)
      /\ KeysOf(t.left) \subseteq Int /\ KeysOf(t.right) \subseteq Int
      /\ Weak(t.left) /\ Weak(t.right)
      /\ \A x \in KeysOf(t.left) : x <= t.key
      /\ \A x \in KeysOf(t.right) : t.key <= x
      /\ Copies(t) = [k \in Keys |-> Copies(t.left)[k] + Copies(t.right)[k]
                                     + (IF k = t.key THEN 1 ELSE 0)]
      /\ Copies(t.left) \in [Keys -> Nat] /\ Copies(t.right) \in [Keys -> Nat]
  BY TreeParts, KeysAreInts, OfNode, WeakNode
<1>2. CASE t.right = Nil
  <2>1. Replaced(t) = t.left
    BY <1>2, ReplacedParts
  <2>2. \A j \in Keys : Copies(t.right)[j] = 0
    BY <1>2, OfNil DEF Nothing
  <2>3. \A j \in Keys : Copies(t)[j] = Copies(t.left)[j] + (IF j = t.key THEN 1 ELSE 0)
    BY <1>1, <2>2
  <2>4. QED
    BY <1>1, <2>1, <2>3 DEF Without
<1>3. CASE t.right # Nil
  <2> DEFINE s == Smallest(t.right)  d == DropSmallest(t.right)  u == Replaced(t)
  <2>1. /\ s.key \in Int /\ s.color \in Colors /\ d \in Trees /\ u \in Trees
        /\ u = Node(s.key, s.color, t.left, d)
    BY <1>3, ReplacedParts
  <2>2. /\ s.key \in KeysOf(t.right) /\ \A x \in KeysOf(t.right) : s.key <= x
        /\ Without(t.right, s.key, d)
    BY <1>1, <1>3, SmallestIsFirst
  <2>3. Copies(d) \in [Keys -> Nat] /\ KeysOf(d) \subseteq KeysOf(t.right) /\ Weak(d)
    BY <2>1, <2>2, KeysAreInts DEF Without
  <2> HIDE DEF s, d, u
  <2>4. Weak(u)
    <3>1. \A x \in KeysOf(t.left) : x <= s.key
      BY <1>1, <2>1, <2>2
    <3>2. \A x \in KeysOf(d) : s.key <= x
      BY <2>2, <2>3
    <3>3. QED
      BY <1>1, <2>1, <2>3, <3>1, <3>2, WeakMade
  <2>5. /\ KeysOf(u) = {s.key} \cup KeysOf(t.left) \cup KeysOf(d)
        /\ \A j \in Keys : Copies(u)[j] = Copies(t.left)[j] + Copies(d)[j] + (IF j = s.key THEN 1 ELSE 0)
    BY <1>1, <2>1, CopiesMade
  <2>6. ASSUME NEW j \in Keys
        PROVE  Copies(t)[j] = Copies(u)[j] + (IF j = t.key THEN 1 ELSE 0)
    <3>1. /\ Copies(t.left)[j] \in Nat /\ Copies(d)[j] \in Nat /\ Copies(t.right)[j] \in Nat
          /\ Copies(t.right)[j] = Copies(d)[j] + (IF j = s.key THEN 1 ELSE 0)
          /\ Copies(t)[j] = Copies(t.left)[j] + Copies(t.right)[j] + (IF j = t.key THEN 1 ELSE 0)
      BY <1>1, <2>2, <2>3 DEF Without
    <3>2. QED
      BY <2>5, <3>1
  <2>7. QED
    BY <1>1, <2>1, <2>2, <2>3, <2>4, <2>5, <2>6 DEF Without, u
<1>4. QED
  BY <1>2, <1>3

\* The removal from below a node takes the key once and keeps the order, unless the right child of the
\* node it is found in has no left child.
LEMMA RemoveBelowWithout ==
  ASSUME NEW k \in Int
  PROVE  \A t \in Trees :
           /\ t # Nil /\ Weak(t) /\ t.key # k
           /\ Lookup(t, k) # Nil /\ ~NoLeftBelow(Lookup(t, k))
           => Without(t, k, RemoveBelow(t, k))
<1> DEFINE Meant(t) == /\ t # Nil /\ Weak(t) /\ t.key # k
                       /\ Lookup(t, k) # Nil /\ ~NoLeftBelow(Lookup(t, k))
           S == {t \in Trees : Meant(t) => Without(t, k, RemoveBelow(t, k))}
<1>1. Nil \in S
  BY NilIsTree
<1>2. ASSUME NEW t \in Trees, t # Nil, t.left \in S, t.right \in S PROVE t \in S
  <2>1. SUFFICES ASSUME Meant(t) PROVE Without(t, k, RemoveBelow(t, k))
    BY <1>2
  <2>2. PICK side \in {"left", "right"} : side = IF k < t.key THEN "left" ELSE "right"
    OBVIOUS
  <2> DEFINE c == t[side]
  <2>3. /\ c \in Trees /\ c \in S
        /\ side = "left" => c = t.left
        /\ side = "right" => c = t.right
    BY <1>2, Sides
  <2>4. RemoveBelow(t, k) = IF c # Nil /\ c.key = k THEN RemoveChild(t, side)
                            ELSE HangOn(t, side, RemoveBelow(c, k))
    BY <1>2, <2>2, RemoveBelowDef
  <2>5. RemoveChild(t, side) = IF ~NoLeftBelow(c) THEN HangOn(t, side, Replaced(c))
                               ELSE IF side = "left" THEN HangLeft(t, c.right.right) ELSE Loop
    BY DEF RemoveChild
  <2> HIDE DEF c, S
  <2>6. Lookup(t, k) = Lookup(c, k)
    BY <1>2, <2>1, <2>2, <2>3, LookupDef
  <2>7. c # Nil /\ Weak(c)
    <3>1. c # Nil
      BY <2>1, <2>6, NilIsTree, LookupDef
    <3>2. Weak(t.left) /\ Weak(t.right)
      BY <1>2, <2>1, WeakNode
    <3>3. QED
      BY <2>2, <2>3, <3>1, <3>2
  <2>8. PICK w : Without(c, k, w) /\ RemoveBelow(t, k) = HangOn(t, side, w)
    <3>1. CASE c.key = k
      <4>1. Lookup(c, k) = c
        BY <2>3, <3>1, LookupDef
      <4>2. RemoveBelow(t, k) = HangOn(t, side, Replaced(c))
        BY <2>1, <2>4, <2>5, <2>6, <2>7, <3>1, <4>1
      <4>3. Without(c, k, Replaced(c))
        BY <2>3, <2>7, <3>1, ReplacedWithout
      <4>4. QED
        BY <4>2, <4>3
    <3>2. CASE c.key # k
      <4>1. Without(c, k, RemoveBelow(c, k))
        BY <2>1, <2>3, <2>6, <2>7, <3>2 DEF S
      <4>2. QED
        BY <2>4, <3>2, <4>1
    <3>3. QED
      BY <3>1, <3>2
  <2>9. CASE side = "left"
    BY <1>2, <2>1, <2>3, <2>8, <2>9, WithoutAbove DEF HangOn
  <2>10. CASE side = "right"
    BY <1>2, <2>1, <2>3, <2>8, <2>10, WithoutAbove DEF HangOn
  <2>11. QED
    BY <2>9, <2>10
<1> HIDE DEF S
<1>3. Trees \subseteq S
  BY <1>1, <1>2, ChildInduction
<1>4. QED
  BY <1>3 DEF S

\* The same for the whole tree.
LEMMA BstRemoveWithout ==
  ASSUME NEW t \in Trees, NEW k \in Int, Weak(t),
         Lookup(t, k) # Nil, ~NoLeftBelow(Lookup(t, k))
  PROVE  Without(t, k, BstRemove(t, k))
<1>1. t # Nil
  BY NilIsTree, LookupDef
<1>2. CASE t.key = k
  <2>1. Lookup(t, k) = t
    BY <1>2, LookupDef
  <2>2. BstRemove(t, k) = Replaced(t)
    BY <1>2, <2>1 DEF BstRemove
  <2>3. QED
    BY <1>1, <1>2, <2>2, ReplacedWithout
<1>3. CASE t.key # k
  BY <1>1, <1>3, RemoveBelowWithout DEF BstRemove
<1>4. QED
  BY <1>2, <1>3

\* A plain search tree stays a tree as long as the program runs.
WholeTree == running = "yes" /\ kind = "bst" => root \in Trees

\* Every operation of the shell leaves a running binary search tree a tree.
LEMMA WholeTreeStep == WholeTree /\ [TreeNext]_treeVars => WholeTree'
<1>1. SUFFICES ASSUME WholeTree, [TreeNext]_treeVars, running' = "yes", kind' = "bst"
               PROVE  root' \in Trees
  BY DEF WholeTree
<1>2. CASE UNCHANGED treeVars
  BY <1>1, <1>2 DEF treeVars, WholeTree
<1>3. CASE root' = Nil
  BY <1>3, NilIsTree
<1>4. CASE running = "yes" /\ UNCHANGED <<kind, root>>
  BY <1>1, <1>4 DEF WholeTree
<1>5. ASSUME NEW k \in Keys, BstAdd(k) PROVE root' \in Trees
  <2>1. /\ root \in Trees /\ k \in Int /\ Becomes(IF Callable THEN Attach(root, k) ELSE Fault)
    BY <1>1, <1>5, TreesAssumption DEF BstAdd, Grows, Tree, WholeTree
  <2>2. Callable
    BY <1>1, <2>1, TreeIsOver
  <2>3. QED
    BY <2>1, <2>2, AttachDef DEF Becomes
<1>6. ASSUME NEW k \in Keys, BstDel(k) PROVE root' \in Trees
  <2>1. root \in Trees /\ k \in Int /\ kind = "bst"
    BY <1>1, <1>6, TreesAssumption DEF BstDel, Tree, WholeTree
  <2>2. ~Callable \/ Lookup(root, k) # Nil
    BY <1>1, <1>6 DEF BstDel, Fails
  <2>3. Becomes(IF Callable THEN BstRemove(root, k) ELSE Fault)
    BY <1>6, <2>2 DEF BstDel
  <2>4. Callable
    BY <1>1, <2>3, TreeIsOver
  <2>5. root # Nil
    BY <2>1, <2>2, <2>4, LookupDef
  <2>6. BstRemove(root, k) \in Trees \cup {Loop, Fault}
    BY <2>1, <2>5, BstRemoveType
  <2>7. root' = BstRemove(root, k) /\ running' = Outcome(BstRemove(root, k))
    BY <2>3, <2>4 DEF Becomes
  <2>8. QED
    BY <1>1, <2>6, <2>7 DEF Outcome
<1>7. ASSUME NEW c \in Kinds, Create(c) PROVE root' \in Trees
  BY <1>3, <1>7 DEF Create
<1>8. ASSUME NEW k \in Keys, AvlAdd(k) \/ RbAdd(k) \/ AvlDel(k) \/ RbDel(k) PROVE FALSE
  BY <1>1, <1>8 DEF AvlAdd, RbAdd, AvlDel, RbDel, Grows, Deleted, Fails, Tree
<1>9. CASE Find \/ Display
  BY <1>4, <1>9 DEF Find, Display, Reads, Fails
<1>10. CASE Destroy
  BY <1>3, <1>4, <1>10 DEF Destroy, Fails
<1>11. QED
  BY <1>1, <1>2, <1>5, <1>6, <1>7, <1>8, <1>9, <1>10 DEF TreeNext

\* BstRemovesOne, of BStree_remove in the shell.
THEOREM BstRemoves == TreeSpec => BstRemovesOne
<1> DEFINE Removes ==
      \A k \in Keys :
        (/\ BstDel(k) /\ usable /\ Sorted(root) /\ Lookup(root, k) # Nil
         /\ ~NoLeftBelow(Lookup(root, k)))
        => running' = "yes" /\ Sorted(root') /\ Copies(root') = Loses(k)
<1>1. WholeTree => Removes
  <2>1. SUFFICES ASSUME WholeTree, NEW k \in Keys, BstDel(k), usable, Sorted(root),
                        Lookup(root, k) # Nil, ~NoLeftBelow(Lookup(root, k))
                 PROVE  running' = "yes" /\ Sorted(root') /\ Copies(root') = Loses(k)
    OBVIOUS
  <2> DEFINE u == BstRemove(root, k)
  <2>2. root \in Trees /\ k \in Int /\ kind = "bst" /\ Becomes(u)
    BY <2>1, TreesAssumption DEF BstDel, Tree, WholeTree, Callable
  <2>3. Without(root, k, u)
    BY <2>1, <2>2, SortedIsWeak, BstRemoveWithout
  <2>4. root' = u /\ running' = "yes"
    BY <2>2, <2>3, TreeGoesOn DEF Without
  <2>5. Sorted(root')
    BY <2>3, <2>4, SortedIsWeak DEF Without
  <2>6. Copies(root') = Loses(k)
    <3>1. Copies(root) \in [Keys -> Nat] /\ Copies(u) \in [Keys -> Nat]
      BY <2>2, <2>3, KeysAreInts DEF Without
    <3>2. ASSUME NEW j \in Keys PROVE Copies(u)[j] = IF j = k THEN Copies(root)[j] - 1 ELSE Copies(root)[j]
      <4>1. Copies(root)[j] = Copies(u)[j] + (IF j = k THEN 1 ELSE 0)
        BY <2>3 DEF Without
      <4>2. Copies(u)[j] \in Nat
        BY <3>1
      <4>3. QED
        BY <4>1, <4>2
    <3> HIDE DEF u
    <3>3. Copies(u) = [Copies(root) EXCEPT ![k] = Copies(root)[k] - 1]
      BY <3>1, <3>2
    <3>4. QED
      BY <2>4, <3>3 DEF Loses
  <2>7. QED
    BY <2>4, <2>5, <2>6
<1>2. TreeInit => WholeTree
  BY DEF TreeInit, WholeTree
<1>3. WholeTree /\ [TreeNext]_treeVars => [Removes]_treeVars
  BY <1>1
<1>4. TreeSpec => [][Removes]_treeVars
  <2> HIDE DEF Removes
  <2>1. QED
    BY <1>2, <1>3, WholeTreeStep, PTL DEF TreeSpec
<1>5. QED
  BY <1>4 DEF BstRemovesOne

-----------------------------------------------------------------------------
(* Red-black tree: what a removal does to the rules.                       *)

\* The search that goes on below a node, by the removals from its children.
RbStep(t, k, balanced) ==
  IF t = Nil THEN <<Nil, balanced>>
  ELSE LET cmp == Sign(k, t)
           below == RbRemove(IF cmp <= 0 THEN t.left ELSE t.right, k, balanced)
           hung == IF cmp <= 0 THEN HangLeft(t, below[1]) ELSE HangRight(t, below[1])
       IN  IF below[2] THEN <<hung, TRUE>> ELSE RbRepair(hung, cmp)

\* tree_remove of a red-black tree, by the removals from lower trees.
LEMMA RbRemoveSteps ==
  ASSUME NEW t \in Trees, NEW k \in Int, NEW b \in BOOLEAN
  PROVE  /\ t = Nil => RbRemove(t, k, b) = <<Nil, TRUE>>
         /\ t # Nil /\ t.key # k => RbRemove(t, k, b) = RbStep(t, k, b)
         /\ t # Nil /\ t.key = k /\ ~HalfEmpty(t) =>
              RbRemove(t, k, b) = RbStep(TakesLargest(t), Largest(t.left).key, b)
         /\ t # Nil /\ t.key = k /\ HalfEmpty(t) =>
              RbRemove(t, k, b) = RbStep(Spliced(t), k, b \/ IsRed(t) \/ IsRed(OnlyChild(t)))
<1>1. PICK f \in [Trees -> RbRemovals] : \A s \in Trees : \A j \in Int : \A c \in BOOLEAN :
        /\ RbRemove(s, j, c) = f[s][j][c]
        /\ f[s][j][c] = RbRemoval(f, s, j, c)
  BY RbRemoveDef
<1>2. ASSUME NEW s \in Trees, NEW j \in Int, NEW c \in BOOLEAN PROVE RbDown(f, s, j, c) = RbStep(s, j, c)
  <2>1. CASE s = Nil
    BY <2>1 DEF RbDown, RbStep
  <2>2. CASE s # Nil
    <3>1. s.left \in Trees /\ s.right \in Trees
      BY <2>2, TreeParts
    <3>2. /\ RbRemove(s.left, j, c) = f[s.left][j][c]
          /\ RbRemove(s.right, j, c) = f[s.right][j][c]
      BY <1>1, <3>1
    <3>3. QED
      BY <2>2, <3>2 DEF RbDown, RbStep
  <2>3. QED
    BY <2>1, <2>2
<1>3. RbRemove(t, k, b) = RbRemoval(f, t, k, b)
  BY <1>1
<1>4. CASE t = Nil
  BY <1>3, <1>4 DEF RbRemoval
<1>5. CASE t # Nil /\ t.key # k
  BY <1>2, <1>3, <1>5 DEF RbRemoval
<1>6. CASE t # Nil /\ t.key = k /\ ~HalfEmpty(t)
  <2>1. TakesLargest(t) \in Trees /\ Largest(t.left).key \in Int
    BY <1>6, TakesLargestIsTree
  <2>2. RbRemove(t, k, b) = RbDown(f, TakesLargest(t), Largest(t.left).key, b)
    BY <1>3, <1>6 DEF RbRemoval
  <2>3. QED
    BY <1>2, <1>6, <2>1, <2>2
<1>7. CASE t # Nil /\ t.key = k /\ HalfEmpty(t)
  <2>1. Spliced(t) \in Trees
    BY <1>7, SplicedIsTree DEF Keeps
  <2>2. RbRemove(t, k, b) = RbDown(f, Spliced(t), k, b \/ IsRed(t) \/ IsRed(OnlyChild(t)))
    BY <1>3, <1>7 DEF RbRemoval
  <2>3. (b \/ IsRed(t) \/ IsRed(OnlyChild(t))) \in BOOLEAN
    OBVIOUS
  <2>4. QED
    BY <1>2, <1>7, <2>1, <2>2, <2>3
<1>8. QED
  BY <1>4, <1>5, <1>6, <1>7

\* A step of tree_remove, by the side it goes to.
LEMMA RbStepBelow ==
  ASSUME NEW t \in Trees, t # Nil, NEW k \in Int, NEW b \in BOOLEAN
  PROVE  RbStep(t, k, b) =
           IF Sign(k, t) <= 0
           THEN IF RbRemove(t.left, k, b)[2] THEN <<HangLeft(t, RbRemove(t.left, k, b)[1]), TRUE>>
                ELSE RbRepair(HangLeft(t, RbRemove(t.left, k, b)[1]), Sign(k, t))
           ELSE IF RbRemove(t.right, k, b)[2] THEN <<HangRight(t, RbRemove(t.right, k, b)[1]), TRUE>>
                ELSE RbRepair(HangRight(t, RbRemove(t.right, k, b)[1]), Sign(k, t))
<1>1. CASE Sign(k, t) <= 0
  BY <1>1 DEF RbStep
<1>2. CASE ~(Sign(k, t) <= 0)
  BY <1>2 DEF RbStep
<1>3. QED
  BY <1>1, <1>2

\* A node whose children a removal leaves as they are stays as it is.
LEMMA RbStepStays ==
  ASSUME NEW t \in Trees, t # Nil, NEW k \in Int, NEW b \in BOOLEAN,
         RbRemove(t.left, k, b) = <<t.left, TRUE>>, RbRemove(t.right, k, b) = <<t.right, TRUE>>
  PROVE  RbStep(t, k, b) = <<t, TRUE>>
<1>1. HangLeft(t, t.left) = t /\ HangRight(t, t.right) = t
  <2>1. t.left \in Trees /\ t.right \in Trees /\ t = Node(t.key, t.color, t.left, t.right)
    BY TreeParts
  <2>2. /\ HangLeft(t, t.left) = Node(t.key, t.color, t.left, t.right)
        /\ HangRight(t, t.right) = Node(t.key, t.color, t.left, t.right)
    BY <2>1, HangFacts
  <2>3. QED
    BY <2>1, <2>2
<1>2. /\ <<t.left, TRUE>>[1] = t.left /\ <<t.left, TRUE>>[2]
      /\ <<t.right, TRUE>>[1] = t.right /\ <<t.right, TRUE>>[2]
  OBVIOUS
<1>3. /\ RbRemove(t.left, k, b)[1] = t.left /\ RbRemove(t.left, k, b)[2]
      /\ RbRemove(t.right, k, b)[1] = t.right /\ RbRemove(t.right, k, b)[2]
  BY <1>2
<1>4. CASE Sign(k, t) <= 0
  <2>1. RbStep(t, k, b) = <<HangLeft(t, RbRemove(t.left, k, b)[1]), TRUE>>
    BY <1>3, <1>4, RbStepBelow
  <2>2. QED
    BY <1>1, <1>3, <2>1
<1>5. CASE ~(Sign(k, t) <= 0)
  <2>1. RbStep(t, k, b) = <<HangRight(t, RbRemove(t.right, k, b)[1]), TRUE>>
    BY <1>3, <1>5, RbStepBelow
  <2>2. QED
    BY <1>1, <1>3, <2>1
<1>6. QED
  BY <1>4, <1>5

\* The search that goes on below, by what it leaves there.
LEMMA RbStepSides ==
  ASSUME NEW t \in Trees, t # Nil, NEW k \in Int, NEW b \in BOOLEAN, NEW w
  PROVE  /\ k <= t.key => Sign(k, t) \in Int /\ Sign(k, t) <= 0
         /\ k <= t.key /\ RbRemove(t.left, k, b) = <<w, TRUE>> =>
              RbStep(t, k, b) = <<HangLeft(t, w), TRUE>>
         /\ k <= t.key /\ RbRemove(t.left, k, b) = <<w, FALSE>> =>
              RbStep(t, k, b) = RbRepair(HangLeft(t, w), Sign(k, t))
         /\ t.key < k /\ RbRemove(t.right, k, b) = <<w, TRUE>> =>
              RbStep(t, k, b) = <<HangRight(t, w), TRUE>>
<1>1. t.key \in Int
  BY TreeParts
<1>2. /\ k <= t.key => Sign(k, t) \in Int /\ Sign(k, t) <= 0
      /\ t.key < k => ~(Sign(k, t) <= 0)
  BY <1>1 DEF Sign
<1>3. /\ <<w, TRUE>>[1] = w /\ <<w, TRUE>>[2]
      /\ <<w, FALSE>>[1] = w /\ ~(<<w, FALSE>>[2])
  OBVIOUS
<1>4. QED
  BY <1>2, <1>3, RbStepBelow

\* A removal that finds nothing leaves the tree as it is.
LEMMA NothingRemoved ==
  ASSUME NEW k \in Int, NEW b \in BOOLEAN
  PROVE  \A t \in Trees : k \notin KeysOf(t) => RbRemove(t, k, b) = <<t, TRUE>>
<1> DEFINE S == {t \in Trees : k \notin KeysOf(t) => RbRemove(t, k, b) = <<t, TRUE>>}
<1>1. Nil \in S
  BY NilIsTree, RbRemoveSteps
<1>2. ASSUME NEW t \in Trees, t # Nil, t.left \in S, t.right \in S PROVE t \in S
  <2>1. SUFFICES ASSUME k \notin KeysOf(t) PROVE RbRemove(t, k, b) = <<t, TRUE>>
    BY <1>2
  <2>2. t.key # k /\ k \notin KeysOf(t.left) /\ k \notin KeysOf(t.right)
    BY <1>2, <2>1, OfNode
  <2>3. /\ RbRemove(t.left, k, b) = <<t.left, TRUE>> /\ RbRemove(t.right, k, b) = <<t.right, TRUE>>
    BY <1>2, <2>2
  <2>4. RbStep(t, k, b) = <<t, TRUE>>
    BY <1>2, <2>3, RbStepStays
  <2>5. QED
    BY <1>2, <2>2, <2>4, RbRemoveSteps
<1> HIDE DEF S
<1>3. Trees \subseteq S
  BY <1>1, <1>2, ChildInduction
<1>4. QED
  BY <1>3 DEF S

\* The nodes of a tree are trees that are no higher.
LEMMA NodesAreLower ==
  \A t \in Trees : \A s \in Nodes(t) : s \in Trees /\ s # Nil /\ Height(s) <= Height(t)
<1> DEFINE S == {t \in Trees : \A s \in Nodes(t) : s \in Trees /\ s # Nil /\ Height(s) <= Height(t)}
<1>1. Nil \in S
  BY NilIsTree, OfNil
<1>2. ASSUME NEW t \in Trees, t # Nil, t.left \in S, t.right \in S PROVE t \in S
  <2>1. /\ Nodes(t) = {t} \cup Nodes(t.left) \cup Nodes(t.right)
        /\ Height(t.left) < Height(t) /\ Height(t.right) < Height(t)
        /\ Height(t) \in Nat /\ Height(t.left) \in Nat /\ Height(t.right) \in Nat
    BY <1>2, NodesDef, TreeParts, HeightIsLeast
  <2>2. ASSUME NEW s \in Nodes(t) PROVE s \in Trees /\ s # Nil /\ Height(s) <= Height(t)
    <3>1. CASE s = t
      BY <1>2, <2>1, <3>1
    <3>2. CASE s \in Nodes(t.left) \cup Nodes(t.right)
      <4>1. s \in Trees /\ s # Nil /\ (Height(s) <= Height(t.left) \/ Height(s) <= Height(t.right))
        BY <1>2, <3>2
      <4>2. Height(s) \in Nat
        BY <4>1, HeightIsLeast
      <4>3. QED
        BY <2>1, <4>1, <4>2
    <3>3. QED
      BY <2>1, <3>1, <3>2
  <2>3. QED
    BY <2>2
<1> HIDE DEF S
<1>3. Trees \subseteq S
  BY <1>1, <1>2, ChildInduction
<1>4. QED
  BY <1>3 DEF S

\* In order, a look up finds the one node of a key.
LEMMA LookupOfNode ==
  \A t \in Trees : Ordered(t) => \A s \in Nodes(t) : Lookup(t, s.key) = s
<1> DEFINE S == {t \in Trees : Ordered(t) => \A s \in Nodes(t) : Lookup(t, s.key) = s}
<1>1. Nil \in S
  BY NilIsTree, OfNil
<1>2. ASSUME NEW t \in Trees, t # Nil, t.left \in S, t.right \in S PROVE t \in S
  <2>1. SUFFICES ASSUME Ordered(t), NEW s \in Nodes(t) PROVE Lookup(t, s.key) = s
    BY <1>2
  <2>2. /\ t.key \in Int /\ Ordered(t.left) /\ Ordered(t.right)
        /\ \A x \in KeysOf(t.left) : x < t.key
        /\ \A x \in KeysOf(t.right) : t.key < x
        /\ Nodes(t) = {t} \cup Nodes(t.left) \cup Nodes(t.right)
        /\ KeysOf(t.left) \subseteq Int /\ KeysOf(t.right) \subseteq Int
    BY <1>2, <2>1, OfNode, TreeParts, KeysAreInts
  <2>3. CASE s = t
    BY <1>2, <2>2, <2>3, LookupDef
  <2>4. CASE s \in Nodes(t.left)
    <3>1. s.key \in KeysOf(t.left)
      BY <2>4 DEF KeysOf
    <3>2. s.key < t.key /\ s.key \in Int
      BY <2>2, <3>1
    <3>3. QED
      BY <1>2, <2>2, <2>4, <3>2, LookupDef
  <2>5. CASE s \in Nodes(t.right)
    <3>1. s.key \in KeysOf(t.right)
      BY <2>5 DEF KeysOf
    <3>2. t.key < s.key /\ s.key \in Int
      BY <2>2, <3>1
    <3>3. QED
      BY <1>2, <2>2, <2>5, <3>2, LookupDef
  <2>6. QED
    BY <2>2, <2>3, <2>4, <2>5
<1> HIDE DEF S
<1>3. Trees \subseteq S
  BY <1>1, <1>2, ChildInduction
<1>4. QED
  BY <1>3 DEF S

\* What a look up finds is a node with the key.
LEMMA LookupIsNode ==
  ASSUME NEW k \in Int
  PROVE  \A t \in Trees : Lookup(t, k) # Nil =>
           Lookup(t, k) \in Nodes(t) /\ Lookup(t, k).key = k
<1> DEFINE S == {t \in Trees : Lookup(t, k) # Nil =>
                   Lookup(t, k) \in Nodes(t) /\ Lookup(t, k).key = k}
<1>1. Nil \in S
  BY NilIsTree, LookupDef
<1>2. ASSUME NEW t \in Trees, t # Nil, t.left \in S, t.right \in S PROVE t \in S
  <2>1. Nodes(t) = {t} \cup Nodes(t.left) \cup Nodes(t.right)
    BY <1>2, NodesDef
  <2>2. Lookup(t, k) = IF t.key = k THEN t
                       ELSE IF k < t.key THEN Lookup(t.left, k) ELSE Lookup(t.right, k)
    BY <1>2, LookupDef
  <2>3. QED
    BY <1>2, <2>1, <2>2
<1> HIDE DEF S
<1>3. Trees \subseteq S
  BY <1>1, <1>2, ChildInduction
<1>4. QED
  BY <1>3 DEF S

\* The node that is taken out is one of the tree.
LEMMA TakenOutIsNode ==
  ASSUME NEW t \in Trees, NEW k \in Int
  PROVE  TakenOut(t, k) = Nil \/ TakenOut(t, k) \in Nodes(t)
<1> DEFINE s == Lookup(t, k)
<1>1. s = Nil \/ s \in Nodes(t)
  BY LookupIsNode
<1> HIDE DEF s
<1>2. CASE s = Nil \/ HalfEmpty(s)
  BY <1>1, <1>2 DEF TakenOut, s
<1>3. CASE s # Nil /\ ~HalfEmpty(s)
  <2>1. TakenOut(t, k) = Largest(s.left)
    BY <1>3 DEF TakenOut, s
  <2>2. s \in Trees /\ s.left \in Trees /\ s.left # Nil
    BY <1>1, <1>3, NodesAreLower, TreeParts DEF HalfEmpty
  <2>3. Largest(s.left) \in Nodes(s)
    BY <1>3, <2>2, LargestIsLast, NodesDef
  <2>4. Nodes(s) \subseteq Nodes(t)
    <3> DEFINE S == {u \in Trees : \A n \in Nodes(u) : Nodes(n) \subseteq Nodes(u)}
    <3>1. Nil \in S
      BY NilIsTree, OfNil
    <3>2. ASSUME NEW u \in Trees, u # Nil, u.left \in S, u.right \in S PROVE u \in S
      <4>1. Nodes(u) = {u} \cup Nodes(u.left) \cup Nodes(u.right)
        BY <3>2, NodesDef
      <4>2. QED
        BY <3>2, <4>1
    <3> HIDE DEF S
    <3>3. t \in S
      BY <3>1, <3>2, ChildInduction
    <3>4. QED
      BY <1>1, <1>3, <3>3 DEF S
  <2>5. QED
    BY <2>1, <2>3, <2>4
<1>4. QED
  BY <1>2, <1>3

\* The node taken out of t is the one taken out of the child the search goes to.
LEMMA TakenBelow ==
  ASSUME NEW t \in Trees, t # Nil, Ordered(t), NEW k \in Int
  PROVE  /\ k < t.key => TakenOut(t, k) = TakenOut(t.left, k)
         /\ t.key < k => TakenOut(t, k) = TakenOut(t.right, k)
         /\ k = t.key /\ HalfEmpty(t) => TakenOut(t, k) = t
         /\ k = t.key /\ ~HalfEmpty(t) =>
              TakenOut(t, k) = TakenOut(t.left, Largest(t.left).key)
<1>1. /\ t.key \in Int /\ t.left \in Trees /\ t.right \in Trees
      /\ Ordered(t.left) /\ Ordered(t.right)
  BY TreeParts, OfNode
<1>2. Lookup(t, k) = IF t.key = k THEN t
                     ELSE IF k < t.key THEN Lookup(t.left, k) ELSE Lookup(t.right, k)
  BY LookupDef
<1>3. k < t.key => TakenOut(t, k) = TakenOut(t.left, k)
  <2>1. k < t.key => Lookup(t, k) = Lookup(t.left, k)
    BY <1>1, <1>2
  <2>2. QED
    BY <2>1 DEF TakenOut
<1>4. t.key < k => TakenOut(t, k) = TakenOut(t.right, k)
  <2>1. t.key < k => Lookup(t, k) = Lookup(t.right, k)
    BY <1>1, <1>2
  <2>2. QED
    BY <2>1 DEF TakenOut
<1>5. k = t.key /\ HalfEmpty(t) => TakenOut(t, k) = t
  BY <1>2 DEF TakenOut
<1>6. ASSUME k = t.key, ~HalfEmpty(t) PROVE TakenOut(t, k) = TakenOut(t.left, Largest(t.left).key)
  <2> DEFINE s == Largest(t.left)
  <2>1. t.left # Nil
    BY <1>6 DEF HalfEmpty
  <2>2. s \in Nodes(t.left) /\ s.right = Nil /\ s # Nil
    BY <1>1, <2>1, LargestIsLast
  <2>3. TakenOut(t, k) = s
    BY <1>2, <1>6 DEF TakenOut
  <2> HIDE DEF s
  <2>4. Lookup(t.left, s.key) = s
    BY <1>1, <2>2, LookupOfNode
  <2>5. TakenOut(t.left, s.key) = s
    BY <2>2, <2>4 DEF TakenOut, HalfEmpty
  <2>6. QED
    BY <2>3, <2>5 DEF s
<1>7. QED
  BY <1>3, <1>4, <1>5, <1>6

\* When it is below the left child, the way to it only goes left if it does so
\* below, past a right child that is black; when it is below the right one, it does not.
LEMMA OnlyLeftBelow ==
  ASSUME NEW t \in Trees, t # Nil, Ordered(t), NEW k \in Int, NEW j \in Int
  PROVE  /\ /\ TakenOut(t, k) = TakenOut(t.left, j)
            /\ CostsBlack(t.left, j) /\ (CostsBlack(t, k) => OnlyLeft(t, k))
            => OnlyLeft(t.left, j) /\ ~IsRed(t.right) /\ CostsBlack(t, k)
         /\ /\ TakenOut(t, k) = TakenOut(t.right, j)
            /\ CostsBlack(t.right, j)
            => ~OnlyLeft(t, k) /\ CostsBlack(t, k)
<1> DEFINE s == TakenOut(t, k)
<1>1. /\ t.left \in Trees /\ t.right \in Trees
      /\ Height(t.left) < Height(t) /\ Height(t.right) < Height(t)
      /\ Nodes(t) = {t} \cup Nodes(t.left) \cup Nodes(t.right)
  BY TreeParts, NodesDef
<1>2. Height(t) \in Nat /\ Height(t.left) \in Nat /\ Height(t.right) \in Nat
  BY <1>1, HeightIsLeast
<1>3. t \notin Nodes(t.left) /\ t \notin Nodes(t.right)
  BY <1>1, <1>2, NodesAreLower
<1>4. Nodes(t.left) \cap Nodes(t.right) = {}
  <2>1. SUFFICES ASSUME NEW n \in Nodes(t.left), n \in Nodes(t.right) PROVE FALSE
    OBVIOUS
  <2>2. n.key \in KeysOf(t.left) /\ n.key \in KeysOf(t.right)
    BY <2>1 DEF KeysOf
  <2>3. /\ t.key \in Int /\ KeysOf(t.left) \subseteq Int
        /\ \A x \in KeysOf(t.left) : x < t.key
        /\ \A x \in KeysOf(t.right) : t.key < x
    BY <1>1, TreeParts, OfNode, KeysAreInts
  <2>4. QED
    BY <2>2, <2>3
<1>5. ASSUME s = TakenOut(t.left, j), CostsBlack(t.left, j), CostsBlack(t, k) => OnlyLeft(t, k)
      PROVE  OnlyLeft(t.left, j) /\ ~IsRed(t.right) /\ CostsBlack(t, k)
  <2>1. CostsBlack(t, k) /\ s # Nil
    BY <1>5 DEF CostsBlack
  <2>2. \A n \in Nodes(t) : s \in Nodes(n) \ {n} => s \in Nodes(n.left) /\ ~IsRed(n.right)
    BY <1>5, <2>1 DEF OnlyLeft
  <2>3. s \in Nodes(t.left)
    BY <1>1, <1>5, <2>1, TakenOutIsNode
  <2>4. ~IsRed(t.right)
    BY <1>1, <1>3, <2>2, <2>3
  <2> HIDE DEF s
  <2>5. OnlyLeft(t.left, j)
    BY <1>1, <1>5, <2>2 DEF OnlyLeft
  <2>6. QED
    BY <2>1, <2>4, <2>5
<1>6. ASSUME s = TakenOut(t.right, j), CostsBlack(t.right, j)
      PROVE  ~OnlyLeft(t, k) /\ CostsBlack(t, k)
  <2>1. CostsBlack(t, k) /\ s # Nil
    BY <1>6 DEF CostsBlack
  <2>2. s \in Nodes(t.right)
    BY <1>1, <1>6, <2>1, TakenOutIsNode
  <2>3. s \in Nodes(t) \ {t} /\ s \notin Nodes(t.left) /\ t \in Nodes(t)
    BY <1>1, <1>3, <1>4, <2>2
  <2>4. QED
    BY <2>1, <2>3 DEF OnlyLeft
<1>7. QED
  BY <1>5, <1>6

\* A black sibling on the right without a red child: it is painted red.
LEMMA RecolourRight ==
  ASSUME NEW h \in Trees, h # Nil, h.right # Nil
  PROVE  LET s == h.right IN
         Recolour(h, "right") =
           <<Node(h.key, "black", h.left, Node(s.key, "red", s.left, s.right)), IsRed(h)>>
<1> DEFINE s == h.right  v == Node(s.key, "red", s.left, s.right)
<1>1. h.key \in Int /\ h.color \in Colors /\ h.left \in Trees /\ s \in Trees
  BY TreeParts
<1>2. Paint(s, "red") = v
  BY <1>1, Painted, BlackAndRed
<1>3. v \in Trees
  BY <1>1, TreeParts, NodeIsTree, BlackAndRed
<1> HIDE DEF v
<1>4. HangOn(h, "right", Paint(s, "red")) = Node(h.key, h.color, h.left, v)
  BY <1>2, <1>3, HangFacts DEF HangOn
<1>5. Paint(Node(h.key, h.color, h.left, v), "black") = Node(h.key, "black", h.left, v)
  <2> DEFINE m == Node(h.key, h.color, h.left, v)
  <2>1. m \in Trees /\ m # Nil /\ m.key = h.key /\ m.left = h.left /\ m.right = v
    BY <1>1, <1>3, NodeParts
  <2> HIDE DEF m
  <2>2. QED
    BY <2>1, Painted, BlackAndRed DEF m
<1>6. QED
  BY <1>4, <1>5 DEF Recolour, v

\* A black sibling on the right with a red child: the child or the sibling moves up.
LEMMA TurnAroundRight ==
  ASSUME NEW h \in Trees, h # Nil, h.right # Nil
  PROVE  LET s == h.right IN
         /\ IsRed(s.right) =>
              TurnAround(h, s) =
                Node(s.key, h.color, Node(h.key, "black", h.left, s.left),
                     Node(s.right.key, "black", s.right.left, s.right.right))
         /\ ~IsRed(s.right) /\ IsRed(s.left) =>
              TurnAround(h, s) =
                Node(s.left.key, h.color, Node(h.key, "black", h.left, s.left.left),
                     Node(s.key, "black", s.left.right, s.right))
<1> DEFINE s == h.right
<1>1. /\ h.key \in Int /\ h.color \in Colors /\ h.left \in Trees /\ s \in Trees /\ s # Nil
      /\ s.key \in Int /\ s.left \in Trees /\ s.right \in Trees
  BY TreeParts
<1>2. \A k \in Int : \A l, r \in Trees :
        /\ Node(k, "red", l, r) \in Trees /\ Node(k, "red", l, r) # Nil
        /\ Paint(Node(k, "red", l, r), "black") = Node(k, "black", l, r)
  <2>1. ASSUME NEW k \in Int, NEW l \in Trees, NEW r \in Trees, NEW m, m = Node(k, "red", l, r)
        PROVE  m \in Trees /\ m # Nil /\ Paint(m, "black") = Node(k, "black", l, r)
    <3>1. m \in Trees /\ m # Nil /\ m.key = k /\ m.left = l /\ m.right = r
      BY <2>1, NodeParts, BlackAndRed
    <3>2. QED
      BY <3>1, Painted, BlackAndRed
  <2>2. QED
    BY <2>1
<1>3. ASSUME NEW k \in Int, NEW l \in Trees, NEW r \in Trees, NEW t, t = Node(k, "black", l, r),
             t = IF IsRed(s.right) THEN RbRotRR(h) ELSE RbRotRL(h), l # Nil, r # Nil
      PROVE  TurnAround(h, s) = Node(k, h.color, Paint(l, "black"), Paint(r, "black"))
  <2>1. t.key = k /\ t.left = l /\ t.right = r /\ t \notin Marks
    BY <1>3, NodeIsRecord
  <2>2. QED
    BY <1>3, <2>1 DEF TurnAround, Marks
<1>4. ASSUME IsRed(s.right)
      PROVE  TurnAround(h, s) =
               Node(s.key, h.color, Node(h.key, "black", h.left, s.left),
                    Node(s.right.key, "black", s.right.left, s.right.right))
  <2> DEFINE l == Node(h.key, "red", h.left, s.left)
  <2>1. s.right # Nil
    BY <1>4, RedIsNode
  <2>2. RbRotRR(h) = Node(s.key, "black", l, s.right)
    BY RbShapeRR
  <2>3. l \in Trees /\ l # Nil /\ Paint(l, "black") = Node(h.key, "black", h.left, s.left)
    BY <1>1, <1>2
  <2>4. Paint(s.right, "black") = Node(s.right.key, "black", s.right.left, s.right.right)
    BY <1>1, <2>1, Painted, BlackAndRed
  <2> HIDE DEF l, s
  <2>5. TurnAround(h, s) = Node(s.key, h.color, Paint(l, "black"), Paint(s.right, "black"))
    BY <1>1, <1>3, <1>4, <2>1, <2>2, <2>3
  <2>6. QED
    BY <2>3, <2>4, <2>5
<1>5. ASSUME ~IsRed(s.right), IsRed(s.left)
      PROVE  TurnAround(h, s) =
               Node(s.left.key, h.color, Node(h.key, "black", h.left, s.left.left),
                    Node(s.key, "black", s.left.right, s.right))
  <2> DEFINE y == s.left
             l == Node(h.key, "red", h.left, y.left)
             r == Node(s.key, "red", y.right, s.right)
  <2>1. y # Nil /\ y \in Trees
    BY <1>1, <1>5, RedIsNode
  <2>2. y.key \in Int /\ y.left \in Trees /\ y.right \in Trees
    BY <2>1, TreeParts
  <2>3. RbRotRL(h) = Node(y.key, "black", l, r)
    BY <2>1, RbShapeRL
  <2>4. /\ l \in Trees /\ l # Nil /\ Paint(l, "black") = Node(h.key, "black", h.left, y.left)
        /\ r \in Trees /\ r # Nil /\ Paint(r, "black") = Node(s.key, "black", y.right, s.right)
    BY <1>1, <1>2, <2>2
  <2> HIDE DEF l, r, y, s
  <2>5. TurnAround(h, s) = Node(y.key, h.color, Paint(l, "black"), Paint(r, "black"))
    BY <1>3, <1>5, <2>2, <2>3, <2>4
  <2>6. QED
    BY <2>4, <2>5 DEF y
<1>6. QED
  BY <1>4, <1>5 DEF s

\* A node whose left child lost a black one, next to a sibling that is black: the
\* repair makes up for it, or the node loses one.
LEMMA RepairOnTheRight ==
  ASSUME NEW h \in Trees, h # Nil, NEW cmp \in Int, cmp <= 0, ~IsRed(h.right),
         NoRedPair(h.left), NoRedPair(h.right),
         BlackHeight(h.left) > 0, BlackHeight(h.right) = BlackHeight(h.left) + 1
  PROVE  \E u \in Trees, c \in BOOLEAN :
           /\ RbRepair(h, cmp) = <<u, c>> /\ Keeps(h, u) /\ NoRedPair(u)
           /\ c => /\ BlackHeight(u) = BlackHeight(h.right) + (IF h.color = "red" THEN 0 ELSE 1)
                   /\ IsRed(u) => h.color = "red"
           /\ ~c => BlackHeight(u) = BlackHeight(h.right) /\ h.color # "red" /\ ~IsRed(u)
<1> DEFINE s == h.right  n == BlackHeight(h.left)
<1>1. /\ h.key \in Int /\ h.color \in Colors /\ h.left \in Trees /\ s \in Trees /\ h # Fault
      /\ IsRed(h) <=> h.color = "red"
  BY TreeParts, TreeIsNoFault, ColorsOf
<1>2. n \in Nat /\ BlackHeight(s) = n + 1 /\ n > 0
  BY <1>1, BlackHeightDef
<1>3. s # Nil
  BY <1>2, NilColors
<1>4. /\ s.key \in Int /\ s.left \in Trees /\ s.right \in Trees /\ s.color # "red"
      /\ BlackHeight(s.left) \in Nat /\ BlackHeight(s.right) \in Nat
  BY <1>1, <1>3, TreeParts, ColorsOf, BlackHeightDef
<1>5. /\ BlackHeight(s.left) = n /\ BlackHeight(s.right) = n
      /\ NoRedPair(s.left) /\ NoRedPair(s.right)
  BY <1>1, <1>2, <1>3, <1>4, ColorsOf
<1>6. RbRepair(h, cmp) =
        IF ~IsRed(s.left) /\ ~IsRed(s.right) THEN Recolour(h, "right")
        ELSE <<TurnAround(h, s), TRUE>>
  BY <1>1, <1>3 DEF RbRepair, BlackSibling
<1>7. BlackHeight(h.right) = n + 1
  BY <1>2
<1>8. CASE ~IsRed(s.left) /\ ~IsRed(s.right)
  <2> DEFINE v == Node(s.key, "red", s.left, s.right)
             u == Node(h.key, "black", h.left, v)
  <2>1. RbRepair(h, cmp) = <<u, IsRed(h)>>
    BY <1>3, <1>6, <1>8, RecolourRight
  <2>2. Keeps(h, u)
    <3>1. Keeps(h, Recolour(h, "right")[1])
      BY RecolourKeeps
    <3>2. Recolour(h, "right") = <<u, IsRed(h)>>
      BY <1>3, RecolourRight
    <3> HIDE DEF u
    <3>3. QED
      BY <3>1, <3>2
  <2>3. /\ v \in Trees /\ BlackHeight(v) = n /\ NoRedPair(v)
    <3> HIDE DEF s, n
    <3>1. "red" \in Colors
      BY BlackAndRed
    <3>2. v \in Trees
      BY <1>4, <3>1, NodeIsTree
    <3>3. BlackHeight(v) = n
      BY <1>2, <1>4, <1>5, <3>1, Colored
    <3>4. NoRedPair(v)
      BY <1>4, <1>5, <1>8, <3>1, Colored
    <3>5. QED
      BY <3>2, <3>3, <3>4
  <2> HIDE DEF v, s, n
  <2>4. u \in Trees /\ BlackHeight(u) = n + 1 /\ NoRedPair(u) /\ ~IsRed(u)
    <3>1. "black" # "red" /\ "black" \in Colors
      BY BlackAndRed
    <3>2. u \in Trees
      BY <1>1, <2>3, <3>1, NodeIsTree
    <3>3. BlackHeight(u) = n + 1
      BY <1>1, <1>2, <2>3, <3>1, Colored DEF n
    <3>4. NoRedPair(u) /\ ~IsRed(u)
      BY <1>1, <2>3, <3>1, Colored
    <3>5. QED
      BY <3>2, <3>3, <3>4
  <2> HIDE DEF u
  <2>5. IsRed(h) \in BOOLEAN
    BY DEF IsRed
  <2>6. QED
    BY <1>1, <1>2, <1>7, <2>1, <2>2, <2>4, <2>5
<1>9. ASSUME IsRed(s.left) \/ IsRed(s.right), NEW l \in Trees, NEW r \in Trees, NEW k \in Int,
             TurnAround(h, s) = Node(k, h.color, l, r),
             BlackHeight(l) = n + 1, BlackHeight(r) = n + 1, NoRedPair(l), NoRedPair(r),
             ~IsRed(l), ~IsRed(r)
      PROVE  \E u \in Trees, c \in BOOLEAN :
           /\ RbRepair(h, cmp) = <<u, c>> /\ Keeps(h, u) /\ NoRedPair(u)
           /\ c => /\ BlackHeight(u) = BlackHeight(h.right) + (IF h.color = "red" THEN 0 ELSE 1)
                   /\ IsRed(u) => h.color = "red"
           /\ ~c => BlackHeight(u) = BlackHeight(h.right) /\ h.color # "red" /\ ~IsRed(u)
  <2> DEFINE u == Node(k, h.color, l, r)
  <2>1. RbRepair(h, cmp) = <<u, TRUE>>
    BY <1>6, <1>9
  <2>2. u \in Trees /\ u # Fault
    BY <1>1, NodeIsTree, TreeIsNoFault
  <2>3. Keeps(h, u)
    BY <1>9, <2>2, TurnAroundKeeps
  <2>4. BlackHeight(u) = n + 1 + (IF h.color = "red" THEN 0 ELSE 1) /\ NoRedPair(u)
        /\ (IsRed(u) => h.color = "red")
    <3> HIDE DEF n
    <3>1. BlackHeight(u) = n + 1 + (IF h.color = "red" THEN 0 ELSE 1)
      BY <1>1, <1>2, <1>9, Colored
    <3>2. NoRedPair(u) /\ (IsRed(u) => h.color = "red")
      BY <1>1, <1>9, Colored
    <3>3. QED
      BY <3>1, <3>2
  <2> HIDE DEF u, s, n
  <2>5. PICK c \in BOOLEAN : c = TRUE
    OBVIOUS
  <2>6. RbRepair(h, cmp) = <<u, c>> /\ c
    BY <2>1, <2>5
  <2>7. QED
    BY <1>7, <2>2, <2>3, <2>4, <2>6
<1>10. ASSUME NEW k \in Int, NEW l \in Trees, NEW r \in Trees, NEW t, t = Node(k, "black", l, r),
              BlackHeight(l) = n, BlackHeight(r) = n, NoRedPair(l), NoRedPair(r)
       PROVE  t \in Trees /\ BlackHeight(t) = n + 1 /\ NoRedPair(t) /\ ~IsRed(t)
  <2> HIDE DEF n
  <2>1. "black" # "red" /\ "black" \in Colors
    BY BlackAndRed
  <2>2. BlackHeight(t) = n + 1
    BY <1>2, <1>10, <2>1, Colored
  <2>3. t \in Trees /\ NoRedPair(t) /\ ~IsRed(t)
    <3>1. t \in Trees
      BY <1>10, <2>1, NodeIsTree
    <3>2. NoRedPair(t)
      BY <1>10, <2>1, Colored
    <3>3. ~IsRed(t)
      BY <1>10, <2>1, Colored
    <3>4. QED
      BY <3>1, <3>2, <3>3
  <2>4. QED
    BY <2>2, <2>3
<1>11. ASSUME NEW y \in Trees, IsRed(y), BlackHeight(y) = n, NoRedPair(y)
       PROVE  /\ y # Nil /\ y.key \in Int /\ y.left \in Trees /\ y.right \in Trees
              /\ BlackHeight(y.left) = n /\ BlackHeight(y.right) = n
              /\ NoRedPair(y.left) /\ NoRedPair(y.right)
  <2> HIDE DEF n
  <2>1. y # Nil
    BY <1>11, RedIsNode
  <2>2. y.key \in Int /\ y.left \in Trees /\ y.right \in Trees
    BY <2>1, TreeParts
  <2>3. BlackHeight(y.left) \in Nat /\ BlackHeight(y.right) \in Nat
    BY <2>2, BlackHeightDef
  <2>4. BlackHeight(y.left) = n /\ BlackHeight(y.right) = n
    BY <1>2, <1>11, <2>1, <2>3, ColorsOf
  <2>5. NoRedPair(y.left) /\ NoRedPair(y.right)
    BY <1>11, <2>1, ColorsOf
  <2>6. QED
    BY <2>1, <2>2, <2>4, <2>5
<1>12. CASE IsRed(s.right)
  <2> DEFINE l == Node(h.key, "black", h.left, s.left)
             r == Node(s.right.key, "black", s.right.left, s.right.right)
  <2>1. TurnAround(h, s) = Node(s.key, h.color, l, r)
    BY <1>3, <1>12, TurnAroundRight
  <2>2. l \in Trees /\ BlackHeight(l) = n + 1 /\ NoRedPair(l) /\ ~IsRed(l)
    BY <1>1, <1>4, <1>5, <1>10
  <2>3. r \in Trees /\ BlackHeight(r) = n + 1 /\ NoRedPair(r) /\ ~IsRed(r)
    BY <1>4, <1>5, <1>10, <1>11, <1>12
  <2> HIDE DEF l, r, s, n
  <2>4. QED
    BY <1>4, <1>9, <1>12, <2>1, <2>2, <2>3
<1>13. CASE ~IsRed(s.right) /\ IsRed(s.left)
  <2> DEFINE l == Node(h.key, "black", h.left, s.left.left)
             r == Node(s.key, "black", s.left.right, s.right)
  <2>1. TurnAround(h, s) = Node(s.left.key, h.color, l, r)
    BY <1>3, <1>13, TurnAroundRight
  <2>2. /\ s.left.key \in Int /\ s.left.left \in Trees /\ s.left.right \in Trees
        /\ BlackHeight(s.left.left) = n /\ BlackHeight(s.left.right) = n
        /\ NoRedPair(s.left.left) /\ NoRedPair(s.left.right)
    BY <1>4, <1>5, <1>11, <1>13
  <2>3. l \in Trees /\ BlackHeight(l) = n + 1 /\ NoRedPair(l) /\ ~IsRed(l)
    BY <1>1, <1>10, <2>2
  <2>4. r \in Trees /\ BlackHeight(r) = n + 1 /\ NoRedPair(r) /\ ~IsRed(r)
    BY <1>4, <1>5, <1>10, <2>2
  <2> HIDE DEF l, r, s, n
  <2>5. QED
    BY <1>9, <1>13, <2>1, <2>2, <2>3, <2>4
<1>14. QED
  BY <1>8, <1>12, <1>13

\* What a removal makes of the rules: kept, or one black node short.
Shrunk(t, u, c) ==
  /\ u \in Trees /\ NoRedPair(u) /\ BlackHeight(u) > 0
  /\ c => BlackHeight(u) = BlackHeight(t) /\ (IsRed(u) => IsRed(t))
  /\ ~c => BlackHeight(u) = BlackHeight(t) - 1 /\ ~IsRed(u)

\* The rules of a node and of its children.
LEMMA RulesOfNode ==
  ASSUME NEW t \in Trees, t # Nil, RbRules(t)
  PROVE  /\ RbRules(t.left) /\ RbRules(t.right)
         /\ BlackHeight(t.left) \in Nat /\ BlackHeight(t.right) = BlackHeight(t.left)
         /\ BlackHeight(t) = BlackHeight(t.left) + (IF t.color = "red" THEN 0 ELSE 1)
         /\ t.color = "red" => ~IsRed(t.left) /\ ~IsRed(t.right)
         /\ IsRed(t) <=> t.color = "red"
<1>1. BlackHeight(t.left) \in Nat /\ BlackHeight(t) > 0 /\ NoRedPair(t)
  BY TreeParts, BlackHeightDef DEF RbRules
<1>2. BlackHeight(t.left) = BlackHeight(t.right) /\ BlackHeight(t.left) > 0
      /\ BlackHeight(t) = BlackHeight(t.left) + (IF t.color = "red" THEN 0 ELSE 1)
  BY <1>1, ColorsOf
<1>3. NoRedPair(t.left) /\ NoRedPair(t.right)
      /\ (t.color = "red" => ~IsRed(t.left) /\ ~IsRed(t.right))
      /\ (IsRed(t) <=> t.color = "red")
  BY <1>1, ColorsOf
<1>4. QED
  BY <1>1, <1>2, <1>3 DEF RbRules

\* tree_remove has searched for j on the left of n and left w there.
WentLeft(n, j, w, c) ==
  /\ n \in Trees /\ n # Nil /\ RbRules(n) /\ j \in Int /\ j <= n.key
  /\ Ordered(n.right) /\ (\A x \in KeysOf(n.right) : n.key < x)
  /\ \A x \in KeysOf(n.left) : x < n.key \/ x = j
  /\ c \in BOOLEAN /\ RbRemove(n.left, j, FALSE) = <<w, c>>
  /\ Removed(n.left, j, w) /\ Shrunk(n.left, w, c) /\ (c \/ ~IsRed(n.right))

\* The search went left.
LEMMA ShrunkOnTheLeft ==
  ASSUME NEW n, NEW j, NEW w, NEW c, WentLeft(n, j, w, c)
  PROVE  \E u \in Trees, d \in BOOLEAN :
           /\ RbStep(n, j, FALSE) = <<u, d>> /\ Ordered(u) /\ Shrunk(n, u, d)
           /\ KeysOf(u) = {n.key} \cup (KeysOf(n.left) \ {j}) \cup KeysOf(n.right)
           /\ c => d
<1> DEFINE h == HangLeft(n, w)
<1>a. n \in Trees /\ n # Nil /\ RbRules(n) /\ j \in Int /\ j <= n.key
  BY DEF WentLeft
<1>b. /\ Ordered(n.right)
      /\ \A x \in KeysOf(n.right) : n.key < x
      /\ \A x \in KeysOf(n.left) : x < n.key \/ x = j
  BY DEF WentLeft
<1>c. c \in BOOLEAN /\ RbRemove(n.left, j, FALSE) = <<w, c>>
  BY DEF WentLeft
<1>d. Removed(n.left, j, w)
  BY DEF WentLeft
<1>e. Shrunk(n.left, w, c)
  BY DEF WentLeft
<1>f. c \/ ~IsRed(n.right)
  BY DEF WentLeft
<1>2. /\ n.key \in Int /\ n.color \in Colors /\ n.left \in Trees /\ n.right \in Trees
      /\ w \in Trees /\ Ordered(w) /\ KeysOf(w) = KeysOf(n.left) \ {j}
  BY <1>a, <1>d, TreeParts DEF Removed
<1>3. h = Node(n.key, n.color, w, n.right)
  BY <1>a, <1>2, HangFacts
<1>4. /\ h \in Trees /\ h # Nil /\ h.key = n.key /\ h.color = n.color
      /\ h.left = w /\ h.right = n.right
      /\ KeysOf(h) = {n.key} \cup KeysOf(w) \cup KeysOf(n.right)
      /\ Ordered(h) <=> /\ Ordered(w) /\ Ordered(n.right)
                        /\ \A x \in KeysOf(w) : x < n.key
                        /\ \A x \in KeysOf(n.right) : n.key < x
  <2>1. Built(h, n.key, w, n.right)
    BY <1>2, <1>3, Made
  <2>2. h.color = n.color
    BY <1>2, <1>3, NodeParts
  <2> HIDE DEF h
  <2>3. QED
    BY <2>1, <2>2 DEF Built
<1>5. Ordered(h)
  BY <1>a, <1>b, <1>2, <1>4
<1>6. /\ RbRules(n.left) /\ RbRules(n.right)
      /\ BlackHeight(n.left) \in Nat /\ BlackHeight(n.right) = BlackHeight(n.left)
      /\ BlackHeight(n) = BlackHeight(n.left) + (IF n.color = "red" THEN 0 ELSE 1)
      /\ n.color = "red" => ~IsRed(n.left) /\ ~IsRed(n.right)
      /\ IsRed(n) <=> n.color = "red"
  BY <1>a, RulesOfNode
<1>7. FALSE \in BOOLEAN
  OBVIOUS
<1>8. CASE c
  <2>1. c = TRUE
    BY <1>c, <1>8
  <2>2. RbStep(n, j, FALSE) = <<h, TRUE>>
    <3>1. RbRemove(n.left, j, FALSE) = <<w, TRUE>>
      BY <1>c, <2>1
    <3>2. QED
      BY <1>a, <1>7, <3>1, RbStepSides
  <2>3. BlackHeight(w) = BlackHeight(n.left) /\ (IsRed(w) => IsRed(n.left))
        /\ NoRedPair(w) /\ BlackHeight(w) > 0 /\ NoRedPair(n.right)
    BY <1>e, <1>6, <1>8 DEF Shrunk, RbRules
  <2>4. BlackHeight(h) = BlackHeight(n)
    BY <1>2, <1>3, <1>6, <2>3, Colored
  <2>5. NoRedPair(h) /\ (IsRed(h) => IsRed(n))
    BY <1>2, <1>3, <1>6, <2>3, Colored
  <2>6. BlackHeight(h) > 0
    BY <1>a, <2>4 DEF RbRules
  <2>7. Shrunk(n, h, c)
    BY <1>4, <1>8, <2>4, <2>5, <2>6 DEF Shrunk
  <2> HIDE DEF h
  <2>8. QED
    BY <1>c, <1>2, <1>4, <1>5, <2>1, <2>2, <2>7
<1>9. CASE ~c
  <2>1. c = FALSE
    BY <1>c, <1>9
  <2>2. /\ RbStep(n, j, FALSE) = RbRepair(h, Sign(j, n)) /\ Sign(j, n) \in Int /\ Sign(j, n) <= 0
    <3>1. RbRemove(n.left, j, FALSE) = <<w, FALSE>>
      BY <1>c, <2>1
    <3>2. QED
      BY <1>a, <1>7, <3>1, RbStepSides
  <2>3. BlackHeight(w) = BlackHeight(n.left) - 1 /\ NoRedPair(w) /\ BlackHeight(w) > 0
        /\ NoRedPair(n.right) /\ ~IsRed(n.right)
    BY <1>e, <1>f, <1>6, <1>9 DEF Shrunk, RbRules
  <2>4. BlackHeight(h.right) = BlackHeight(h.left) + 1 /\ BlackHeight(h.left) > 0
    BY <1>4, <1>6, <2>3
  <2> HIDE DEF h
  <2>5. PICK u \in Trees, d \in BOOLEAN :
           /\ RbRepair(h, Sign(j, n)) = <<u, d>> /\ Keeps(h, u) /\ NoRedPair(u)
           /\ d => /\ BlackHeight(u) = BlackHeight(h.right) + (IF h.color = "red" THEN 0 ELSE 1)
                   /\ IsRed(u) => h.color = "red"
           /\ ~d => BlackHeight(u) = BlackHeight(h.right) /\ h.color # "red" /\ ~IsRed(u)
    BY <1>4, <2>2, <2>3, <2>4, RepairOnTheRight
  <2>6. BlackHeight(n.left) > 0
    BY <1>6, <2>3
  <2>7. Shrunk(n, u, d)
    <3>1. CASE d
      <4>1. BlackHeight(u) = BlackHeight(n) /\ (IsRed(u) => IsRed(n)) /\ BlackHeight(u) > 0
        BY <1>4, <1>6, <2>5, <2>6, <3>1
      <4>2. QED
        BY <2>5, <3>1, <4>1 DEF Shrunk
    <3>2. CASE ~d
      <4>1. BlackHeight(u) = BlackHeight(n) - 1 /\ ~IsRed(u) /\ BlackHeight(u) > 0
        BY <1>4, <1>6, <2>5, <2>6, <3>2
      <4>2. QED
        BY <2>5, <3>2, <4>1 DEF Shrunk
    <3>3. QED
      BY <3>1, <3>2
  <2>8. Ordered(u) /\ KeysOf(u) = KeysOf(h)
    BY <1>5, <2>5 DEF Keeps
  <2>9. KeysOf(u) = {n.key} \cup (KeysOf(n.left) \ {j}) \cup KeysOf(n.right)
    BY <1>2, <1>4, <2>8
  <2>10. RbStep(n, j, FALSE) = <<u, d>>
    BY <2>2, <2>5
  <2>11. QED
    BY <1>9, <2>5, <2>7, <2>8, <2>9, <2>10
<1>10. QED
  BY <1>8, <1>9

\* The search went right, and nothing black was taken.
LEMMA ShrunkOnTheRight ==
  ASSUME NEW t \in Trees, t # Nil, RbRules(t), Ordered(t), NEW j \in Int, t.key < j,
         NEW w, RbRemove(t.right, j, FALSE) = <<w, TRUE>>,
         Removed(t.right, j, w), Shrunk(t.right, w, TRUE)
  PROVE  \E u \in Trees :
           RbStep(t, j, FALSE) = <<u, TRUE>> /\ Removed(t, j, u) /\ Shrunk(t, u, TRUE)
<1> DEFINE h == HangRight(t, w)
<1>1. /\ t.key \in Int /\ t.color \in Colors /\ t.left \in Trees /\ t.right \in Trees
      /\ w \in Trees /\ Ordered(w) /\ KeysOf(w) = KeysOf(t.right) \ {j}
      /\ KeysOf(t.left) \subseteq Int
  BY TreeParts, KeysAreInts DEF Removed
<1>2. /\ KeysOf(t) = {t.key} \cup KeysOf(t.left) \cup KeysOf(t.right)
      /\ Ordered(t.left)
      /\ \A x \in KeysOf(t.left) : x < t.key
      /\ \A x \in KeysOf(t.right) : t.key < x
  BY OfNode
<1>3. h = Node(t.key, t.color, t.left, w)
  BY <1>1, HangFacts
<1>4. /\ h \in Trees /\ KeysOf(h) = {t.key} \cup KeysOf(t.left) \cup KeysOf(w)
      /\ Ordered(h) <=> /\ Ordered(t.left) /\ Ordered(w)
                        /\ \A x \in KeysOf(t.left) : x < t.key
                        /\ \A x \in KeysOf(w) : t.key < x
  <2>1. Built(h, t.key, t.left, w)
    BY <1>1, <1>3, Made
  <2> HIDE DEF h
  <2>2. QED
    BY <2>1 DEF Built
<1>5. /\ RbRules(t.left)
      /\ BlackHeight(t.left) \in Nat /\ BlackHeight(t.right) = BlackHeight(t.left)
      /\ BlackHeight(t) = BlackHeight(t.left) + (IF t.color = "red" THEN 0 ELSE 1)
      /\ t.color = "red" => ~IsRed(t.left) /\ ~IsRed(t.right)
      /\ IsRed(t) <=> t.color = "red"
  BY RulesOfNode
<1>6. BlackHeight(w) = BlackHeight(t.right) /\ (IsRed(w) => IsRed(t.right))
      /\ NoRedPair(w) /\ BlackHeight(w) > 0 /\ NoRedPair(t.left)
  BY <1>5 DEF Shrunk, RbRules
<1>7. BlackHeight(h) = BlackHeight(t)
  BY <1>1, <1>3, <1>5, <1>6, Colored
<1>8. NoRedPair(h) /\ (IsRed(h) => IsRed(t))
  BY <1>1, <1>3, <1>5, <1>6, Colored
<1>9. Shrunk(t, h, TRUE)
  BY <1>4, <1>7, <1>8 DEF Shrunk, RbRules
<1>10. RbStep(t, j, FALSE) = <<h, TRUE>>
  <2>1. FALSE \in BOOLEAN
    OBVIOUS
  <2>2. QED
    BY <2>1, RbStepSides
<1> HIDE DEF h
<1>11. j \notin KeysOf(t.left) /\ j # t.key
  BY <1>1, <1>2
<1>12. Removed(t, j, h)
  <2>1. KeysOf(h) = KeysOf(t) \ {j}
    BY <1>1, <1>2, <1>4, <1>11
  <2>2. Ordered(h)
    BY <1>1, <1>2, <1>4
  <2>3. QED
    BY <1>4, <2>1, <2>2 DEF Removed
<1>13. QED
  BY <1>4, <1>9, <1>10, <1>12

\* The node itself is taken out: what is left is its only child, painted black, or nothing.
LEMMA ShrunkAtTheNode ==
  ASSUME NEW t \in Trees, t # Nil, RbRules(t), Ordered(t), HalfEmpty(t)
  PROVE  \E u \in Trees, c \in BOOLEAN :
           /\ RbRemove(t, t.key, FALSE) = <<u, c>> /\ Removed(t, t.key, u) /\ Shrunk(t, u, c)
           /\ ~c => ~IsRed(t) /\ ~IsRed(OnlyChild(t))
<1> DEFINE k == t.key  o == OnlyChild(t)  v == Spliced(t)
           b == FALSE \/ IsRed(t) \/ IsRed(o)
<1>1. /\ k \in Int /\ t.left \in Trees /\ t.right \in Trees /\ o \in {t.left, t.right}
      /\ k \notin KeysOf(t.left) /\ k \notin KeysOf(t.right)
      /\ KeysOf(t) = {k} \cup KeysOf(t.left) \cup KeysOf(t.right)
      /\ Ordered(t.left) /\ Ordered(t.right)
      /\ KeysOf(t.left) \subseteq Int /\ KeysOf(t.right) \subseteq Int
  <2>1. /\ k \in Int /\ t.left \in Trees /\ t.right \in Trees
        /\ KeysOf(t.left) \subseteq Int /\ KeysOf(t.right) \subseteq Int
    BY TreeParts, KeysAreInts
  <2>2. o \in {t.left, t.right}
    BY DEF OnlyChild
  <2>3. /\ KeysOf(t) = {k} \cup KeysOf(t.left) \cup KeysOf(t.right)
        /\ Ordered(t.left) /\ Ordered(t.right)
        /\ \A x \in KeysOf(t.left) : x < k
        /\ \A x \in KeysOf(t.right) : k < x
    BY OfNode
  <2> HIDE DEF k, o
  <2>4. k \notin KeysOf(t.left)
    BY <2>1, <2>3
  <2>5. k \notin KeysOf(t.right)
    BY <2>1, <2>3
  <2>6. QED
    BY <2>1, <2>2, <2>3, <2>4, <2>5
<1>2. Ordered(o) /\ KeysOf(o) = KeysOf(t) \ {k}
  BY <1>1, OfNil DEF OnlyChild, HalfEmpty
<1>3. Keeps(o, v) /\ (v = Nil <=> o = Nil)
  BY SplicedIsTree
<1>4. Removed(t, k, v)
  BY <1>2, <1>3 DEF Keeps, Removed
<1>5. /\ BlackHeight(t.left) = 1 /\ BlackHeight(t.right) = 1 /\ RbRules(o)
      /\ BlackHeight(t) = 1 + (IF t.color = "red" THEN 0 ELSE 1)
      /\ t.color = "red" => ~IsRed(o)
      /\ IsRed(t) <=> t.color = "red"
  BY <1>1, RulesOfNode, NilColors DEF HalfEmpty
<1>6. RbRemove(t, k, FALSE) = RbStep(v, k, b) /\ b \in BOOLEAN
  <2>1. FALSE \in BOOLEAN
    OBVIOUS
  <2>2. QED
    BY <1>1, <2>1, RbRemoveSteps
<1>7. v \in Trees
  BY <1>3 DEF Keeps
<1>8. CASE v = Nil
  <2>1. o = Nil /\ ~IsRed(o)
    BY <1>3, <1>8, NilColors
  <2>2. RbStep(v, k, b) = <<v, b>>
    BY <1>8 DEF RbStep
  <2>3. b <=> t.color = "red"
    BY <1>5, <2>1
  <2>4. BlackHeight(v) = 1 /\ NoRedPair(v) /\ ~IsRed(v)
    BY <1>8, NilColors
  <2> HIDE DEF b, k, o, v
  <2>5. Shrunk(t, v, b)
    BY <1>5, <1>7, <2>3, <2>4 DEF Shrunk
  <2>6. QED
    BY <1>4, <1>5, <1>6, <1>7, <2>1, <2>2, <2>3, <2>5 DEF k, o
<1>9. CASE v # Nil
  <2>1. o # Nil /\ o \in Trees /\ o.left \in Trees /\ o.right \in Trees /\ o.key \in Int
    BY <1>1, <1>3, <1>9, TreeParts
  <2>2. BlackHeight(o) = 1
    BY <1>1, <1>5
  <2>3. o.color = "red" /\ IsRed(o)
    <3>1. /\ BlackHeight(o.left) \in Nat /\ RbRules(o.left)
          /\ BlackHeight(o) = BlackHeight(o.left) + (IF o.color = "red" THEN 0 ELSE 1)
          /\ IsRed(o) <=> o.color = "red"
      BY <1>5, <2>1, RulesOfNode
    <3>2. BlackHeight(o.left) > 0
      BY <3>1 DEF RbRules
    <3>3. QED
      BY <2>2, <3>1, <3>2
  <2>4. t.color # "red" /\ ~IsRed(t)
    BY <1>5, <2>3
  <2>5. v = Node(o.key, "black", o.left, o.right)
    <3>1. v = Paint(o, "black")
      BY <2>4 DEF Spliced
    <3>2. QED
      BY <2>1, <3>1, Painted, BlackAndRed
  <2>6. BlackHeight(v) = 2 /\ NoRedPair(v) /\ ~IsRed(v)
    <3>1. /\ BlackHeight(o.left) = 1 /\ BlackHeight(o.right) = 1
          /\ NoRedPair(o.left) /\ NoRedPair(o.right)
      BY <1>5, <2>1, <2>2, <2>3, RulesOfNode DEF RbRules
    <3>2. "black" \in Colors /\ "black" # "red"
      BY BlackAndRed
    <3>3. BlackHeight(v) = 2
      BY <2>1, <2>5, <3>1, <3>2, Colored
    <3>4. NoRedPair(v) /\ ~IsRed(v)
      BY <2>1, <2>5, <3>1, <3>2, Colored
    <3>5. QED
      BY <3>3, <3>4
  <2>7. Shrunk(t, v, TRUE)
    BY <1>5, <1>7, <2>4, <2>6 DEF Shrunk
  <2>8. k \notin KeysOf(v) /\ v.key \in Int
    BY <1>4, <1>7, <1>9, TreeParts DEF Removed
  <2>9. k # v.key /\ k \notin KeysOf(v.left) /\ k \notin KeysOf(v.right)
        /\ v.left \in Trees /\ v.right \in Trees /\ v = Node(v.key, v.color, v.left, v.right)
    BY <1>7, <1>9, <2>8, OfNode, TreeParts
  <2> HIDE DEF v, o, b
  <2>10. RbStep(v, k, b) = <<v, TRUE>>
    <3>1. /\ RbRemove(v.left, k, b) = <<v.left, TRUE>>
          /\ RbRemove(v.right, k, b) = <<v.right, TRUE>>
      BY <1>1, <1>6, <2>9, NothingRemoved
    <3>2. QED
      BY <1>1, <1>6, <1>7, <1>9, <3>1, RbStepStays
  <2>11. PICK c \in BOOLEAN : c = TRUE
    OBVIOUS
  <2>12. RbRemove(t, k, FALSE) = <<v, c>> /\ Shrunk(t, v, c) /\ c
    BY <1>6, <2>7, <2>10, <2>11
  <2> HIDE DEF k
  <2>13. QED
    BY <1>4, <1>7, <2>12 DEF k
<1>10. QED
  BY <1>8, <1>9

\* tree_remove of a proper red-black tree keeps its rules, or leaves it one black node
\* short, when the black node it takes is on the left all the way.
LEMMA RbRemoveShrinks ==
  \A t \in Trees : Ordered(t) /\ RbRules(t) =>
    \A k \in Int : (CostsBlack(t, k) => OnlyLeft(t, k)) =>
      \E u \in Trees, c \in BOOLEAN :
        /\ RbRemove(t, k, FALSE) = <<u, c>> /\ Removed(t, k, u) /\ Shrunk(t, u, c)
        /\ ~c => CostsBlack(t, k)
<1> DEFINE Done(t, k) ==
      \E u \in Trees, c \in BOOLEAN :
        /\ RbRemove(t, k, FALSE) = <<u, c>> /\ Removed(t, k, u) /\ Shrunk(t, u, c)
        /\ ~c => CostsBlack(t, k)
           Meant(t, k) == CostsBlack(t, k) => OnlyLeft(t, k)
           S == {t \in Trees : Ordered(t) /\ RbRules(t) =>
                   \A k \in Int : Meant(t, k) => Done(t, k)}
<1>1. Nil \in S
  <2>1. SUFFICES ASSUME NEW k \in Int PROVE Done(Nil, k)
    BY NilIsTree
  <2>2. RbRemove(Nil, k, FALSE) = <<Nil, TRUE>>
    <3>1. FALSE \in BOOLEAN
      OBVIOUS
    <3>2. QED
      BY <3>1, NilIsTree, RbRemoveSteps
  <2>3. Removed(Nil, k, Nil) /\ Shrunk(Nil, Nil, TRUE)
    BY NilIsTree, OfNil, NilColors DEF Removed, Shrunk
  <2>4. PICK c \in BOOLEAN : c = TRUE
    OBVIOUS
  <2>5. RbRemove(Nil, k, FALSE) = <<Nil, c>> /\ Shrunk(Nil, Nil, c) /\ c
    BY <2>2, <2>3, <2>4
  <2>6. QED
    BY <2>3, <2>5, NilIsTree
<1>2. ASSUME NEW t \in Trees, t # Nil, t.left \in S, t.right \in S PROVE t \in S
  <2>1. SUFFICES ASSUME Ordered(t), RbRules(t), NEW k \in Int, Meant(t, k) PROVE Done(t, k)
    BY <1>2
  <2>2. /\ t.key \in Int /\ t.left \in Trees /\ t.right \in Trees
        /\ KeysOf(t.left) \subseteq Int /\ KeysOf(t.right) \subseteq Int
        /\ KeysOf(t) = {t.key} \cup KeysOf(t.left) \cup KeysOf(t.right)
        /\ Ordered(t.left) /\ Ordered(t.right)
        /\ \A x \in KeysOf(t.left) : x < t.key
        /\ \A x \in KeysOf(t.right) : t.key < x
        /\ RbRules(t.left) /\ RbRules(t.right)
    BY <1>2, <2>1, TreeParts, OfNode, KeysAreInts, RulesOfNode
  <2>3. \A j \in Int : /\ Meant(t.left, j) => Done(t.left, j)
                       /\ Meant(t.right, j) => Done(t.right, j)
    BY <1>2, <2>2
  <2>4. FALSE \in BOOLEAN
    OBVIOUS
  <2> HIDE DEF S
  <2>5. ASSUME NEW j \in Int, TakenOut(t, k) = TakenOut(t.left, j)
        PROVE  \E w \in Trees, c \in BOOLEAN :
                 /\ RbRemove(t.left, j, FALSE) = <<w, c>> /\ Removed(t.left, j, w)
                 /\ Shrunk(t.left, w, c) /\ (c \/ ~IsRed(t.right))
                 /\ ~c => CostsBlack(t, k)
    <3>1. CostsBlack(t.left, j) => OnlyLeft(t.left, j) /\ ~IsRed(t.right) /\ CostsBlack(t, k)
      BY <1>2, <2>1, <2>5, OnlyLeftBelow
    <3>2. Done(t.left, j)
      BY <2>3, <3>1
    <3>3. QED
      BY <3>1, <3>2
  <2>6. CASE k < t.key
    <3>1. TakenOut(t, k) = TakenOut(t.left, k)
      BY <1>2, <2>1, <2>6, TakenBelow
    <3>2. PICK w \in Trees, c \in BOOLEAN :
             /\ RbRemove(t.left, k, FALSE) = <<w, c>> /\ Removed(t.left, k, w)
             /\ Shrunk(t.left, w, c) /\ (c \/ ~IsRed(t.right))
             /\ ~c => CostsBlack(t, k)
      BY <2>5, <3>1
    <3>3. k <= t.key /\ k # t.key
      BY <2>2, <2>6
    <3>4. \A x \in KeysOf(t.left) : x < t.key \/ x = k
      BY <2>2
    <3> HIDE DEF Meant, Done
    <3>5. \E u \in Trees, d \in BOOLEAN :
            /\ RbStep(t, k, FALSE) = <<u, d>> /\ Ordered(u) /\ Shrunk(t, u, d)
            /\ KeysOf(u) = {t.key} \cup (KeysOf(t.left) \ {k}) \cup KeysOf(t.right)
            /\ c => d
      <4>1. WentLeft(t, k, w, c)
        BY <1>2, <2>1, <2>2, <3>2, <3>3, <3>4 DEF WentLeft
      <4>2. QED
        BY <4>1, ShrunkOnTheLeft
    <3>6. PICK u \in Trees, d \in BOOLEAN :
            /\ RbStep(t, k, FALSE) = <<u, d>> /\ Ordered(u) /\ Shrunk(t, u, d)
            /\ KeysOf(u) = {t.key} \cup (KeysOf(t.left) \ {k}) \cup KeysOf(t.right)
            /\ c => d
      BY <3>5
    <3> USE DEF Meant, Done
    <3>7. k \notin KeysOf(t.right)
      BY <2>2, <2>6
    <3>8. Removed(t, k, u)
      BY <2>2, <3>3, <3>6, <3>7 DEF Removed
    <3>9. RbRemove(t, k, FALSE) = <<u, d>>
      BY <1>2, <2>4, <3>3, <3>6, RbRemoveSteps
    <3>10. QED
      BY <3>2, <3>6, <3>8, <3>9
  <2>7. CASE t.key < k
    <3>1. TakenOut(t, k) = TakenOut(t.right, k)
      BY <1>2, <2>1, <2>7, TakenBelow
    <3>2. ~CostsBlack(t.right, k)
      BY <1>2, <2>1, <3>1, OnlyLeftBelow
    <3>3. PICK w \in Trees, c \in BOOLEAN :
             /\ RbRemove(t.right, k, FALSE) = <<w, c>> /\ Removed(t.right, k, w)
             /\ Shrunk(t.right, w, c) /\ (~c => CostsBlack(t.right, k))
      BY <2>3, <3>2
    <3>4. c = TRUE
      BY <3>2, <3>3
    <3>5. RbRemove(t.right, k, FALSE) = <<w, TRUE>> /\ Shrunk(t.right, w, TRUE)
      BY <3>3, <3>4
    <3>6. PICK u \in Trees :
            RbStep(t, k, FALSE) = <<u, TRUE>> /\ Removed(t, k, u) /\ Shrunk(t, u, TRUE)
      BY <1>2, <2>1, <2>7, <3>3, <3>5, ShrunkOnTheRight
    <3>7. k # t.key
      BY <2>2, <2>7
    <3>8. RbRemove(t, k, FALSE) = <<u, c>> /\ Shrunk(t, u, c) /\ c
      BY <1>2, <2>4, <3>4, <3>6, <3>7, RbRemoveSteps
    <3>9. QED
      BY <3>6, <3>8
  <2>8. CASE k = t.key /\ HalfEmpty(t)
    <3>1. TakenOut(t, k) = t
      BY <1>2, <2>1, <2>8, TakenBelow
    <3>2. PICK u \in Trees, c \in BOOLEAN :
           /\ RbRemove(t, k, FALSE) = <<u, c>> /\ Removed(t, k, u) /\ Shrunk(t, u, c)
           /\ ~c => ~IsRed(t) /\ ~IsRed(OnlyChild(t))
      BY <1>2, <2>1, <2>8, ShrunkAtTheNode
    <3>3. ~c => CostsBlack(t, k)
      BY <1>2, <3>1, <3>2 DEF CostsBlack
    <3>4. QED
      BY <3>2, <3>3
  <2>9. CASE k = t.key /\ ~HalfEmpty(t)
    <3>1. /\ TakesLargest(t) \in Trees /\ TakesLargest(t) # Nil
           /\ TakesLargest(t).key = Largest(t.left).key /\ TakesLargest(t).color = t.color
           /\ TakesLargest(t).left = t.left /\ TakesLargest(t).right = t.right
           /\ Largest(t.left).key \in Int
      BY <1>2, <2>9, TakesLargestIsTree
    <3>2. PICK j \in Int : j = Largest(t.left).key
      BY <3>1
    <3>3. PICK n \in Trees : n = TakesLargest(t)
      BY <3>1
    <3>4. TakenOut(t, k) = TakenOut(t.left, j)
      BY <1>2, <2>1, <2>9, <3>2, TakenBelow
    <3>5. /\ n # Nil /\ n.key = j /\ n.color = t.color
          /\ n.left = t.left /\ n.right = t.right
      BY <3>1, <3>2, <3>3
    <3>6. j \in KeysOf(t.left) /\ \A x \in KeysOf(t.left) : x <= j
      BY <2>2, <2>9, <3>2, LargestIsLast DEF HalfEmpty
    <3>7. RbRemove(t, k, FALSE) = RbStep(n, j, FALSE)
      BY <1>2, <2>4, <2>9, <3>2, <3>3, RbRemoveSteps
    <3>8. PICK w \in Trees, c \in BOOLEAN :
             /\ RbRemove(t.left, j, FALSE) = <<w, c>> /\ Removed(t.left, j, w)
             /\ Shrunk(t.left, w, c) /\ (c \/ ~IsRed(t.right))
             /\ ~c => CostsBlack(t, k)
      BY <2>5, <3>4, <3>5
    <3>9. BlackHeight(n) = BlackHeight(t) /\ (NoRedPair(n) <=> NoRedPair(t)) /\ (IsRed(n) <=> IsRed(t))
      <4>1. BlackHeight(n) = BlackHeight(t)
        BY <1>2, <3>5, ColorsOf
      <4>2. (NoRedPair(n) <=> NoRedPair(t)) /\ (IsRed(n) <=> IsRed(t))
        BY <1>2, <3>5, ColorsOf
      <4>3. QED
        BY <4>1, <4>2
    <3>10. RbRules(n)
      BY <2>1, <3>9 DEF RbRules
    <3>11. Ordered(n.right) /\ \A x \in KeysOf(n.right) : n.key < x
      <4>1. n.right = t.right
        BY <3>5
      <4>2. n.key \in KeysOf(t.left) /\ KeysOf(t.left) \subseteq Int
        BY <2>2, <3>5, <3>6
      <4>3. n.key < t.key /\ n.key \in Int
        BY <2>2, <4>2
      <4>4. \A x \in KeysOf(t.right) : x \in Int /\ t.key < x
        BY <2>2
      <4>5. \A x \in KeysOf(t.right) : n.key < x
        BY <2>2, <4>3, <4>4
      <4>6. QED
        BY <2>2, <4>1, <4>5
    <3>12. /\ RbRemove(n.left, j, FALSE) = <<w, c>> /\ Removed(n.left, j, w)
          /\ Shrunk(n.left, w, c) /\ (c \/ ~IsRed(n.right))
      BY <3>5, <3>8
    <3> HIDE DEF Meant, Done
    <3>13. \E u \in Trees, d \in BOOLEAN :
            /\ RbStep(n, j, FALSE) = <<u, d>> /\ Ordered(u) /\ Shrunk(n, u, d)
            /\ KeysOf(u) = {n.key} \cup (KeysOf(n.left) \ {j}) \cup KeysOf(n.right)
            /\ c => d
      <4>1. n \in Trees /\ n # Nil /\ j \in Int /\ c \in BOOLEAN
        BY <3>2, <3>3, <3>5, <3>8
      <4>2. j <= n.key
        BY <3>2, <3>5
      <4>3. \A x \in KeysOf(n.left) : x < n.key \/ x = j
        <5>1. \A x \in KeysOf(t.left) : x \in Int /\ x <= j
          BY <2>2, <3>6
        <5>2. n.left = t.left /\ n.key = j /\ j \in Int
          BY <3>2, <3>5
        <5>3. QED
          BY <5>1, <5>2
      <4>4. WentLeft(n, j, w, c)
        BY <3>10, <3>11, <3>12, <4>1, <4>2, <4>3 DEF WentLeft
      <4>5. QED
        BY <4>4, ShrunkOnTheLeft
    <3>14. PICK u \in Trees, d \in BOOLEAN :
            /\ RbStep(n, j, FALSE) = <<u, d>> /\ Ordered(u) /\ Shrunk(n, u, d)
            /\ KeysOf(u) = {n.key} \cup (KeysOf(n.left) \ {j}) \cup KeysOf(n.right)
            /\ c => d
      BY <3>13
    <3>15. Removed(t, k, u)
      <4>1. KeysOf(u) = KeysOf(t) \ {k}
        <5>1. k \notin KeysOf(t.left) /\ k \notin KeysOf(t.right)
          BY <2>2, <2>9
        <5>2. QED
          BY <2>2, <2>9, <3>5, <3>6, <3>14, <5>1
      <4>2. QED
        BY <3>14, <4>1 DEF Removed
    <3>16. Shrunk(t, u, d)
      BY <3>9, <3>14 DEF Shrunk
    <3>17. RbRemove(t, k, FALSE) = <<u, d>> /\ (~d => CostsBlack(t, k))
      BY <3>7, <3>8, <3>14
    <3>18. QED
      BY <3>14, <3>15, <3>16, <3>17, ZenonT(30) DEF Done
  <2> HIDE DEF Done
  <2>10. k < t.key \/ t.key < k \/ k = t.key
    BY <2>2
  <2>11. QED
    BY <2>6, <2>7, <2>8, <2>9, <2>10
<1> HIDE DEF S
<1>3. Trees \subseteq S
  BY <1>1, <1>2, ChildInduction
<1>4. QED
  BY <1>3 DEF S

\* RbRemovesOnLeft, of RBtree_remove in the shell.
THEOREM RbRemovesRight == TreeSpec => RbRemovesOnLeft
<1> DEFINE Removes ==
      \A k \in Keys :
        RbDel(k) /\ usable /\ RbRules(root) /\ (CostsBlack(root, k) => OnlyLeft(root, k))
          => running' \in {"yes", "failed"} /\ RbRules(root')
<1>1. TreeInv => Removes
  <2>1. SUFFICES ASSUME TreeInv, NEW k \in Keys, RbDel(k), usable, RbRules(root),
                        CostsBlack(root, k) => OnlyLeft(root, k)
                 PROVE  running' \in {"yes", "failed"} /\ RbRules(root')
    OBVIOUS
  <2>2. CASE root = Nil
    <3>1. running' = "failed" /\ root' = root
      BY <2>1, <2>2 DEF RbDel, Fails
    <3>2. QED
      BY <2>1, <3>1
  <2>3. CASE root # Nil
    <3>1. /\ root \in Trees /\ Ordered(root) /\ k \in Int
          /\ Becomes(Paint(RbRemove(root, k, FALSE)[1], "black"))
      BY <2>1, <2>3, TreesAssumption DEF RbDel, Tree, Callable, TreeInv, HoldsKeys
    <3>2. PICK u \in Trees, c \in BOOLEAN :
            /\ RbRemove(root, k, FALSE) = <<u, c>> /\ Removed(root, k, u) /\ Shrunk(root, u, c)
      BY <2>1, <3>1, RbRemoveShrinks
    <3> DEFINE v == Paint(u, "black")
    <3>3. Becomes(v)
      <4>1. <<u, c>>[1] = u
        OBVIOUS
      <4>2. RbRemove(root, k, FALSE) = <<u, c>>
        BY <3>2
      <4>3. RbRemove(root, k, FALSE)[1] = u
        BY <4>1, <4>2
      <4>4. QED
        BY <3>1, <4>3
    <3>4. v \in Trees /\ Ordered(v)
      <4>1. Keeps(u, v)
        BY Painted, BlackAndRed
      <4>2. QED
        BY <3>2, <4>1 DEF Keeps, Removed
    <3>5. RbRules(u)
      BY <3>2 DEF Shrunk, RbRules
    <3>6. RbRules(v)
      <4>1. CASE u = Nil
        BY <3>5, <4>1 DEF Paint, Marks
      <4>2. CASE u # Nil
        <5>1. /\ u.key \in Int /\ u.left \in Trees /\ u.right \in Trees
              /\ v = Node(u.key, "black", u.left, u.right)
          BY <4>2, TreeParts, Painted, BlackAndRed
        <5>2. /\ RbRules(u.left) /\ RbRules(u.right)
              /\ BlackHeight(u.left) \in Nat /\ BlackHeight(u.right) = BlackHeight(u.left)
          BY <3>5, <4>2, RulesOfNode
        <5>3. "black" \in Colors /\ "black" # "red"
          BY BlackAndRed
        <5> HIDE DEF v
        <5>4. BlackHeight(v) > 0
          BY <5>1, <5>2, <5>3, Colored DEF RbRules
        <5>5. NoRedPair(v)
          BY <5>1, <5>2, <5>3, Colored DEF RbRules
        <5>6. QED
          BY <5>4, <5>5 DEF RbRules
      <4>3. QED
        BY <4>1, <4>2
    <3>7. root' = v /\ running' = "yes"
      BY <3>3, <3>4, TreeGoesOn
    <3>8. QED
      BY <3>6, <3>7
  <2>4. QED
    BY <2>2, <2>3
<1>2. TreeInv /\ [TreeNext]_treeVars => [Removes]_treeVars
  BY <1>1
<1>3. TreeSpec => [][Removes]_treeVars
  <2> HIDE DEF Removes
  <2>1. QED
    BY <1>2, TreeStarts, TreeStep, PTL DEF TreeSpec
<1>4. QED
  BY <1>3 DEF RbRemovesOnLeft
=============================================================================
