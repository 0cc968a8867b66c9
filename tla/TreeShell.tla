------------------------------ MODULE TreeShell ------------------------------
(***************************************************************************)
(* beliketree: the shell that creates one tree, of one of the three kinds,  *)
(* and adds, deletes and finds keys in it until a command fails.  The model *)
(* ends where the program does (a command failed, a NULL was dereferenced)  *)
(* and where nodes stop being a tree (a node is its own child, or two       *)
(* nodes share one).  A create of an unknown kind, after which add and      *)
(* delete do nothing, is left out.                                          *)
(***************************************************************************)
EXTENDS SearchTrees, FiniteSetsExt

CONSTANTS
  Keys,
  Kinds,        \* the kinds of tree this instance creates
  FreshColors,  \* what the color of a new node may be: it is not initialised
  MaxHeld       \* bound: keys added and not deleted

ASSUME TreesAssumption ==
  /\ Keys \subseteq Int
  /\ IsFiniteSet(Keys)
  /\ FreshColors \subseteq Colors
  /\ MaxHeld \in Nat

VARIABLES
  kind,      \* tree_type
  root,
  usable,    \* whether the tree still has its compare function
  running,   \* the loop of main, or why the model is over
  held,      \* history: how often each key was added and not deleted
  removed,   \* history: whether a key was deleted
  plain      \* history: no key was added twice, every new node came up red

treeVars == <<kind, root, usable, running, held, removed, plain>>

AllKinds == {"bst", "avl", "rb"}

Nothing == [k \in Keys |-> 0]
Copies(t) ==
  LET copies[s \in UpTo(t)] ==
        IF s = Nil THEN Nothing
        ELSE [k \in Keys |-> copies[s.left][k] + copies[s.right][k]
                             + (IF k = s.key THEN 1 ELSE 0)]
  IN  copies[t]
Room == MapThenSumSet(LAMBDA k : held[k], Keys) < MaxHeld
Tree(c) == kind = c /\ running = "yes"

TreeInit ==
  /\ kind = "none" /\ root = Nil /\ usable = FALSE
  /\ running = "yes"
  /\ held = Nothing /\ removed = FALSE /\ plain = TRUE

\* tree_create: a new tree; an old one is forgotten.
Create(c) ==
  /\ running = "yes" /\ kind # c
  /\ kind' = c
  /\ root' = Nil /\ usable' = TRUE
  /\ held' = Nothing /\ removed' = FALSE /\ plain' = TRUE
  /\ UNCHANGED running

Outcome(t) ==
  IF t = Fault THEN "fault"
  ELSE IF t = Loop THEN "loop"
  ELSE IF kind = "rb" /\ \E k \in Keys : Copies(t)[k] > 1 THEN "shared"
  ELSE "yes"

Becomes(t) == root' = t /\ running' = Outcome(t)

\* A destroyed tree takes a first node; then its functions are called.
Callable == root = Nil \/ usable

Grows(t, k) ==
  /\ Becomes(IF Callable THEN t ELSE Fault)
  /\ held' = [held EXCEPT ![k] = IF kind = "rb" THEN 1 ELSE @ + 1]
  /\ UNCHANGED <<kind, usable, removed>>

BstAdd(k) ==
  /\ Tree("bst") /\ Room
  /\ Grows(Attach(root, k), k)
  /\ plain' = (plain /\ held[k] = 0)

AvlAdd(k) ==
  /\ Tree("avl") /\ Room
  /\ Grows(AvlAttach(root, k), k)
  /\ plain' = (plain /\ held[k] = 0)

RbAdd(k) ==
  /\ Tree("rb") /\ Room
  /\ \E color \in FreshColors :
       /\ Grows(RbAttach(root, k, color), k)
       /\ plain' = (plain /\ (color = "red" \/ root = Nil \/ held[k] > 0))

Deleted(k) ==
  /\ held' = [held EXCEPT ![k] = IF @ > 0 THEN @ - 1 ELSE 0]
  /\ removed' = TRUE
  /\ UNCHANGED <<kind, usable, plain>>

\* The command failed: main leaves its loop.
Fails ==
  /\ running' = "failed"
  /\ UNCHANGED <<kind, root, usable, held, removed, plain>>

BstDel(k) ==
  /\ Tree("bst")
  /\ IF ~Callable \/ Lookup(root, k) # Nil
     THEN /\ Becomes(IF Callable THEN BstRemove(root, k) ELSE Fault)
          /\ Deleted(k)
     ELSE Fails

AvlDel(k) ==
  /\ Tree("avl")
  /\ Becomes(IF Callable THEN AvlRemove(root, k) ELSE Fault)
  /\ Deleted(k)

RbDel(k) ==
  /\ Tree("rb")
  /\ IF root = Nil THEN Fails
     ELSE /\ Becomes(IF Callable THEN Paint(RbRemove(root, k, FALSE)[1], "black")
                   ELSE Fault)
          /\ Deleted(k)

\* find and display change nothing; on a destroyed tree they call NULL.
Reads ==
  /\ running' = IF Callable THEN "yes" ELSE "fault"
  /\ UNCHANGED <<kind, root, usable, held, removed, plain>>

Find == running = "yes" /\ kind # "none" /\ Reads
\* An order that is none of the three fails, unless the tree is empty.
Display == running = "yes" /\ kind # "none" /\ (Reads \/ (root # Nil /\ Fails))

\* The nodes are freed and the whole tree_tag is cleared, compare included.
Destroy ==
  /\ running = "yes" /\ kind # "none"
  /\ IF root = Nil THEN Fails
     ELSE /\ root' = Nil /\ usable' = FALSE
          /\ held' = Nothing /\ removed' = FALSE /\ plain' = TRUE
          /\ UNCHANGED <<kind, running>>

TreeNext ==
  \/ \E c \in Kinds : Create(c)
  \/ \E k \in Keys : \/ BstAdd(k) \/ AvlAdd(k) \/ RbAdd(k)
                     \/ BstDel(k) \/ AvlDel(k) \/ RbDel(k)
  \/ Find \/ Display \/ Destroy

TreeSpec == TreeInit /\ [][TreeNext]_treeVars

-----------------------------------------------------------------------------
(* Properties                                                               *)

Balanced(t) == \A s \in Nodes(t) : ~Leans(s)
NoRedPair(t) ==
  \A s \in Nodes(t) : IsRed(s) => ~IsRed(s.left) /\ ~IsRed(s.right)
RbRules(t) == BlackHeight(t) > 0 /\ NoRedPair(t)

Sorted(t) ==
  LET keys == InOrder(t) IN
  \A i, j \in DOMAIN keys : i < j => keys[i] <= keys[j]
Loses(k) == [Copies(root) EXCEPT ![k] = @ - 1]

\* The state is one the program can be in.
TreeTypeOK ==
  /\ kind \in Kinds \cup {"none"}
  /\ running \in {"yes", "failed", "fault", "loop", "shared"}
  /\ root = Fault => running = "fault"
  /\ held \in [Keys -> 0..MaxHeld]
  /\ {usable, removed, plain} \subseteq BOOLEAN

\* Rotations and removals never lose, double or misplace a key of an AVL tree
\* whose keys were added once, nor of a red-black tree that is still a tree,
\* whatever its colours: every look up finds what was added and not deleted.
KeepsKeys ==
  running = "yes" /\ (kind = "rb" \/ (kind = "avl" /\ plain)) =>
    /\ Sorted(root) /\ Copies(root) = held
    /\ \A k \in Keys : Lookup(root, k) # Nil <=> held[k] > 0

\* An AVL tree that only grew is height balanced, and growing never meets a
\* NULL: the turn is chosen for the child the new key is under.
BalancedUntilRemoval ==
  kind = "avl" /\ usable /\ ~removed => running # "fault" /\ Balanced(root)

\* A red-black tree that only grew, from nodes whose memory was zero, has no
\* red node under a red one and the same number of black ones on each path.
RulesUntilRemoval ==
  kind = "rb" /\ usable /\ ~removed /\ plain => running # "fault" /\ RbRules(root)

\* The node the removal of k takes out, whether it is black without a red
\* child, and whether the way to it only goes left, past siblings that are black.
TakenOut(t, k) ==
  LET s == Lookup(t, k) IN
  IF s = Nil \/ HalfEmpty(s) THEN s ELSE Largest(s.left)
CostsBlack(t, k) ==
  LET s == TakenOut(t, k) IN s # Nil /\ ~IsRed(s) /\ ~IsRed(OnlyChild(s))
OnlyLeft(t, k) ==
  \A s \in Nodes(t) : TakenOut(t, k) \in Nodes(s) \ {s} =>
    TakenOut(t, k) \in Nodes(s.left) /\ ~IsRed(s.right)

\* A removal from a proper red-black tree leaves one when it takes no black
\* node away, or when it only went left past siblings that are black: the
\* case the repair was written for.
RbRemovesOnLeft ==
  [][\A k \in Keys :
       RbDel(k) /\ usable /\ RbRules(root) /\ (CostsBlack(root, k) => OnlyLeft(root, k))
         => running' \in {"yes", "failed"} /\ RbRules(root')]_treeVars

\* A removal from a search tree takes one key and keeps the order, unless the
\* right child of the node has no left child.
BstRemovesOne ==
  [][\A k \in Keys :
       (/\ BstDel(k) /\ usable /\ Sorted(root) /\ Lookup(root, k) # Nil
        /\ ~NoLeftBelow(Lookup(root, k)))
       => running' = "yes" /\ Sorted(root') /\ Copies(root') = Loses(k)]_treeVars

=============================================================================
