----------------------------- MODULE LinkedList -----------------------------
(***************************************************************************)
(* linkit: one doubly linked list, a current element and the demo program   *)
(* that fills it, removes, adds, sorts and then takes commands.  The list   *)
(* is the sequence of its nodes.  num_nodes is kept beside it, and          *)
(* insert_next and insert_prev do not count.                                *)
(***************************************************************************)
EXTENDS Integers, SequencesExt, FiniteSetsExt

CONSTANTS
  Data,      \* the numbers a node can hold
  MaxNodes   \* bound: nodes in the list

ASSUME ListAssumption == Data \subseteq Int /\ MaxNodes \in Nat

VARIABLES
  chain,      \* the nodes from head to tail: [id |-> ..., data |-> ...]
  current,    \* g_current_elem: the id of a node, NoNode or Freed
  num,        \* num_nodes
  tailFreed,  \* the list is empty, and tail still points to a freed node
  phase,      \* what the demo is doing
  beside,     \* history: an element was put beside the current one
  leaked      \* history: nodes were forgotten without being freed

listVars == <<chain, current, num, tailFreed, phase, beside, leaked>>

NoNode == 0
Freed == -1
Phases == {"fill", "remove", "add", "play", "freed", "done", "aborted"}

Ids(c) == {c[i].id : i \in DOMAIN c}
At(id) == SelectInSeq(chain, LAMBDA n : n.id = id)
Fresh(d) == [id |-> Min((1..MaxNodes) \ Ids(chain)), data |-> d]
ListRoom == Len(chain) < MaxNodes
OnList == current \notin {NoNode, Freed}

ListInit ==
  /\ chain = <<>> /\ current = NoNode /\ num = 0 /\ tailFreed = FALSE
  /\ phase = "fill" /\ beside = FALSE /\ leaked = FALSE

\* The list is taken for empty: the new node is all there is.
Alone(n) ==
  /\ chain' = <<n>>
  /\ current' = n.id
  /\ tailFreed' = FALSE
  /\ leaked' = (leaked \/ chain # <<>>)

Longer(c) == chain' = c /\ UNCHANGED <<current, tailFreed, leaked>>

InsertHead(d) ==
  /\ num' = num + 1
  /\ IF num = 0 THEN Alone(Fresh(d)) ELSE Longer(<<Fresh(d)>> \o chain)

InsertTail(d) ==
  /\ num' = num + 1
  /\ IF num = 0 THEN Alone(Fresh(d)) ELSE Longer(Append(chain, Fresh(d)))

\* Neither counts the node; without a current element nothing is inserted, and
\* the demo gives up.
InsertBeside(d, where) ==
  /\ beside' = TRUE
  /\ num' = num
  /\ IF num = 0 THEN Alone(Fresh(d))
     ELSE Longer(IF current = NoNode THEN chain
                 ELSE InsertAt(chain, At(current) + where, Fresh(d)))
InsertNext(d) == InsertBeside(d, 1)
InsertPrev(d) == InsertBeside(d, 0)

NextId(i) == IF i < Len(chain) THEN chain[i + 1].id ELSE NoNode

\* Fault: the current element stays when its node goes.
UnlinkOnly(i) ==
  /\ chain' = RemoveAt(chain, i)
  /\ num' = num - 1
  /\ UNCHANGED <<current, tailFreed, leaked>>
Unlink(i) ==
  /\ chain' = RemoveAt(chain, i)
  /\ current' = IF chain[i].id = current THEN NextId(i) ELSE current
  /\ num' = num - 1
  /\ UNCHANGED <<tailFreed, leaked>>

\* Data that is not there is no failure, an empty list is one.
DataRemove(d) ==
  LET i == SelectInSeq(chain, LAMBDA n : n.data = d) IN
  IF i > 0 THEN Unlink(i) ELSE UNCHANGED <<chain, current, num, tailFreed, leaked>>

\* remove_elem of the i-th node; it looks at num_nodes, not at the list.
RemoveElem(i) ==
  IF num = 0 THEN UNCHANGED <<chain, current, num, tailFreed, leaked>> ELSE Unlink(i)

\* Insertion before the first node that is greater (smaller): equal ones stay
\* in order.
\* Fault: insertion before an equal node.
PutBefore(sorted, n, ascending) ==
  LET i == SelectInSeq(sorted, LAMBDA m :
             IF ascending THEN m.data >= n.data ELSE m.data <= n.data)
  IN  IF i = 0 THEN Append(sorted, n) ELSE InsertAt(sorted, i, n)
Put(sorted, n, ascending) ==
  LET i == SelectInSeq(sorted, LAMBDA m :
             IF ascending THEN m.data > n.data ELSE m.data < n.data)
  IN  IF i = 0 THEN Append(sorted, n) ELSE InsertAt(sorted, i, n)
SortedChain(ascending) ==
  FoldLeft(LAMBDA acc, n : Put(acc, n, ascending), <<>>, chain)
ListSort(ascending) ==
  /\ chain' = IF num = 0 THEN chain ELSE SortedChain(ascending)
  /\ UNCHANGED <<current, num, tailFreed, leaked>>

\* Nothing is freed when num_nodes is 0; tail is never reset.
ListDestroy ==
  /\ chain' = IF num = 0 THEN chain ELSE <<>>
  /\ tailFreed' = (tailFreed \/ num # 0)
  /\ num' = 0 /\ current' = NoNode
  /\ UNCHANGED leaked

-----------------------------------------------------------------------------
(* The demo: each step is one turn of one of its loops.                     *)

Fill ==
  /\ phase = "fill" /\ ListRoom
  /\ \E d \in Data : InsertTail(d)
  /\ phase' \in {"fill", "remove"}
  /\ UNCHANGED beside

RemoveData ==
  /\ phase = "remove"
  /\ \E d \in Data : DataRemove(d)
  /\ phase' \in IF chain = <<>> THEN {"aborted"} ELSE {"remove", "add"}
  /\ UNCHANGED beside

Add ==
  /\ phase = "add" /\ ListRoom
  /\ \E d \in Data : InsertTail(d)
  /\ phase' = "add"
  /\ UNCHANGED beside

SortThenPlay ==
  /\ phase = "add" /\ phase' = "play"
  /\ ListSort(FALSE)
  /\ UNCHANGED beside

\* mh, mt, mn, mp: a freed tail can become the current element.
Move ==
  /\ phase = "play"
  /\ current' \in
       {IF chain = <<>> THEN NoNode ELSE chain[1].id,
        IF tailFreed THEN Freed ELSE IF chain = <<>> THEN NoNode ELSE Last(chain).id}
       \cup {chain[i].id : i \in {j \in DOMAIN chain : OnList /\ At(current) - j \in {-1, 1}}}
  /\ UNCHANGED <<chain, num, tailFreed, phase, beside, leaked>>

\* Any command that follows a freed current element reads freed memory.
ReadFreed ==
  /\ phase = "play" /\ current = Freed
  /\ phase' = "freed"
  /\ UNCHANGED <<chain, current, num, tailFreed, beside, leaked>>

\* rc, rp, rn
RemoveAround ==
  /\ phase = "play" /\ OnList
  /\ \E i \in DOMAIN chain : At(current) - i \in -1..1 /\ RemoveElem(i)
  /\ UNCHANGED <<phase, beside>>

RemoveAll == phase = "play" /\ ListDestroy /\ UNCHANGED <<phase, beside>>

AddAtEnds ==
  /\ phase = "play" /\ ListRoom
  /\ \E d \in Data : InsertHead(d) \/ InsertTail(d)
  /\ UNCHANGED <<phase, beside>>

AddBeside ==
  /\ phase = "play" /\ ListRoom
  /\ \E d \in Data : InsertNext(d) \/ InsertPrev(d)
  /\ phase' = IF current = NoNode /\ num # 0 THEN "aborted" ELSE "play"

Sort ==
  /\ phase = "play"
  /\ \E ascending \in BOOLEAN : ListSort(ascending)
  /\ UNCHANGED <<phase, beside>>

Quit ==
  /\ phase = "play" /\ phase' = "done"
  /\ ListDestroy
  /\ UNCHANGED beside

ListNext ==
  \/ Fill \/ RemoveData \/ Add \/ SortThenPlay \/ Move \/ ReadFreed
  \/ RemoveAround \/ RemoveAll \/ AddAtEnds \/ AddBeside \/ Sort \/ Quit

ListSpec == ListInit /\ [][ListNext]_listVars

-----------------------------------------------------------------------------
(* Properties                                                               *)

\* As long as nothing was put beside the current element, num_nodes is the
\* length of the list and no node is ever lost; after that it can only be too
\* low, so no walk over a list that counts as non-empty meets a NULL head.  The
\* current element is on the list, whatever was removed, sorted or forgotten,
\* unless the list was emptied and its old tail made current.
ListIsSound ==
  /\ 0 <= num /\ num <= Len(chain)
  /\ ~beside => num = Len(chain) /\ ~leaked
  /\ current \in Ids(chain) \cup {NoNode} \/ (current = Freed /\ chain = <<>>)

\* A sort keeps every node and leaves them in order, equal ones as they were.
Before(m, n, ascending) ==
  \/ IF ascending THEN m.data < n.data ELSE m.data > n.data
  \/ m.data = n.data /\ At(m.id) < At(n.id)
SortKeepsNodes ==
  [][\A ascending \in BOOLEAN :
       ListSort(ascending) /\ num > 0 =>
         /\ Len(chain') = Len(chain) /\ Ids(chain') = Ids(chain)
         /\ \A i, j \in DOMAIN chain' :
              i < j => Before(chain'[i], chain'[j], ascending)]_listVars

=============================================================================
