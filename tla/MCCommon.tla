------------------------------ MODULE MCCommon ------------------------------
(* The data structures of common: a behaviour follows one of them.           *)
EXTENDS TreeShell, LinkedList, HashTable, MemPool, TLC

CONSTANTS
  a, b, c, d   \* hash keys

VARIABLE subject

\* Five tree keys: a removal can need a double turn, climb two levels or meet
\* a red sibling.
MCKeys == 1..5

\* Two keys on one bucket, two that compare equal and hash differently.  The
\* steps of rand() lead to every bucket.
MCHash == (a :> 0) @@ (b :> 0) @@ (c :> 1) @@ (d :> 2)
MCFourBytes == (a :> 1) @@ (b :> 2) @@ (c :> 3) @@ (d :> 3)
MCStep == [i \in 0..9 |-> 1 - (i % 2)]

ASSUME StepsAssumption == WalksEverywhere

CommonInit ==
  /\ TreeInit /\ ListInit /\ HtInit /\ PoolInit
  /\ subject \in {"tree", "list", "table", "pool"}
  /\ subject = "table" \/ numData = 0

CommonNext ==
  /\ UNCHANGED subject
  /\ \/ subject = "tree" /\ TreeNext /\ UNCHANGED <<listVars, htVars, poolVars>>
     \/ subject = "list" /\ ListNext /\ UNCHANGED <<treeVars, htVars, poolVars>>
     \/ subject = "table" /\ HtNext /\ UNCHANGED <<treeVars, listVars, poolVars>>
     \/ subject = "pool" /\ PoolNext /\ UNCHANGED <<treeVars, listVars, htVars>>

CommonSpec ==
  CommonInit /\ [][CommonNext]_<<subject, treeVars, listVars, htVars, poolVars>>
=============================================================================
