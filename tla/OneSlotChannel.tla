---------------------------- MODULE OneSlotChannel ----------------------------
(***************************************************************************)
(* What the message exchange promises: a channel that holds at most one    *)
(* message.  A message is put only into an empty channel, is taken exactly *)
(* once, and messages are taken in the order they were put.                *)
(***************************************************************************)
EXTENDS Naturals, Sequences

CONSTANT Messages

VARIABLES
  slot,     \* the message in the channel, as a sequence of length 0 or 1
  received  \* every message taken so far, in order

chanVars == <<slot, received>>

Init == slot = <<>> /\ received = <<>>

Put ==
  /\ slot = <<>>
  /\ slot' \in Seq(Messages) /\ Len(slot') = 1
  /\ UNCHANGED received

Take == slot # <<>> /\ slot' = <<>> /\ received' = received \o slot

Next == Put \/ Take

Spec == Init /\ [][Next]_chanVars

\* Under fairness of Take a message put is received.
FairSpec == Spec /\ WF_chanVars(Take)
=============================================================================
