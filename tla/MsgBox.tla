-------------------------------- MODULE MsgBox --------------------------------
(***************************************************************************)
(* The message box of a user of eLibrary (USER_INFO.msgBox) and the two    *)
(* functions that touch it: sendReceiveMsg, which records one message, and *)
(* the "msg -f" command, which shows a conversation and marks it read.     *)
(*                                                                         *)
(* A box is a linked list of conversations (struct msgList), newest first, *)
(* and two counters; a conversation is a linked list of messages (struct   *)
(* msgContext), newest first, and two counters.  No lock protects any of   *)
(* it, so a thread reads a pointer or a counter in one step and writes it  *)
(* back in another.                                                        *)
(***************************************************************************)
EXTENDS Naturals, Sequences

CONSTANTS
  Users,      \* registered user names
  Names,      \* every name a user may type as a contact
  Threads,    \* threads that call sendReceiveMsg or run "msg -f"
  MayHappen,  \* which rare events this instance allows, see Rare
  Wrap        \* the counters are unsigned, modulo Wrap (2^32 in the code)

Rare == {"malloc_fails", "mutex_fails", "signal_fails", "shutdown", "unknown_contact"}

ASSUME UsersAssumption == Users # {} /\ Users \subseteq Names
ASSUME MayHappenAssumption == MayHappen \subseteq Rare
ASSUME WrapAssumption == Wrap \in Nat \ {0}

VARIABLES
  pc,     \* pc[t]: the next statement of thread t
  op,     \* op[t]: the arguments and locals of the call t is in
  boxes,  \* boxes[u]: head of the list of conversations, and the counters
  nodes   \* the heap of struct msgList, by allocation order

boxVars == <<pc, op, boxes, nodes>>

Messages == [id: Nat, from: Users, to: Names]
Direction == {"in", "out"}              \* MSG_RECEIPT_IN, MSG_RECEIPT_OUT
Entry == [io: Direction, msg: Messages] \* struct msgContext
Counter == [of: {"node", "box"}, field: {"numMsg", "numUnread"}]
NULL == 0                               \* no such node

\* The counters sendReceiveMsg increments, in its order.
CountersOf(dir) ==
  LET numMsg(of) == [of |-> of, field |-> "numMsg"]
      numUnread(of) == [of |-> of, field |-> "numUnread"]
  IN  IF dir = "in"
        THEN <<numMsg("node"), numMsg("box"), numUnread("node"), numUnread("box")>>
        ELSE <<numMsg("node"), numMsg("box")>>

\* A list is the sequence of what its pointers reach: nodes and contexts are
\* only ever prepended and their next pointers never change, so a pointer and
\* the sequence it reaches say the same.
EmptyBox == [msgs |-> <<>>, numMsg |-> 0, numUnread |-> 0]
NewNode(contact, next) ==
  [contact |-> contact, next |-> next, contexts |-> <<>>, numMsg |-> 0, numUnread |-> 0]

Call(host, contact, dir, msg) ==
  [host |-> host, contact |-> contact, dir |-> dir, msg |-> msg,
   node |-> NULL, tail |-> <<>>, num |-> 0, seen |-> 0, todo |-> CountersOf(dir)]

AnyUser == CHOOSE u \in Users : TRUE
NoMessage == [id |-> 0, from |-> AnyUser, to |-> AnyUser]
NoCall == Call(AnyUser, AnyUser, "out", NoMessage)

BoxInit ==
  /\ op = [t \in Threads |-> NoCall]
  /\ boxes = [u \in Users |-> EmptyBox]
  /\ nodes = <<>>

Goto(t, label) == pc' = [pc EXCEPT ![t] = label]
At(t, label) == pc[t] = label
Forget(t) == op' = [op EXCEPT ![t] = NoCall] \* the call returns: its locals go

\* getMsgNode: the first conversation of host with this contact.
GetMsgNode(host, contact) ==
  LET list == boxes[host].msgs
      hits == {i \in DOMAIN list : nodes[list[i]].contact = contact}
  IN  IF hits = {} THEN NULL ELSE list[CHOOSE i \in hits : \A j \in hits : i <= j]

-----------------------------------------------------------------------------
(* sendReceiveMsg(host, frdName, msg, direction), from the allocation on.    *)

\* The caller goes on: a sender to notifyExchange, the receiver to its reset.
AfterRecord(t) == IF op[t].dir = "out" THEN "notify" ELSE "reset"
AfterFailure(t) == IF op[t].dir = "out" THEN "idle" ELSE "reset"

\* malloc of the context or of the node returns NULL: nothing is recorded.
AllocFails(t) ==
  /\ "malloc_fails" \in MayHappen
  /\ pc[t] \in {"lookup", "newnode"}
  /\ Goto(t, AfterFailure(t))
  /\ Forget(t)
  /\ UNCHANGED <<boxes, nodes>>

FindNode(t) ==
  LET n == GetMsgNode(op[t].host, op[t].contact)
  IN  /\ At(t, "lookup")
      /\ op' = [op EXCEPT ![t].node = n]
      /\ Goto(t, IF n = NULL THEN "newnode" ELSE "link")
      /\ UNCHANGED <<boxes, nodes>>

\* The node is allocated and its next pointer set to the head as it is now.
AllocNode(t) ==
  /\ At(t, "newnode")
  /\ nodes' = Append(nodes, NewNode(op[t].contact, boxes[op[t].host].msgs))
  /\ op' = [op EXCEPT ![t].node = Len(nodes) + 1]
  /\ Goto(t, "insert")
  /\ UNCHANGED boxes

\* Fault: the new node becomes the whole list.
InsertNodeAlone(t) ==
  /\ At(t, "insert")
  /\ boxes' = [boxes EXCEPT ![op[t].host].msgs = <<op[t].node>>]
  /\ Goto(t, "link")
  /\ UNCHANGED <<op, nodes>>

\* The head is set to the node, whatever it has become in between.
InsertNode(t) ==
  /\ At(t, "insert")
  /\ boxes' = [boxes EXCEPT ![op[t].host].msgs = <<op[t].node>> \o nodes[op[t].node].next]
  /\ Goto(t, "link")
  /\ UNCHANGED <<op, nodes>>

LoadContexts(t) ==
  /\ At(t, "link")
  /\ op' = [op EXCEPT ![t].tail = nodes[op[t].node].contexts]
  /\ Goto(t, "linkstore")
  /\ UNCHANGED <<boxes, nodes>>

StoreContexts(t) ==
  LET entry == [io |-> op[t].dir, msg |-> op[t].msg]
  IN  /\ At(t, "linkstore")
      /\ nodes' = [nodes EXCEPT ![op[t].node].contexts = <<entry>> \o op[t].tail]
      /\ op' = [op EXCEPT ![t].tail = <<>>]
      /\ Goto(t, "load")
      /\ UNCHANGED boxes

\* counter++ is a load and a store.
LoadCounter(t) ==
  LET c == Head(op[t].todo)
  IN  /\ At(t, "load")
      /\ op' = [op EXCEPT ![t].num = IF c.of = "node" THEN nodes[op[t].node][c.field]
                                                      ELSE boxes[op[t].host][c.field]]
      /\ Goto(t, "store")
      /\ UNCHANGED <<boxes, nodes>>

StoreCounter(t) ==
  LET c == Head(op[t].todo)
      value == (op[t].num + 1) % Wrap
  IN  /\ At(t, "store")
      /\ IF c.of = "node"
           THEN nodes' = [nodes EXCEPT ![op[t].node][c.field] = value] /\ UNCHANGED boxes
           ELSE boxes' = [boxes EXCEPT ![op[t].host][c.field] = value] /\ UNCHANGED nodes
      /\ op' = [op EXCEPT ![t].todo = Tail(@), ![t].num = 0]
      /\ Goto(t, IF Tail(op[t].todo) = <<>> THEN AfterRecord(t) ELSE "load")

Record(t) ==
  \/ AllocFails(t)
  \/ FindNode(t)
  \/ AllocNode(t)
  \/ InsertNode(t)
  \/ LoadContexts(t)
  \/ StoreContexts(t)
  \/ LoadCounter(t)
  \/ StoreCounter(t)

-----------------------------------------------------------------------------
(* "msg -f contact" run by thread t for user host.                           *)

\* getMsgInfo tests its own parameter for NULL instead of the node found, so
\* an unknown contact is not an error and its NULL node is dereferenced.
OpenConversation(t, host, contact) ==
  LET n == GetMsgNode(host, contact)
  IN  /\ At(t, "idle")
      /\ n = NULL => "unknown_contact" \in MayHappen
      /\ op' = [op EXCEPT ![t] = [Call(host, contact, "out", NoMessage) EXCEPT !.node = n]]
      /\ Goto(t, IF n = NULL THEN "crashed" ELSE "unread")
      /\ UNCHANGED <<boxes, nodes>>

ReadUnread(t) ==
  /\ At(t, "unread")
  /\ op' = [op EXCEPT ![t].seen = nodes[op[t].node].numUnread]
  /\ Goto(t, "brief")
  /\ UNCHANGED <<boxes, nodes>>

\* briefMsgContexts shows the conversation and clears its counter.
BriefMsgContexts(t) ==
  /\ At(t, "brief")
  /\ nodes' = [nodes EXCEPT ![op[t].node].numUnread = 0]
  /\ Goto(t, "subload")
  /\ UNCHANGED <<op, boxes>>

\* malloc of the text fails: the conversation keeps its counter, and the caller
\* goes on to subtract it from the box all the same.
BriefFails(t) ==
  /\ At(t, "brief")
  /\ "malloc_fails" \in MayHappen
  /\ Goto(t, "subload")
  /\ UNCHANGED <<op, boxes, nodes>>

LoadBoxUnread(t) ==
  /\ At(t, "subload")
  /\ op' = [op EXCEPT ![t].num = boxes[op[t].host].numUnread]
  /\ Goto(t, "substore")
  /\ UNCHANGED <<boxes, nodes>>

\* Fault: showing one conversation marks every conversation read.
ClearBoxUnread(t) ==
  /\ At(t, "substore")
  /\ boxes' = [boxes EXCEPT ![op[t].host].numUnread = 0]
  /\ Goto(t, "idle")
  /\ Forget(t)
  /\ UNCHANGED nodes

\* Fault: the subtraction is not modulo Wrap.
StoreSignedUnread(t) ==
  /\ At(t, "substore")
  /\ boxes' = [boxes EXCEPT ![op[t].host].numUnread = op[t].num - op[t].seen]
  /\ Goto(t, "idle")
  /\ Forget(t)
  /\ UNCHANGED nodes

StoreBoxUnread(t) ==
  /\ At(t, "substore")
  /\ boxes' = [boxes EXCEPT ![op[t].host].numUnread = (op[t].num + Wrap - op[t].seen) % Wrap]
  /\ Goto(t, "idle")
  /\ Forget(t)
  /\ UNCHANGED nodes

Show(t) ==
  \/ ReadUnread(t)
  \/ BriefMsgContexts(t)
  \/ BriefFails(t)
  \/ LoadBoxUnread(t)
  \/ StoreBoxUnread(t)
=============================================================================
