-------------------------- MODULE MsgExchange_proofs --------------------------
(***************************************************************************)
(* Proofs, for every set of users, sessions and rare events, that the      *)
(* exchange keeps its types and its heap, excludes two threads from the    *)
(* slot, loses no wakeup, and implements the one-slot channel; and, while  *)
(* commands come one at a time, memory suffices and no counter wraps, that *)
(* the counters of the boxes add up and that every message handled is in   *)
(* the sender's and in the addressee's box exactly once.                   *)
(***************************************************************************)
EXTENDS MsgExchange, DataLemmas, NaturalsInduction, WellFoundedInduction

-----------------------------------------------------------------------------
(* Types.                                                                    *)

\* A call record has its type and counters left to increment.
LEMMA CallTyped ==
  ASSUME NEW host \in Users, NEW contact \in Names, NEW dir \in Direction,
         NEW msg \in Messages
  PROVE  /\ Call(host, contact, dir, msg) \in CallType
         /\ Call(host, contact, dir, msg).todo # <<>>
         /\ Call(host, contact, dir, msg).msg = msg
<1>1. CountersOf(dir) \in Seq(Counter) /\ CountersOf(dir) # <<>>
  <2>1. CASE dir = "in"
    BY <2>1 DEF CountersOf, Counter
  <2>2. CASE dir = "out"
    BY <2>2 DEF CountersOf, Counter
  <2>3. QED
    BY <2>1, <2>2 DEF Direction
<1>2. QED
  BY <1>1 DEF Call, CallType, NULL

\* The call of an idle thread has its type.
LEMMA NoCallTyped == NoCall \in CallType /\ NoMessage \in Messages
<1>1. AnyUser \in Users /\ AnyUser \in Names
  BY UsersAssumption DEF AnyUser
<1>2. NoMessage \in Messages
  BY <1>1 DEF NoMessage, Messages
<1>3. "out" \in Direction
  BY DEF Direction
<1>4. QED
  BY <1>1, <1>2, <1>3, CallTyped DEF NoCall

\* getMsgNode returns NULL or an allocated conversation.
LEMMA GetMsgNodeAllocated ==
  ASSUME TypeOK, NEW u \in Users, NEW c \in Names
  PROVE  GetMsgNode(u, c) = NULL \/ GetMsgNode(u, c) \in DOMAIN nodes
<1> DEFINE list == boxes[u].msgs
           hits == {i \in DOMAIN list : nodes[list[i]].contact = c}
           first == CHOOSE i \in hits : \A j \in hits : i <= j
<1>1. CASE hits = {}
  BY <1>1 DEF GetMsgNode
<1>2. CASE hits # {}
  <2>1. list \in Seq(Nat) /\ Allocated(list)
    BY DEF TypeOK, VarsTyped, HeapOK, BoxType
  <2>2. \E i \in hits : \A j \in hits : i <= j
    <3>1. hits \subseteq Nat
      BY <2>1
    <3> DEFINE R == OpToRel(<, Nat)
    <3>2. \E i \in hits : \A j \in hits : <<j, i>> \notin R
      <4>1. IsWellFoundedOn(R, Nat)
        BY NatLessThanWellFounded
      <4>2. QED
        BY <1>2, <3>1, <4>1, WFMin
    <3>3. ASSUME NEW i \in hits, NEW j \in hits, <<j, i>> \notin R
          PROVE  i <= j
      BY <3>1, <3>3 DEF OpToRel
    <3>4. QED
      BY <3>2, <3>3
  <2>3. first \in hits
    BY <2>2
  <2>4. list[first] \in DOMAIN nodes
    BY <2>1, <2>3 DEF Allocated
  <2>5. QED
    BY <1>2, <2>4 DEF GetMsgNode
<1>3. QED
  BY <1>1, <1>2

\* The exchange starts typed: empty boxes, idle sessions, a free slot.
THEOREM TypeInit == Init => TypeOK
<1> SUFFICES ASSUME Init PROVE TypeOK
  OBVIOUS
<1>1. op \in [Threads -> CallType]
  BY NoCallTyped DEF Init, BoxInit
<1>2. pc \in [Threads -> Labels]
  BY DEF Init, Labels, ReceiverLabels
<1>3. /\ boxes \in [Users -> BoxType]
      /\ nodes \in Seq(NodeType)
      /\ \A u \in Users : Allocated(boxes[u].msgs)
      /\ \A n \in DOMAIN nodes : Allocated(nodes[n].next)
  BY DEF Init, BoxInit, EmptyBox, Allocated, BoxType
<1>4. \A t \in Threads : pc[t] \notin NodeLabels /\ pc[t] \notin BoxLabels
  BY DEF Init, NodeLabels, BoxLabels, ShowLabels
<1>5. ready \in BOOLEAN
  BY DEF Init
<1>6. /\ lock \in Threads \cup {NoOwner}
      /\ event \in {"undef", "msg_sent", "shutdown"}
      /\ payload \in Messages
      /\ numSends \in Nat
      /\ handled \in Seq(Messages)
  BY NoCallTyped DEF Init
<1>7. QED
  BY <1>1, <1>2, <1>3, <1>4, <1>5, <1>6
     DEF TypeOK, VarsTyped, HeapOK, CallsOK, SlotTyped

\* What TypeOK needs of a step of thread t that leaves the slot alone and moves
\* t to a label with a call record that suits it.
LEMMA CallStepTyped ==
  ASSUME TypeOK, NEW t \in Threads, NEW label \in Labels, NEW call \in CallType,
         pc' = [pc EXCEPT ![t] = label],
         op' = [op EXCEPT ![t] = call],
         boxes' \in [Users -> BoxType], nodes' \in Seq(NodeType), HeapOK',
         DOMAIN nodes \subseteq DOMAIN nodes',
         label \in NodeLabels => call.node \in DOMAIN nodes',
         label \in BoxLabels => call.todo # <<>>
  PROVE  VarsTyped' /\ HeapOK' /\ CallsOK'
<1>1. VarsTyped'
  BY DEF TypeOK, VarsTyped
<1>2. CallsOK'
  <2> SUFFICES ASSUME NEW u \in Threads
               PROVE  /\ pc'[u] \in NodeLabels => op'[u].node \in DOMAIN nodes'
                      /\ pc'[u] \in BoxLabels => op'[u].todo # <<>>
    BY DEF CallsOK
  <2>1. CASE u = t
    BY <2>1 DEF TypeOK, VarsTyped
  <2>2. CASE u # t
    BY <2>2 DEF TypeOK, VarsTyped, CallsOK
  <2>3. QED
    BY <2>1, <2>2
<1>3. QED
  BY <1>1, <1>2

\* The heap stays well formed while boxes and nodes do not change.
LEMMA HeapUnchanged ==
  ASSUME TypeOK, UNCHANGED <<boxes, nodes>>
  PROVE  /\ boxes' \in [Users -> BoxType]
         /\ nodes' \in Seq(NodeType)
         /\ HeapOK'
         /\ DOMAIN nodes \subseteq DOMAIN nodes'
BY DEF TypeOK, VarsTyped, HeapOK, Allocated

\* Updating a local of a call keeps its type and the other locals.
LEMMA LocalsTyped ==
  ASSUME NEW c \in CallType
  PROVE  /\ \A n \in Nat : LET d == [c EXCEPT !.node = n]
                           IN  d \in CallType /\ d.node = n /\ d.todo = c.todo
         /\ \A e \in Seq(Entry) : LET d == [c EXCEPT !.tail = e]
                                  IN  d \in CallType /\ d.node = c.node /\ d.todo = c.todo
         /\ \A n \in Nat : LET d == [c EXCEPT !.num = n]
                           IN  d \in CallType /\ d.node = c.node /\ d.todo = c.todo
         /\ \A n \in Nat : LET d == [c EXCEPT !.seen = n]
                           IN  d \in CallType /\ d.node = c.node /\ d.todo = c.todo
         /\ \A q \in Seq(Counter) : LET d == [c EXCEPT !.todo = q, !.num = 0]
                                    IN  d \in CallType /\ d.node = c.node /\ d.todo = q
BY DEF CallType

\* So does updating a conversation, whose next pointer stays.
LEMMA NodeUpdates ==
  ASSUME NEW r \in NodeType
  PROVE  /\ \A e \in Seq(Entry) : LET d == [r EXCEPT !.contexts = e]
                                  IN  d \in NodeType /\ d.next = r.next
         /\ \A n \in Nat : LET d == [r EXCEPT !.numMsg = n]
                           IN  d \in NodeType /\ d.next = r.next
         /\ \A n \in Nat : LET d == [r EXCEPT !.numUnread = n]
                           IN  d \in NodeType /\ d.next = r.next
BY DEF NodeType

\* The heap stays well formed when a conversation changes but its next pointer,
\* or a box but its list.
LEMMA HeapNodeUpdate ==
  ASSUME TypeOK, NEW n \in DOMAIN nodes, NEW r \in NodeType, r.next = nodes[n].next,
         nodes' = [nodes EXCEPT ![n] = r], boxes' = boxes
  PROVE  /\ boxes' \in [Users -> BoxType]
         /\ nodes' \in Seq(NodeType)
         /\ HeapOK'
         /\ DOMAIN nodes' = DOMAIN nodes
BY DEF TypeOK, VarsTyped, HeapOK, Allocated

\* A box whose list stays allocated leaves the heap sound.
LEMMA HeapBoxUpdate ==
  ASSUME TypeOK, NEW u \in Users, NEW b \in BoxType, b.msgs = boxes[u].msgs,
         boxes' = [boxes EXCEPT ![u] = b], nodes' = nodes
  PROVE  /\ boxes' \in [Users -> BoxType]
         /\ nodes' \in Seq(NodeType)
         /\ HeapOK'
         /\ DOMAIN nodes' = DOMAIN nodes
BY DEF TypeOK, VarsTyped, HeapOK, Allocated

\* Every step of sendReceiveMsg keeps the types and the heap.
LEMMA RecordTyped ==
  ASSUME TypeOK, NEW t \in Threads, Record(t)
  PROVE  VarsTyped' /\ HeapOK' /\ CallsOK'
<1> DEFINE c == op[t]
<1>0. /\ c \in CallType
      /\ pc[t] \in NodeLabels => c.node \in DOMAIN nodes
      /\ pc[t] \in BoxLabels => c.todo # <<>>
      /\ boxes \in [Users -> BoxType]
      /\ nodes \in Seq(NodeType)
  BY DEF TypeOK, VarsTyped, CallsOK
<1> USE DEF BoxLabels, NodeLabels, ShowLabels, Labels, NotifyLabels, ReceiverLabels
<1>1. CASE AllocFails(t)
  <2> DEFINE label == AfterFailure(t)
  <2>1. label \in {"idle", "reset"}
    BY DEF AfterFailure
  <2>2. /\ op' = [op EXCEPT ![t] = NoCall]
        /\ pc' = [pc EXCEPT ![t] = label]
        /\ UNCHANGED <<boxes, nodes>>
    BY <1>1 DEF AllocFails, Goto, Forget
  <2>3. label \in Labels /\ label \notin NodeLabels /\ label \notin BoxLabels
    BY <2>1
  <2> HIDE DEF label
  <2>4. QED
    BY <2>2, <2>3, HeapUnchanged, NoCallTyped, CallStepTyped
<1>2. CASE FindNode(t)
  <2> DEFINE n == GetMsgNode(c.host, c.contact)
             call == [c EXCEPT !.node = n]
             label == IF n = NULL THEN "newnode" ELSE "link"
  <2>1. n = NULL \/ n \in DOMAIN nodes
    BY <1>0, GetMsgNodeAllocated DEF CallType
  <2>2. call \in CallType /\ call.node = n /\ call.todo # <<>>
    <3>1. n \in Nat
      BY <1>0, <2>1 DEF NULL
    <3>2. c.todo # <<>>
      BY <1>0, <1>2 DEF FindNode, At
    <3> HIDE DEF n
    <3>3. QED
      BY <1>0, <3>1, <3>2, LocalsTyped
  <2>3. op' = [op EXCEPT ![t] = call] /\ pc' = [pc EXCEPT ![t] = label]
    BY <1>2 DEF FindNode, Goto, TypeOK, VarsTyped, CallType
  <2>4. UNCHANGED <<boxes, nodes>>
    BY <1>2 DEF FindNode
  <2>5. label \in Labels /\ (label \in NodeLabels => call.node \in DOMAIN nodes')
    BY <2>1, <2>2, <2>4
  <2>6. QED
    BY <2>2, <2>3, <2>4, <2>5, HeapUnchanged, CallStepTyped
<1>3. CASE AllocNode(t)
  <2> DEFINE new == NewNode(c.contact, boxes[c.host].msgs)
             call == [c EXCEPT !.node = Len(nodes) + 1]
  <2>1. new \in NodeType /\ new.next = boxes[c.host].msgs
    BY <1>0 DEF CallType, BoxType, NewNode, NodeType
  <2>2. /\ nodes' \in Seq(NodeType)
        /\ DOMAIN nodes' = DOMAIN nodes \cup {Len(nodes) + 1}
        /\ \A n \in DOMAIN nodes : nodes'[n] = nodes[n]
        /\ nodes'[Len(nodes) + 1] = new
    BY <1>0, <1>3, <2>1 DEF AllocNode
  <2>3. HeapOK'
    <3>1. \A u \in Users : Allocated(boxes[u].msgs)'
      BY <1>3, <2>2 DEF AllocNode, TypeOK, HeapOK, Allocated
    <3>2. \A n \in DOMAIN nodes' : Allocated(nodes[n].next)'
      BY <1>0, <2>1, <2>2 DEF CallType, TypeOK, HeapOK, Allocated
    <3>3. QED
      BY <3>1, <3>2 DEF HeapOK
  <2>4. call \in CallType /\ call.node \in DOMAIN nodes' /\ call.todo # <<>>
    <3>1. Len(nodes) + 1 \in Nat
      BY <1>0
    <3>2. c.todo # <<>>
      BY <1>0, <1>3 DEF AllocNode, At
    <3>3. QED
      BY ZenonT(30), <1>0, <2>2, <3>1, <3>2, LocalsTyped
  <2>5. /\ op' = [op EXCEPT ![t] = call]
        /\ pc' = [pc EXCEPT ![t] = "insert"]
        /\ boxes' = boxes
    BY <1>3 DEF AllocNode, Goto
  <2>6. QED
    BY <1>0, <2>2, <2>3, <2>4, <2>5, CallStepTyped
<1>4. CASE InsertNode(t)
  <2> DEFINE n == c.node
             list == <<n>> \o nodes[n].next
  <2>1. n \in DOMAIN nodes /\ n \in Nat /\ nodes[n].next \in Seq(Nat)
    <3>1. n \in DOMAIN nodes
      BY <1>0, <1>4 DEF InsertNode, At
    <3>2. nodes[n] \in NodeType
      BY <1>0, <3>1
    <3>3. QED
      BY <1>0, <3>1, <3>2 DEF NodeType
  <2>2. /\ list \in Seq(Nat)
        /\ \A i \in DOMAIN list : list[i] = n \/ list[i] = nodes[n].next[i - 1]
        /\ \A i \in DOMAIN list : i # 1 => i - 1 \in DOMAIN nodes[n].next
        /\ list[1] = n
    BY <2>1
  <2>3. /\ boxes' = [boxes EXCEPT ![c.host].msgs = list]
        /\ nodes' = nodes
        /\ op' = [op EXCEPT ![t] = c]
        /\ pc' = [pc EXCEPT ![t] = "link"]
    BY <1>0, <1>4 DEF InsertNode, Goto, TypeOK, VarsTyped
  <2>4. boxes' \in [Users -> BoxType]
    BY <1>0, <2>2, <2>3 DEF BoxType
  <2>5. HeapOK'
    <3>1. \A i \in DOMAIN list : list[i] \in DOMAIN nodes
      BY <2>1, <2>2 DEF TypeOK, HeapOK, Allocated
    <3>2. ASSUME NEW u \in Users PROVE Allocated(boxes[u].msgs)'
      <4>1. \/ boxes'[u].msgs = list
            \/ boxes'[u].msgs = boxes[u].msgs
        <5> HIDE DEF list
        <5>1. QED
          BY <1>0, <2>3 DEF BoxType
      <4>2. \A i \in DOMAIN boxes[u].msgs : boxes[u].msgs[i] \in DOMAIN nodes
        BY DEF TypeOK, HeapOK, Allocated
      <4> HIDE DEF list
      <4>3. QED
        BY <2>3, <3>1, <4>1, <4>2 DEF Allocated
    <3>3. QED
      BY <2>3, <3>2 DEF TypeOK, HeapOK, Allocated
  <2>6. QED
    BY <1>0, <1>4, <2>1, <2>3, <2>4, <2>5, CallStepTyped DEF InsertNode, At
<1>5. CASE LoadContexts(t)
  <2> DEFINE call == [c EXCEPT !.tail = nodes[c.node].contexts]
  <2>1. call \in CallType /\ call.node \in DOMAIN nodes /\ call.todo # <<>>
    <3>1. c.node \in DOMAIN nodes /\ c.todo # <<>>
      BY <1>0, <1>5 DEF LoadContexts, At
    <3>2. nodes[c.node] \in NodeType
      BY <1>0, <3>1
    <3>3. nodes[c.node].contexts \in Seq(Entry)
      BY <3>2 DEF NodeType
    <3>4. QED
      BY <1>0, <3>1, <3>3, LocalsTyped
  <2>2. /\ op' = [op EXCEPT ![t] = call]
        /\ pc' = [pc EXCEPT ![t] = "linkstore"]
        /\ UNCHANGED <<boxes, nodes>>
    BY <1>5 DEF LoadContexts, Goto
  <2>3. QED
    BY <2>1, <2>2, HeapUnchanged, CallStepTyped
<1>6. CASE StoreContexts(t)
  <2> DEFINE n == c.node
             entry == [io |-> c.dir, msg |-> c.msg]
             contexts == <<entry>> \o c.tail
             call == [c EXCEPT !.tail = <<>>]
  <2>1. n \in DOMAIN nodes /\ contexts \in Seq(Entry)
    BY <1>0, <1>6 DEF StoreContexts, At, CallType, Entry
  <2>2. /\ nodes' = [nodes EXCEPT ![n].contexts = contexts]
        /\ boxes' = boxes
        /\ op' = [op EXCEPT ![t] = call]
        /\ pc' = [pc EXCEPT ![t] = "load"]
    BY <1>6 DEF StoreContexts, Goto
  <2> DEFINE r == [nodes[n] EXCEPT !.contexts = contexts]
  <2>3. r \in NodeType /\ r.next = nodes[n].next
    <3> HIDE DEF contexts
    <3>1. QED
      BY <1>0, <2>1, NodeUpdates
  <2>4. nodes' = [nodes EXCEPT ![n] = r]
    BY <2>2
  <2>5. call \in CallType /\ call.node = n /\ call.todo # <<>>
    <3>1. c.todo # <<>> /\ <<>> \in Seq(Entry)
      BY <1>0, <1>6 DEF StoreContexts, At
    <3>2. QED
      BY <1>0, <3>1, LocalsTyped
  <2>6. QED
    <3> HIDE DEF contexts, call, r, n, c
    <3>1. /\ boxes' \in [Users -> BoxType] /\ nodes' \in Seq(NodeType)
          /\ HeapOK' /\ DOMAIN nodes' = DOMAIN nodes
      BY <2>1, <2>2, <2>3, <2>4, HeapNodeUpdate
    <3>2. QED
      BY <2>1, <2>2, <2>5, <3>1, CallStepTyped
<1>7. CASE LoadCounter(t)
  <2> DEFINE k == Head(c.todo)
             num == IF k.of = "node" THEN nodes[c.node][k.field] ELSE boxes[c.host][k.field]
             call == [c EXCEPT !.num = num]
  <2>0. nodes[c.node] \in NodeType /\ boxes[c.host] \in BoxType
    BY <1>0, <1>7 DEF LoadCounter, At, CallType
  <2>1. k \in Counter
    BY <1>0, <1>7 DEF LoadCounter, At, CallType
  <2>2. num \in Nat
    <3>1. CASE k.field = "numMsg"
      BY <1>0, <2>0, <3>1 DEF NodeType, BoxType
    <3>2. CASE k.field = "numUnread"
      BY <1>0, <2>0, <3>2 DEF NodeType, BoxType
    <3>3. QED
      BY <2>1, <3>1, <3>2 DEF Counter
  <2>3. call \in CallType /\ call.node \in DOMAIN nodes /\ call.todo # <<>>
    BY <1>0, <1>7, <2>2 DEF LoadCounter, At, CallType
  <2>4. /\ op' = [op EXCEPT ![t] = call]
        /\ pc' = [pc EXCEPT ![t] = "store"]
        /\ UNCHANGED <<boxes, nodes>>
    BY <1>7 DEF LoadCounter, Goto
  <2>5. QED
    BY <2>3, <2>4, HeapUnchanged, CallStepTyped
<1>8. CASE StoreCounter(t)
  <2> DEFINE k == Head(c.todo)
             value == (c.num + 1) % Wrap
             call == [c EXCEPT !.todo = Tail(c.todo), !.num = 0]
             label == IF Tail(c.todo) = <<>> THEN AfterRecord(t) ELSE "load"
  <2>1. k \in Counter /\ Tail(c.todo) \in Seq(Counter) /\ value \in Nat
    <3>1. c.todo # <<>> /\ c.todo \in Seq(Counter) /\ c.num \in Nat
      BY <1>0, <1>8 DEF StoreCounter, At, CallType
    <3>2. value \in Nat
      BY <3>1, WrapAssumption
    <3>3. QED
      BY <3>1, <3>2
  <2>2. /\ op' = [op EXCEPT ![t] = call]
        /\ pc' = [pc EXCEPT ![t] = label]
    BY <1>8 DEF StoreCounter, Goto
  <2>3. /\ call \in CallType /\ call.node \in DOMAIN nodes
        /\ label \in Labels /\ (label \in BoxLabels => call.todo # <<>>)
    BY <1>0, <1>8, <2>1 DEF StoreCounter, At, CallType, AfterRecord
  <2>4. /\ nodes' \in Seq(NodeType) /\ boxes' \in [Users -> BoxType]
        /\ DOMAIN nodes' = DOMAIN nodes /\ HeapOK'
    <3>1. CASE k.of = "node" /\ k.field = "numMsg"
      <4>1. nodes' = [nodes EXCEPT ![c.node].numMsg = value] /\ boxes' = boxes
        BY <1>8, <3>1 DEF StoreCounter
      <4> DEFINE r == [nodes[c.node] EXCEPT !.numMsg = value]
      <4>2. c.node \in DOMAIN nodes /\ value \in Nat
        BY <1>0, <1>8, <2>1 DEF StoreCounter, At
      <4> HIDE DEF value
      <4>3. r \in NodeType /\ r.next = nodes[c.node].next
        BY <1>0, <4>2, NodeUpdates
      <4>4. nodes' = [nodes EXCEPT ![c.node] = r]
        BY <4>1
      <4> HIDE DEF r, c
      <4>5. QED
        BY <4>1, <4>2, <4>3, <4>4, HeapNodeUpdate
    <3>2. CASE k.of = "node" /\ k.field = "numUnread"
      <4>1. nodes' = [nodes EXCEPT ![c.node].numUnread = value] /\ boxes' = boxes
        BY <1>8, <3>2 DEF StoreCounter
      <4> DEFINE r == [nodes[c.node] EXCEPT !.numUnread = value]
      <4>2. c.node \in DOMAIN nodes /\ value \in Nat
        BY <1>0, <1>8, <2>1 DEF StoreCounter, At
      <4> HIDE DEF value
      <4>3. r \in NodeType /\ r.next = nodes[c.node].next
        BY <1>0, <4>2, NodeUpdates
      <4>4. nodes' = [nodes EXCEPT ![c.node] = r]
        BY <4>1
      <4> HIDE DEF r, c
      <4>5. QED
        BY <4>1, <4>2, <4>3, <4>4, HeapNodeUpdate
    <3>3. CASE k.of = "box" /\ k.field = "numMsg"
      <4>1. boxes' = [boxes EXCEPT ![c.host].numMsg = value] /\ nodes' = nodes
        BY <1>8, <3>3 DEF StoreCounter
      <4> DEFINE b == [boxes[c.host] EXCEPT !.numMsg = value]
      <4>2. b \in BoxType /\ b.msgs = boxes[c.host].msgs /\ c.host \in Users
        BY <1>0, <2>1 DEF BoxType, CallType
      <4>3. boxes' = [boxes EXCEPT ![c.host] = b]
        BY <4>1
      <4>4. QED
        BY <4>1, <4>2, <4>3, HeapBoxUpdate
    <3>4. CASE k.of = "box" /\ k.field = "numUnread"
      <4>1. boxes' = [boxes EXCEPT ![c.host].numUnread = value] /\ nodes' = nodes
        BY <1>8, <3>4 DEF StoreCounter
      <4> DEFINE b == [boxes[c.host] EXCEPT !.numUnread = value]
      <4>2. b \in BoxType /\ b.msgs = boxes[c.host].msgs /\ c.host \in Users
        BY <1>0, <2>1 DEF BoxType, CallType
      <4>3. boxes' = [boxes EXCEPT ![c.host] = b]
        BY <4>1
      <4>4. QED
        BY <4>1, <4>2, <4>3, HeapBoxUpdate
    <3>5. QED
      BY <2>1, <3>1, <3>2, <3>3, <3>4 DEF Counter
  <2>5. QED
    BY <1>0, <2>2, <2>3, <2>4, CallStepTyped
<1>9. QED
  BY <1>1, <1>2, <1>3, <1>4, <1>5, <1>6, <1>7, <1>8 DEF Record

\* So does every step of "msg -f" but its start.
LEMMA ShowTyped ==
  ASSUME TypeOK, NEW t \in Threads, Show(t)
  PROVE  VarsTyped' /\ HeapOK' /\ CallsOK'
<1> DEFINE c == op[t]
<1> USE DEF BoxLabels, NodeLabels, ShowLabels, Labels, NotifyLabels, ReceiverLabels
<1>0. /\ c \in CallType
      /\ c.node \in DOMAIN nodes
      /\ nodes[c.node] \in NodeType
      /\ boxes[c.host] \in BoxType
      /\ c.host \in Users /\ c.num \in Nat /\ c.seen \in Nat
  <2>1. c \in CallType /\ c.node \in DOMAIN nodes
    BY DEF TypeOK, VarsTyped, CallsOK, Show, ReadUnread, BriefMsgContexts, BriefFails, LoadBoxUnread,
           StoreBoxUnread, At
  <2>2. QED
    BY <2>1 DEF TypeOK, VarsTyped, CallType
<1>1. CASE ReadUnread(t)
  <2> DEFINE call == [c EXCEPT !.seen = nodes[c.node].numUnread]
  <2>1. nodes[c.node].numUnread \in Nat
    BY <1>0 DEF NodeType
  <2>2. call \in CallType /\ call.node \in DOMAIN nodes
    BY <1>0, <2>1, LocalsTyped
  <2>3. /\ op' = [op EXCEPT ![t] = call]
        /\ pc' = [pc EXCEPT ![t] = "brief"]
        /\ UNCHANGED <<boxes, nodes>>
    BY <1>1 DEF ReadUnread, Goto
  <2>4. QED
    BY <2>2, <2>3, HeapUnchanged, CallStepTyped
<1>2. CASE BriefMsgContexts(t)
  <2> DEFINE r == [nodes[c.node] EXCEPT !.numUnread = 0]
  <2>1. r \in NodeType /\ r.next = nodes[c.node].next
    BY <1>0, NodeUpdates
  <2>2. /\ nodes' = [nodes EXCEPT ![c.node] = r]
        /\ boxes' = boxes
        /\ op' = op
        /\ op' = [op EXCEPT ![t] = c]
        /\ pc' = [pc EXCEPT ![t] = "subload"]
    BY <1>2 DEF BriefMsgContexts, Goto, TypeOK, VarsTyped
  <2>3. /\ boxes' \in [Users -> BoxType] /\ nodes' \in Seq(NodeType)
        /\ HeapOK' /\ DOMAIN nodes' = DOMAIN nodes
    <3> HIDE DEF r, c
    <3>1. QED
      BY <1>0, <2>1, <2>2, HeapNodeUpdate
  <2>4. QED
    BY <1>0, <2>2, <2>3, CallStepTyped
<1>3. CASE LoadBoxUnread(t)
  <2> DEFINE call == [c EXCEPT !.num = boxes[c.host].numUnread]
  <2>1. boxes[c.host].numUnread \in Nat
    BY <1>0 DEF BoxType
  <2>2. call \in CallType /\ call.node \in DOMAIN nodes
    BY <1>0, <2>1, LocalsTyped
  <2>3. /\ op' = [op EXCEPT ![t] = call]
        /\ pc' = [pc EXCEPT ![t] = "substore"]
        /\ UNCHANGED <<boxes, nodes>>
    BY <1>3 DEF LoadBoxUnread, Goto
  <2>4. QED
    BY <2>2, <2>3, HeapUnchanged, CallStepTyped
<1>4. CASE StoreBoxUnread(t)
  <2> DEFINE value == (c.num + Wrap - c.seen) % Wrap
             b == [boxes[c.host] EXCEPT !.numUnread = value]
  <2>1. value \in Nat
    BY <1>0, WrapAssumption
  <2>2. b \in BoxType /\ b.msgs = boxes[c.host].msgs
    BY <1>0, <2>1 DEF BoxType
  <2>3. /\ boxes' = [boxes EXCEPT ![c.host] = b]
        /\ nodes' = nodes
        /\ op' = [op EXCEPT ![t] = NoCall]
        /\ pc' = [pc EXCEPT ![t] = "idle"]
    BY <1>4 DEF StoreBoxUnread, Goto, Forget
  <2>4. /\ boxes' \in [Users -> BoxType] /\ nodes' \in Seq(NodeType)
        /\ HeapOK' /\ DOMAIN nodes' = DOMAIN nodes
    <3> HIDE DEF b, c
    <3>1. QED
      BY <1>0, <2>2, <2>3, HeapBoxUpdate
  <2>5. QED
    BY <2>3, <2>4, NoCallTyped, CallStepTyped
<1>5. CASE BriefFails(t)
  <2>1. /\ op' = [op EXCEPT ![t] = c]
        /\ pc' = [pc EXCEPT ![t] = "subload"]
        /\ UNCHANGED <<boxes, nodes>>
    BY <1>5 DEF BriefFails, Goto, TypeOK, VarsTyped
  <2>2. QED
    BY <1>0, <2>1, HeapUnchanged, CallStepTyped
<1>6. QED
  BY <1>1, <1>2, <1>3, <1>4, <1>5 DEF Show

\* A step that only moves threads between labels that use no node and have no
\* counters to increment, and at most ends their calls.
LEMMA MoveTyped ==
  ASSUME TypeOK, pc' \in [Threads -> Labels], op' \in [Threads -> CallType],
         \A t \in Threads :
           \/ pc'[t] \notin NodeLabels \cup BoxLabels
           \/ pc'[t] = pc[t] /\ op'[t] = op[t],
         UNCHANGED <<boxes, nodes>>
  PROVE  VarsTyped' /\ HeapOK' /\ CallsOK'
BY HeapUnchanged DEF TypeOK, VarsTyped, CallsOK

\* The steps of the exchange that lead into or out of a call.
LEMMA StartSendTyped ==
  ASSUME TypeOK, NEW s \in Sessions, NEW to \in Names, StartSend(s, to)
  PROVE  TypeOK'
<1> DEFINE m == Message(s, to)
           call == Call(UserOf[s], to, "out", m)
<1>1. s \in Threads /\ UserOf[s] \in Users /\ "out" \in Direction
  BY ThreadsAssumption, NamesAssumption DEF Direction
<1>2. m \in Messages
  BY <1>1 DEF Message, Messages, TypeOK, SlotTyped
<1> HIDE DEF m
<1>3. call \in CallType /\ call.todo # <<>>
  BY <1>1, <1>2, CallTyped
<1> HIDE DEF call
<1>4. /\ op' = [op EXCEPT ![s] = call]
      /\ pc' = [pc EXCEPT ![s] = "lookup"]
      /\ UNCHANGED <<boxes, nodes>>
  BY DEF StartSend, Goto, call, m
<1>5. "lookup" \in Labels /\ "lookup" \notin NodeLabels
  BY DEF Labels, BoxLabels, NodeLabels, ShowLabels
<1>6. VarsTyped' /\ HeapOK' /\ CallsOK'
  BY <1>1, <1>3, <1>4, <1>5, HeapUnchanged, CallStepTyped
<1>7. ready' \in BOOLEAN
  BY DEF StartSend, TypeOK, SlotTyped
<1>8. SlotTyped'
  BY <1>7 DEF StartSend, TypeOK, SlotTyped
<1>9. QED
  BY <1>6, <1>8 DEF TypeOK

\* So does a command that shows messages.
LEMMA StartShowTyped ==
  ASSUME TypeOK, NEW s \in Sessions, NEW contact \in Names, StartShow(s, contact)
  PROVE  TypeOK'
<1> DEFINE host == UserOf[s]
           n == GetMsgNode(host, contact)
           c == Call(host, contact, "out", NoMessage)
           call == [c EXCEPT !.node = n]
           label == IF n = NULL THEN "crashed" ELSE "unread"
<1>1. s \in Threads /\ host \in Users /\ "out" \in Direction
  BY ThreadsAssumption, NamesAssumption DEF Direction
<1>2. n = NULL \/ n \in DOMAIN nodes
  BY <1>1, GetMsgNodeAllocated
<1>3. /\ op' = [op EXCEPT ![s] = call]
      /\ pc' = [pc EXCEPT ![s] = label]
      /\ UNCHANGED <<boxes, nodes>>
  BY DEF StartShow, OpenConversation, Goto
<1>4. c \in CallType
  BY <1>1, CallTyped, NoCallTyped
<1>5. n \in Nat
  BY <1>2 DEF NULL, TypeOK, VarsTyped
<1>6. /\ label \in Labels /\ label \notin BoxLabels
      /\ label \in NodeLabels => n \in DOMAIN nodes
  BY <1>2 DEF Labels, BoxLabels, NodeLabels, ShowLabels
<1> HIDE DEF n, c, label
<1>7. call \in CallType /\ call.node = n
  BY <1>4, <1>5, LocalsTyped
<1> HIDE DEF call
<1>8. VarsTyped' /\ HeapOK' /\ CallsOK'
  BY <1>1, <1>3, <1>6, <1>7, HeapUnchanged, CallStepTyped
<1>9. SlotTyped'
  BY DEF StartShow, slotVars, TypeOK, SlotTyped
<1>10. QED
  BY <1>8, <1>9 DEF TypeOK

\* The exchange thread takes a typed message for a user getUserInfo finds.
LEMMA ReceiveTyped ==
  ASSUME TypeOK, Receive
  PROVE  TypeOK'
<1> DEFINE user == Resolve[payload.to]
           call == Call(user, payload.from, "in", payload)
<1>1. Receiver \in Threads /\ "in" \in Direction
  BY ThreadsAssumption DEF Direction
<1>2. payload \in Messages /\ user \in Users /\ payload.from \in Names
  BY NamesAssumption, UsersAssumption DEF Receive, TypeOK, SlotTyped, Messages
<1> HIDE DEF user
<1>3. call \in CallType /\ call.todo # <<>>
  BY <1>1, <1>2, CallTyped
<1> HIDE DEF call
<1>4. /\ op' = [op EXCEPT ![Receiver] = call]
      /\ pc' = [pc EXCEPT ![Receiver] = "lookup"]
      /\ UNCHANGED <<boxes, nodes>>
  BY DEF Receive, Goto, call, user
<1>5. "lookup" \in Labels /\ "lookup" \notin NodeLabels
  BY DEF Labels, BoxLabels, NodeLabels, ShowLabels
<1>6. VarsTyped' /\ HeapOK' /\ CallsOK'
  BY <1>1, <1>3, <1>4, <1>5, HeapUnchanged, CallStepTyped
<1>7. SlotTyped'
  BY DEF Receive, slotVars, TypeOK, SlotTyped
<1>8. QED
  BY <1>6, <1>7 DEF TypeOK

\* No other step of the exchange touches a box.
LEMMA SlotStepTyped ==
  ASSUME TypeOK,
         \/ \E s \in Sessions : SendRefused(s) \/ Notify(s)
         \/ Exchange /\ ~Receive
         \/ SpuriousWakeup
         \/ PostShutdown
  PROVE  TypeOK'
<1>1. Receiver \in Threads /\ \A s \in Sessions : s \in Threads
  BY ThreadsAssumption
<1>2. /\ pc \in [Threads -> Labels] /\ op \in [Threads -> CallType]
      /\ NoCall \in CallType
  BY NoCallTyped DEF TypeOK, VarsTyped
<1> USE DEF Goto, Forget, At, Acquire, Release
<1>3. ASSUME NEW s \in Sessions, SendRefused(s) \/ Notify(s)
      PROVE  /\ VarsTyped' /\ HeapOK' /\ CallsOK'
             /\ SlotTyped'
  <2>1. /\ pc' \in [Threads -> Labels] /\ op' \in [Threads -> CallType]
        /\ \A t \in Threads :
             \/ pc'[t] \notin NodeLabels \cup BoxLabels
             \/ pc'[t] = pc[t] /\ op'[t] = op[t]
        /\ UNCHANGED <<boxes, nodes>>
    BY <1>1, <1>2, <1>3
       DEF SendRefused, Notify, LockToNotify, LockFails, Publish, SlotBusy, Retry, Signal,
           SignalFails, UnlockAfterNotify, UnlockFails, Labels, BoxLabels, ShowLabels,
           NodeLabels, NotifyLabels, ReceiverLabels
  <2>2. ready' \in BOOLEAN
    BY <1>3 DEF SendRefused, Notify, LockToNotify, LockFails, Publish, SlotBusy, Retry, Signal,
           SignalFails, UnlockAfterNotify, UnlockFails, slotVars, TypeOK, SlotTyped
  <2>3. op[s].msg \in Messages
    BY <1>1, <1>2 DEF CallType
  <2>4. SlotTyped'
    BY <1>1, <1>3, <2>2, <2>3
       DEF SendRefused, Notify, LockToNotify, LockFails, Publish, SlotBusy, Retry, Signal,
           SignalFails, UnlockAfterNotify, UnlockFails, slotVars, TypeOK, SlotTyped
  <2>5. QED
    BY <2>1, <2>4, MoveTyped
<1>4. ASSUME (Exchange /\ ~Receive) \/ SpuriousWakeup \/ PostShutdown
      PROVE  /\ VarsTyped' /\ HeapOK' /\ CallsOK'
             /\ SlotTyped'
  <2>1. /\ pc' \in [Threads -> Labels] /\ op' \in [Threads -> CallType]
        /\ \A t \in Threads :
             \/ pc'[t] \notin NodeLabels \cup BoxLabels
             \/ pc'[t] = pc[t] /\ op'[t] = op[t]
        /\ UNCHANGED <<boxes, nodes>>
    BY <1>1, <1>2, <1>4
       DEF Exchange, SetReady, ReceiverLocks, ReceiverLockFails, Wait, Drop, FreeSlot, Shutdown,
           ReceiverUnlocks, ReceiverUnlockFails, SpuriousWakeup, PostShutdown, Labels, BoxLabels,
           ShowLabels, NodeLabels, NotifyLabels, ReceiverLabels
  <2>2. ready' \in BOOLEAN
    BY <1>4
       DEF Exchange, SetReady, ReceiverLocks, ReceiverLockFails, Wait, Drop, FreeSlot, Shutdown,
           ReceiverUnlocks, ReceiverUnlockFails, SpuriousWakeup, PostShutdown, slotVars, TypeOK,
           SlotTyped
  <2>3. SlotTyped'
    BY <1>1, <1>4, <2>2
       DEF Exchange, SetReady, ReceiverLocks, ReceiverLockFails, Wait, Drop, FreeSlot, Shutdown,
           ReceiverUnlocks, ReceiverUnlockFails, SpuriousWakeup, PostShutdown, slotVars, TypeOK,
           SlotTyped
  <2>4. QED
    BY <2>1, <2>3, MoveTyped
<1>5. QED
  BY <1>3, <1>4 DEF TypeOK

\* Every step of sessions and exchange keeps the types and the heap.
THEOREM TypeStep == TypeOK /\ [Next]_vars => TypeOK'
<1> SUFFICES ASSUME TypeOK, [Next]_vars PROVE TypeOK'
  OBVIOUS
<1>1. ASSUME NEW s \in Sessions, NEW n \in Names, StartSend(s, n) PROVE TypeOK'
  BY <1>1, StartSendTyped
<1>2. ASSUME NEW s \in Sessions, NEW n \in Shown, StartShow(s, n) PROVE TypeOK'
  BY <1>2, ShownAssumption, StartShowTyped
<1>3. ASSUME NEW t \in Threads, Record(t) \/ Show(t), UNCHANGED slotVars PROVE TypeOK'
  <2>1. VarsTyped' /\ HeapOK' /\ CallsOK'
    BY <1>3, RecordTyped, ShowTyped
  <2>2. SlotTyped'
    BY <1>3 DEF slotVars, TypeOK, SlotTyped
  <2>3. QED
    BY <2>1, <2>2 DEF TypeOK
<1>4. CASE Receive
  BY <1>4, ReceiveTyped
<1>5. CASE \/ \E s \in Sessions : SendRefused(s) \/ Notify(s)
           \/ Exchange /\ ~Receive
           \/ SpuriousWakeup
           \/ PostShutdown
  BY <1>5, SlotStepTyped
<1>6. CASE UNCHANGED vars
  BY <1>6 DEF vars, TypeOK, VarsTyped, HeapOK, Allocated, CallsOK, SlotTyped
<1>7. QED
  BY <1>1, <1>2, <1>3, <1>4, <1>5, <1>6 DEF Next

\* Every variable keeps its type, and every pointer leads to an allocated
\* conversation, in every behaviour of the exchange: the lists of the boxes
\* stay well formed although no lock protects them.
THEOREM TypeCorrect == Spec => []TypeOK
<1>1. QED
  BY TypeInit, TypeStep, PTL DEF Spec

-----------------------------------------------------------------------------
(* The slot and its lock.                                                    *)

\* The invariant behind the properties of the slot.  MutualExclusion is what
\* makes the two others inductive: it keeps a second sender away from the slot
\* while the first has yet to signal, and every sender while the exchange
\* thread records.
SlotInv == TypeOK /\ MutualExclusion /\ NoLostWakeup /\ SlotHeld

\* The slot starts free, and nobody is in it.
THEOREM SlotInit == Init => SlotInv
<1> SUFFICES ASSUME Init PROVE SlotInv
  OBVIOUS
<1>1. pc[Receiver] = "start" /\ \A s \in Sessions : pc[s] = "idle"
  BY ThreadsAssumption DEF Init
<1>2. QED
  BY <1>1, TypeInit
     DEF SlotInv, MutualExclusion, Holds, NoLostWakeup, SlotHeld, BoxLabels

\* What a step of a session does to the lock and the slot when it leaves the
\* exchange thread where it is, or wakes it.
LEMMA NotifyKeeps ==
  ASSUME SlotInv, NEW s \in Sessions, Notify(s)
  PROVE  MutualExclusion' /\ NoLostWakeup' /\ SlotHeld'
<1>1. /\ s \in Threads /\ s # Receiver /\ Receiver \in Threads /\ NoOwner # s
      /\ pc \in [Threads -> Labels]
      /\ \A u \in Sessions : u \in Threads
  BY ThreadsAssumption DEF SlotInv, TypeOK, VarsTyped
<1>2. /\ \A t \in Threads : Holds(t) => lock = t
      /\ NoOwner \notin Threads
  BY ThreadsAssumption DEF SlotInv, MutualExclusion
<1> USE DEF Goto, At, Acquire, Release, Forget, slotVars
<1>3. /\ op'[Receiver] = op[Receiver]
      /\ \/ pc'[Receiver] = pc[Receiver]
         \/ pc'[Receiver] = "woken"
  BY <1>1 DEF Notify, LockToNotify, LockFails, Publish, SlotBusy, Retry, Signal, SignalFails,
              UnlockAfterNotify, UnlockFails, SlotInv, TypeOK, VarsTyped
<1>4. MutualExclusion'
  BY <1>1, <1>2
     DEF Notify, LockToNotify, LockFails, Publish, SlotBusy, Retry, Signal, SignalFails,
         UnlockAfterNotify, UnlockFails, MutualExclusion, Holds, BoxLabels
<1>5. NoLostWakeup'
  BY <1>1, <1>2
     DEF Notify, LockToNotify, LockFails, Publish, SlotBusy, Retry, Signal, SignalFails,
         UnlockAfterNotify, UnlockFails, SlotInv, NoLostWakeup, Holds
<1>6. SlotHeld'
  BY <1>1, <1>2, <1>3
     DEF Notify, LockToNotify, LockFails, Publish, SlotBusy, Retry, Signal, SignalFails,
         UnlockAfterNotify, UnlockFails, SlotInv, SlotHeld, Holds, BoxLabels
<1>7. QED
  BY <1>4, <1>5, <1>6

\* The steps of the exchange thread, and a shutdown posted by whoever asks.
LEMMA ExchangeKeeps ==
  ASSUME SlotInv, Exchange \/ SpuriousWakeup \/ PostShutdown
  PROVE  MutualExclusion' /\ NoLostWakeup' /\ SlotHeld'
<1>1. /\ Receiver \in Threads /\ Receiver \notin Sessions
      /\ NoOwner \notin Threads
      /\ pc \in [Threads -> Labels]
      /\ op \in [Threads -> CallType]
      /\ \A u \in Sessions : u \in Threads
  BY ThreadsAssumption DEF SlotInv, TypeOK, VarsTyped
<1>2. \A t \in Threads : Holds(t) => lock = t
  BY DEF SlotInv, MutualExclusion
<1> USE DEF Goto, At, Acquire, Release, Forget, slotVars
<1>3. \A s \in Sessions : pc'[s] = pc[s]
  BY <1>1 DEF Exchange, SetReady, ReceiverLocks, ReceiverLockFails, Wait, Receive, Drop, FreeSlot,
              Shutdown, ReceiverUnlocks, ReceiverUnlockFails, SpuriousWakeup, PostShutdown
<1>4. MutualExclusion'
  BY <1>1, <1>2, <1>3
     DEF Exchange, SetReady, ReceiverLocks, ReceiverLockFails, Wait, Receive, Drop, FreeSlot,
         Shutdown, ReceiverUnlocks, ReceiverUnlockFails, SpuriousWakeup, PostShutdown,
         MutualExclusion, Holds, BoxLabels
<1>5. NoLostWakeup'
  BY <1>1, <1>2, <1>3
     DEF Exchange, SetReady, ReceiverLocks, ReceiverLockFails, Wait, Receive, Drop, FreeSlot,
         Shutdown, ReceiverUnlocks, ReceiverUnlockFails, SpuriousWakeup, PostShutdown,
         NoLostWakeup
<1>6. SlotHeld'
  <2>1. CASE Receive
    <3>1. /\ payload \in Messages /\ payload.from \in Names
          /\ Resolve[payload.to] \in Users /\ "in" \in Direction
      BY <2>1, NamesAssumption, UsersAssumption
         DEF Receive, SlotInv, TypeOK, SlotTyped, Messages, Direction
    <3>2. op'[Receiver].msg = payload
      BY <1>1, <2>1, <3>1, CallTyped DEF Receive
    <3>3. QED
      BY <2>1, <3>2 DEF Receive, SlotHeld
  <2>2. CASE (Exchange /\ ~Receive) \/ SpuriousWakeup \/ PostShutdown
    BY <1>1, <1>2, <2>2
       DEF Exchange, SetReady, ReceiverLocks, ReceiverLockFails, Wait, Drop, FreeSlot,
           Shutdown, ReceiverUnlocks, ReceiverUnlockFails, SpuriousWakeup, PostShutdown,
           SlotInv, SlotHeld, Holds, BoxLabels
  <2>3. QED
    BY <2>1, <2>2
<1>7. QED
  BY <1>4, <1>5, <1>6

\* A step inside sendReceiveMsg or "msg -f" leaves the lock and the slot alone;
\* the exchange thread stays in its critical section, with the same message.
LEMMA BoxStepKeeps ==
  ASSUME SlotInv, NEW t \in Threads, Record(t) \/ Show(t), UNCHANGED slotVars
  PROVE  MutualExclusion' /\ NoLostWakeup' /\ SlotHeld'
<1>1. /\ Receiver \in Threads /\ Receiver \notin Sessions
      /\ pc \in [Threads -> Labels]
      /\ op \in [Threads -> CallType]
      /\ \A u \in Sessions : u \in Threads
  BY ThreadsAssumption DEF SlotInv, TypeOK, VarsTyped
<1>2. /\ \A u \in Threads : Holds(u) => lock = u
      /\ lock' = lock /\ event' = event /\ payload' = payload
  BY DEF SlotInv, MutualExclusion, slotVars
<1>3. /\ \A u \in Threads : u # t => pc'[u] = pc[u] /\ op'[u] = op[u]
      /\ pc[t] \in BoxLabels \cup ShowLabels
      /\ pc'[t] \notin {"slot", "signal", "unlock", "check", "exit", "blocked"}
      /\ pc[t] \in ShowLabels => pc'[t] \notin BoxLabels \cup {"reset"}
  BY <1>1 DEF Record, AllocFails, FindNode, AllocNode, InsertNode, LoadContexts, StoreContexts,
              LoadCounter, StoreCounter, Show, ReadUnread, BriefMsgContexts, BriefFails, LoadBoxUnread,
              StoreBoxUnread, AfterRecord, AfterFailure, Goto, At, Forget, BoxLabels, ShowLabels
<1>4. pc'[t] \in BoxLabels => op'[t].msg = op[t].msg
  <2>0. op[t] \in CallType
    BY <1>1
  <2>1. CASE AllocFails(t) \/ StoreCounter(t) \/ Show(t)
    <3>1. CASE AllocFails(t)
      BY <1>1, <3>1 DEF AllocFails, AfterFailure, Goto, BoxLabels
    <3>2. CASE StoreCounter(t)
      BY <1>1, <2>0, <3>2 DEF StoreCounter, CallType
    <3>3. CASE Show(t)
      BY <1>3, <3>3 DEF Show, ReadUnread, BriefMsgContexts, BriefFails, LoadBoxUnread,
         StoreBoxUnread, At, ShowLabels
    <3>4. QED
      BY <2>1, <3>1, <3>2, <3>3
  <2>2. CASE FindNode(t) \/ AllocNode(t) \/ InsertNode(t)
    BY <1>1, <2>0, <2>2 DEF FindNode, AllocNode, InsertNode, CallType
  <2>3. CASE LoadContexts(t) \/ StoreContexts(t) \/ LoadCounter(t)
    BY <1>1, <2>0, <2>3 DEF LoadContexts, StoreContexts, LoadCounter, CallType
  <2>4. QED
    BY <2>1, <2>2, <2>3 DEF Record
<1>5. MutualExclusion'
  BY <1>1, <1>2, <1>3 DEF MutualExclusion, Holds, BoxLabels, ShowLabels
<1>6. NoLostWakeup'
  BY <1>1, <1>2, <1>3 DEF SlotInv, NoLostWakeup, Holds, BoxLabels, ShowLabels
<1>7. SlotHeld'
  BY <1>1, <1>2, <1>3, <1>4 DEF SlotInv, SlotHeld, BoxLabels, ShowLabels
<1>8. QED
  BY <1>5, <1>6, <1>7

\* Every step of sessions and exchange keeps the slot: see SlotInvariant.
THEOREM SlotStep == SlotInv /\ [Next]_vars => SlotInv'
<1> SUFFICES ASSUME SlotInv, [Next]_vars
             PROVE  MutualExclusion' /\ NoLostWakeup' /\ SlotHeld'
  BY TypeStep DEF SlotInv
<1>1. /\ Receiver \in Threads /\ Receiver \notin Sessions
      /\ pc \in [Threads -> Labels]
      /\ op \in [Threads -> CallType]
      /\ \A s \in Sessions : s \in Threads
  BY ThreadsAssumption DEF SlotInv, TypeOK, VarsTyped
\* A session that starts or refuses a command holds nothing yet.
<1>2. ASSUME NEW s \in Sessions,
             \/ \E n \in Names : StartSend(s, n)
             \/ \E n \in Shown : StartShow(s, n)
             \/ SendRefused(s)
      PROVE  MutualExclusion' /\ NoLostWakeup' /\ SlotHeld'
  <2>1. /\ \A t \in Threads : t # s => pc'[t] = pc[t] /\ op'[t] = op[t]
        /\ pc[s] = "idle" /\ pc'[s] \in {"idle", "lookup", "unread", "crashed"}
        /\ lock' = lock /\ event' = event /\ payload' = payload
    BY <1>1, <1>2 DEF StartSend, StartShow, OpenConversation, SendRefused, slotVars, Goto, At
  <2>2. QED
    BY <1>1, <2>1
       DEF SlotInv, MutualExclusion, Holds, NoLostWakeup, SlotHeld, BoxLabels
<1>3. ASSUME NEW s \in Sessions, Notify(s)
      PROVE  MutualExclusion' /\ NoLostWakeup' /\ SlotHeld'
  BY <1>3, NotifyKeeps
<1>4. ASSUME NEW t \in Threads, Record(t) \/ Show(t), UNCHANGED slotVars
      PROVE  MutualExclusion' /\ NoLostWakeup' /\ SlotHeld'
  BY <1>4, BoxStepKeeps
<1>5. CASE Exchange \/ SpuriousWakeup \/ PostShutdown
  BY <1>5, ExchangeKeeps
<1>6. CASE UNCHANGED vars
  BY <1>6 DEF vars, SlotInv, MutualExclusion, Holds, NoLostWakeup, SlotHeld
<1>7. QED
  BY <1>2, <1>3, <1>4, <1>5, <1>6 DEF Next

\* One thread at most holds the mutex of g_shared_event, a message in the slot is never
\* slept over by the exchange thread, and it stays there until it is recorded.
THEOREM SlotInvariant == Spec => []SlotInv
<1>1. QED
  BY SlotInit, SlotStep, PTL DEF Spec

\* No two threads are between lock and unlock of lock_exchange at once, for any
\* number of sessions and whatever fails on the way.
THEOREM ExchangeExcludes == Spec => []MutualExclusion
<1>1. SlotInv => MutualExclusion
  BY DEF SlotInv
<1>2. QED
  BY <1>1, SlotInvariant, PTL

\* The exchange thread never sleeps on a filled slot whose signal is past,
\* unless signalling failed.
THEOREM ExchangeWakes == Spec => []NoLostWakeup
<1>1. SlotInv => NoLostWakeup
  BY DEF SlotInv
<1>2. QED
  BY <1>1, SlotInvariant, PTL

\* The message being recorded stays in the slot until FreeSlot.
THEOREM ExchangeHoldsSlot == Spec => []SlotHeld
<1>1. SlotInv => SlotHeld
  BY DEF SlotInv
<1>2. QED
  BY <1>1, SlotInvariant, PTL

-----------------------------------------------------------------------------
(* The exchange implements the one-slot channel.                             *)

\* The exchange starts as an empty channel.
THEOREM ChannelInit == Init => Channel!Init
BY DEF Init, Channel!Init

\* A step that leaves the slot and the history alone is a stutter.
LEMMA ChannelStutter ==
  ASSUME UNCHANGED <<event, payload, handled>>
  PROVE  UNCHANGED Channel!chanVars
BY DEF Channel!chanVars

\* notifyMsg fills the slot, msgExchange empties it, and every other step is a stutter.
THEOREM ChannelStep == SlotInv /\ [Next]_vars => [Channel!Next]_Channel!chanVars
<1> SUFFICES ASSUME SlotInv, [Next]_vars
             PROVE  [Channel!Next]_Channel!chanVars
  OBVIOUS
<1>0. /\ \A s \in Sessions : s \in Threads
      /\ payload \in Messages
      /\ op \in [Threads -> CallType]
  BY ThreadsAssumption DEF SlotInv, TypeOK, VarsTyped, SlotTyped
<1>1. ASSUME NEW s \in Sessions, Publish(s) PROVE Channel!Put
  <2>1. op[s].msg \in Messages
    BY <1>0 DEF CallType
  <2>2. event = "undef" /\ event' = "msg_sent" /\ payload' = op[s].msg /\ handled' = handled
    BY <1>1 DEF Publish
  <2>3. QED
    BY <2>1, <2>2 DEF Channel!Put
<1>2. CASE FreeSlot
  <2>1. event = "msg_sent"
    BY <1>2 DEF FreeSlot, At, SlotInv, SlotHeld
  <2>2. event' = "undef" /\ payload' = payload /\ handled' = handled \o <<payload>>
    BY <1>0, <1>2 DEF FreeSlot, SlotInv, TypeOK, SlotTyped
  <2>3. Channel!Take
    BY <2>1, <2>2 DEF Channel!Take
  <2>4. QED
    BY <2>3 DEF Channel!Next
<1>3. CASE PostShutdown
  <2>1. /\ event = "undef" /\ event' = "shutdown"
        /\ payload' = payload /\ handled' = handled
    BY <1>3 DEF PostShutdown
  <2>2. QED
    BY <2>1 DEF Channel!chanVars
<1>4. CASE \/ \E s \in Sessions, n \in Names : StartSend(s, n)
           \/ \E s \in Sessions, n \in Shown : StartShow(s, n)
           \/ \E s \in Sessions : SendRefused(s) \/ (Notify(s) /\ ~Publish(s))
           \/ \E t \in Threads : (Record(t) \/ Show(t)) /\ UNCHANGED slotVars
           \/ Exchange /\ ~FreeSlot
           \/ SpuriousWakeup
           \/ UNCHANGED vars
  <2>1. UNCHANGED <<event, payload, handled>>
    BY <1>4
       DEF StartSend, StartShow, SendRefused, Notify, LockToNotify, LockFails, SlotBusy, Retry,
           Signal, SignalFails, UnlockAfterNotify, UnlockFails, Exchange, SetReady, ReceiverLocks,
           ReceiverLockFails, Wait, Receive, Drop, Shutdown, ReceiverUnlocks,
           ReceiverUnlockFails, SpuriousWakeup, slotVars, vars
  <2>2. QED
    BY <2>1, ChannelStutter
<1>5. QED
  BY <1>1, <1>2, <1>3, <1>4 DEF Next, Notify, Exchange, Channel!Next

\* Every message published is taken from the slot exactly once and in order:
\* the exchange implements the one-slot channel.
THEOREM ExchangeIsChannel == Spec => ImplementsChannel
<1>1. QED
  BY ChannelInit, ChannelStep, SlotInvariant, PTL
     DEF Spec, ImplementsChannel, Channel!Spec

-----------------------------------------------------------------------------
(* Sums of figures.                                                          *)

\* The first N partial sums of f.
IsPartialSums(w, f, N) ==
  /\ w \in [0 .. N -> Nat]
  /\ w[0] = 0
  /\ \A n \in 1 .. N : w[n] = w[n - 1] + f[n]

\* AddUp is the last of the partial sums, which exist.
LEMMA AddUpIsLast ==
  ASSUME NEW f \in Seq(Nat)
  PROVE  \E w : IsPartialSums(w, f, Len(f)) /\ AddUp(f) = w[Len(f)]
<1> DEFINE N == Len(f)
           next(g) == [i \in 0 .. N |-> IF i = 0 THEN 0 ELSE g[i - 1] + f[i]]
           sum == CHOOSE g : g = next(g)
           F == [n \in Nat |-> [x \in Nat |-> x + (IF n \in 1 .. N THEN f[n] ELSE 0)]]
<1>0. N \in Nat /\ \A n \in 1 .. N : f[n] \in Nat
  OBVIOUS
<1>1. PICK w \in [0 .. N -> Nat] : w[0] = 0 /\ \A n \in 1 .. N : w[n] = F[n][w[n - 1]]
  <2>1. F \in [Nat -> [Nat -> Nat]]
    BY <1>0
  <2> HIDE DEF F
  <2>2. QED
    BY ZenonT(30), <1>0, <2>1, RecursionExists
<1>2. IsPartialSums(w, f, N)
  <2>1. ASSUME NEW n \in 1 .. N PROVE w[n] = w[n - 1] + f[n]
    <3>1. n - 1 \in 0 .. N /\ w[n - 1] \in Nat /\ n \in Nat
      BY SMTT(30), <1>0
    <3>2. QED
      BY <1>1, <3>1
  <2>2. QED
    BY <1>1, <2>1 DEF IsPartialSums
<1>3. w = next(w)
  BY <1>1, <1>2 DEF IsPartialSums
<1>4. sum = next(sum)
  <2> HIDE DEF next
  <2>1. QED
    BY <1>3
<1> DEFINE G == {n \in Nat : n \in 0 .. N => sum[n] = w[n]}
<1>5. Nat \subseteq G
  <2>1. 0 \in G
    <3>1. sum[0] = 0
      BY <1>0, <1>4
    <3>2. QED
      BY <1>1, <3>1
  <2>2. ASSUME NEW n \in Nat, n \in G, n + 1 \in 0 .. N PROVE sum[n + 1] = w[n + 1]
    <3>1. sum[n + 1] = sum[n] + f[n + 1]
      <4>1. n + 1 # 0 /\ (n + 1) - 1 = n
        OBVIOUS
      <4> HIDE DEF sum
      <4>2. QED
        BY <1>4, <2>2, <4>1
    <3>2. w[n + 1] = w[n] + f[n + 1]
      BY <1>2, <2>2 DEF IsPartialSums
    <3>3. QED
      BY <1>0, <2>2, <3>1, <3>2
  <2> HIDE DEF sum
  <2>3. \A n \in Nat : n \in G => n + 1 \in G
    BY <2>2
  <2> HIDE DEF G
  <2>4. QED
    BY <2>1, <2>3, NumberInduction
<1>6. AddUp(f) = sum[N]
  BY DEF AddUp
<1>7. sum[N] = w[N]
  BY <1>0, <1>5
<1>8. QED
  BY <1>2, <1>6, <1>7

\* It is a number, and no figure exceeds it.
LEMMA AddUpBounds ==
  ASSUME NEW f \in Seq(Nat)
  PROVE  AddUp(f) \in Nat /\ \A i \in 1 .. Len(f) : f[i] <= AddUp(f)
<1> DEFINE N == Len(f)
<1>0. N \in Nat /\ \A n \in 1 .. N : f[n] \in Nat
  OBVIOUS
<1>1. PICK w : IsPartialSums(w, f, N) /\ AddUp(f) = w[N]
  BY AddUpIsLast
<1> DEFINE G == {n \in Nat : n <= N => \A i \in 1 .. n : f[i] <= w[n]}
<1>2. 0 \in G
  OBVIOUS
<1>3. ASSUME NEW n \in Nat, n \in G, n + 1 <= N, NEW i \in 1 .. (n + 1)
      PROVE  f[i] <= w[n + 1]
  <2>0. n \in 0 .. N /\ n + 1 \in 1 .. N /\ (n + 1) - 1 = n /\ i \in 1 .. N
    BY <1>0, <1>3
  <2>1. /\ w[n + 1] = w[n] + f[n + 1] /\ w[n] \in Nat /\ f[n + 1] \in Nat /\ f[i] \in Nat
    BY <1>0, <1>1, <2>0 DEF IsPartialSums
  <2>2. CASE i = n + 1
    BY <2>1, <2>2
  <2>3. CASE i \in 1 .. n
    BY <1>0, <1>3, <2>1, <2>3
  <2>4. QED
    BY <2>2, <2>3
<1>4. Nat \subseteq G
  <2>1. ASSUME NEW n \in Nat, n \in G PROVE n + 1 \in G
    <3>1. n + 1 <= N => \A i \in 1 .. (n + 1) : f[i] <= w[n + 1]
      BY <1>3, <2>1
    <3>2. QED
      BY <3>1
  <2> HIDE DEF G
  <2>2. QED
    BY <1>2, <2>1, NumberInduction
<1>5. w[N] \in Nat
  BY <1>0, <1>1 DEF IsPartialSums
<1>6. QED
  BY <1>0, <1>1, <1>4, <1>5

\* f and g are N figures each that differ at place p at most.
DifferAt(p, f, g, N) ==
  /\ N \in Nat /\ p \in 1 .. N
  /\ \A i \in 1 .. N : f[i] \in Nat /\ g[i] \in Nat /\ (i # p => g[i] = f[i])

\* Partial sums of figures that differ in one place differ by as much from there on.
LEMMA PartialSumsChange ==
  ASSUME NEW N, NEW f, NEW g, NEW p, NEW w, NEW v,
         DifferAt(p, f, g, N), IsPartialSums(w, f, N), IsPartialSums(v, g, N)
  PROVE  v[N] + f[p] = w[N] + g[p]
<1>0. N \in Nat /\ p \in 1 .. N
  BY DEF DifferAt
<1> DEFINE old(n) == IF p <= n THEN f[p] ELSE 0
           new(n) == IF p <= n THEN g[p] ELSE 0
           G == {n \in Nat : n <= N => v[n] + old(n) = w[n] + new(n)}
<1>1. 0 \in G
  BY <1>0 DEF IsPartialSums
<1>2. ASSUME NEW n \in Nat, n \in G, n + 1 <= N
      PROVE  v[n + 1] + old(n + 1) = w[n + 1] + new(n + 1)
  <2>1. /\ n + 1 \in 1 .. N /\ n \in 0 .. N /\ (n + 1) - 1 = n
        /\ f[p] \in Nat /\ g[p] \in Nat /\ f[n + 1] \in Nat /\ g[n + 1] \in Nat
        /\ p # n + 1 => g[n + 1] = f[n + 1]
    BY <1>0, <1>2 DEF DifferAt
  <2>2. /\ w[n + 1] = w[n] + f[n + 1] /\ w[n] \in Nat
        /\ v[n + 1] = v[n] + g[n + 1] /\ v[n] \in Nat
    BY <2>1 DEF IsPartialSums
  <2>3. v[n] + old(n) = w[n] + new(n)
    BY <1>0, <1>2
  <2>4. CASE p = n + 1
    BY <2>1, <2>2, <2>3, <2>4
  <2>5. CASE p # n + 1
    <3>1. g[n + 1] = f[n + 1] /\ p \in Nat
      BY <1>0, <2>1, <2>5
    <3>2. old(n + 1) = old(n) /\ new(n + 1) = new(n)
          /\ old(n) \in Nat /\ new(n) \in Nat
      BY <2>1, <2>5, <3>1
    <3> HIDE DEF old, new
    <3>3. (v[n] + f[n + 1]) + old(n) = (w[n] + f[n + 1]) + new(n)
      BY <2>1, <2>2, <2>3, <3>2
    <3>4. v[n + 1] + old(n) = w[n + 1] + new(n)
      BY <2>2, <3>1, <3>3
    <3>5. QED
      BY <3>2, <3>4
  <2>6. QED
    BY <2>4, <2>5
<1>3. Nat \subseteq G
  <2>1. \A n \in Nat : n \in G => n + 1 \in G
    BY <1>2
  <2> HIDE DEF G
  <2>2. QED
    BY <1>1, <2>1, NumberInduction
<1>4. N \in G
  BY <1>0, <1>3
<1>5. QED
  BY <1>0, <1>4

\* A figure that changes, changes it by as much.
LEMMA AddUpChange ==
  ASSUME NEW f \in Seq(Nat), NEW g \in Seq(Nat), NEW p, Len(g) = Len(f),
         DifferAt(p, f, g, Len(f))
  PROVE  AddUp(g) + f[p] = AddUp(f) + g[p]
<1>1. PICK w : IsPartialSums(w, f, Len(f)) /\ AddUp(f) = w[Len(f)]
  BY AddUpIsLast
<1>2. PICK v : IsPartialSums(v, g, Len(f)) /\ AddUp(g) = v[Len(f)]
  BY AddUpIsLast
<1>3. v[Len(f)] + f[p] = w[Len(f)] + g[p]
  BY <1>1, <1>2, PartialSumsChange
<1>4. QED
  BY <1>1, <1>2, <1>3

\* A figure put in front is added.
LEMMA AddUpPrepend ==
  ASSUME NEW f \in Seq(Nat), NEW g \in Seq(Nat), Len(g) = Len(f) + 1,
         \A i \in 1 .. Len(f) : g[i + 1] = f[i]
  PROVE  AddUp(g) = AddUp(f) + g[1]
<1> DEFINE N == Len(f)
<1>0. N \in Nat /\ g[1] \in Nat /\ \A n \in 1 .. N : f[n] \in Nat
  OBVIOUS
<1>1. PICK w : IsPartialSums(w, f, N) /\ AddUp(f) = w[N]
  BY AddUpIsLast
<1>2. PICK v : IsPartialSums(v, g, N + 1) /\ AddUp(g) = v[N + 1]
  BY AddUpIsLast
<1> DEFINE G == {n \in Nat : n <= N => v[n + 1] = w[n] + g[1]}
<1>3. 0 \in G
  <2>1. v[1] = v[0] + g[1] /\ v[0] = 0 /\ w[0] = 0
    BY <1>0, <1>1, <1>2 DEF IsPartialSums
  <2>2. QED
    BY <1>0, <2>1
<1>4. ASSUME NEW n \in Nat, n \in G, n + 1 <= N
      PROVE  v[(n + 1) + 1] = w[n + 1] + g[1]
  <2>1. /\ n + 1 \in 1 .. N /\ (n + 1) - 1 = n /\ (n + 1) + 1 \in 1 .. (N + 1)
        /\ ((n + 1) + 1) - 1 = n + 1 /\ n \in 0 .. N
    BY <1>0, <1>4
  <2>2. /\ w[n + 1] = w[n] + f[n + 1] /\ w[n] \in Nat /\ f[n + 1] \in Nat
    BY <1>0, <1>1, <2>1 DEF IsPartialSums
  <2>3. v[(n + 1) + 1] = v[n + 1] + g[(n + 1) + 1]
    BY <1>2, <2>1 DEF IsPartialSums
  <2>4. g[(n + 1) + 1] = f[n + 1] /\ v[n + 1] = w[n] + g[1]
    BY <1>4, <2>1
  <2>5. QED
    BY <1>0, <2>2, <2>3, <2>4
<1>5. Nat \subseteq G
  <2>1. \A n \in Nat : n \in G => n + 1 \in G
    BY <1>4
  <2> HIDE DEF G
  <2>2. QED
    BY <1>3, <2>1, NumberInduction
<1>6. QED
  BY <1>0, <1>1, <1>2, <1>5

Fields == {"numMsg", "numUnread"}

\* Every conversation is in one box, once.
Owned ==
  \A u, v \in Users : \A i \in DOMAIN boxes[u].msgs, j \in DOMAIN boxes[v].msgs :
    boxes[u].msgs[i] = boxes[v].msgs[j] => u = v /\ i = j

\* The figures of a box are numbers, one for each conversation.
LEMMA FiguresTyped ==
  ASSUME TypeOK, NEW u \in Users, NEW field \in Fields
  PROVE  /\ Figures(u, field) \in Seq(Nat)
         /\ Len(Figures(u, field)) = Len(boxes[u].msgs)
         /\ \A i \in DOMAIN boxes[u].msgs :
              Figures(u, field)[i] = nodes[boxes[u].msgs[i]][field]
<1> DEFINE list == boxes[u].msgs
<1>1. /\ list \in Seq(Nat) /\ nodes \in Seq(NodeType)
      /\ \A i \in DOMAIN list : list[i] \in DOMAIN nodes
  BY DEF TypeOK, VarsTyped, BoxType, HeapOK, Allocated
<1>2. \A i \in 1 .. Len(list) : nodes[list[i]] \in NodeType
  BY <1>1
<1>3. \A i \in 1 .. Len(list) : nodes[list[i]][field] \in Nat
  BY <1>2 DEF NodeType, Fields
<1>4. Len(list) \in Nat /\ DOMAIN list = 1 .. Len(list)
  BY <1>1
<1> HIDE DEF list
<1>5. Figures(u, field) = [i \in 1 .. Len(list) |-> nodes[list[i]][field]]
  BY <1>4 DEF Figures, list
<1>6. QED
  BY <1>3, <1>4, <1>5 DEF list

\* A total is a number that no figure of the box exceeds.
LEMMA TotalTyped ==
  ASSUME TypeOK, NEW u \in Users, NEW field \in Fields
  PROVE  /\ Total(u, field) \in Nat
         /\ \A i \in DOMAIN boxes[u].msgs : nodes[boxes[u].msgs[i]][field] <= Total(u, field)
<1>1. /\ boxes[u].msgs \in Seq(Nat)
      /\ DOMAIN boxes[u].msgs = 1 .. Len(boxes[u].msgs)
  BY DEF TypeOK, VarsTyped, BoxType
<1>2. QED
  BY <1>1, FiguresTyped, AddUpBounds DEF Total

\* A total stays when its figures do.
LEMMA TotalStays ==
  ASSUME NEW u, NEW field, boxes'[u].msgs = boxes[u].msgs,
         \A i \in DOMAIN boxes[u].msgs :
           nodes'[boxes[u].msgs[i]][field] = nodes[boxes[u].msgs[i]][field]
  PROVE  Total(u, field)' = Total(u, field)
<1>1. Figures(u, field)' = Figures(u, field)
  BY DEF Figures
<1>2. QED
  BY <1>1 DEF Total, AddUp

\* It changes with a conversation of the box.
LEMMA TotalChanges ==
  ASSUME TypeOK, TypeOK', NEW u \in Users, NEW field \in Fields,
         NEW p \in DOMAIN boxes[u].msgs,
         boxes'[u].msgs = boxes[u].msgs,
         \A i \in DOMAIN boxes[u].msgs : i # p =>
           nodes'[boxes[u].msgs[i]][field] = nodes[boxes[u].msgs[i]][field]
  PROVE  Total(u, field)' + nodes[boxes[u].msgs[p]][field]
           = Total(u, field) + nodes'[boxes[u].msgs[p]][field]
<1> DEFINE f == Figures(u, field)
           g == [i \in DOMAIN boxes'[u].msgs |-> nodes'[boxes'[u].msgs[i]][field]]
           list == boxes[u].msgs
<1>1. /\ f \in Seq(Nat) /\ Len(f) = Len(list)
      /\ \A i \in DOMAIN list : f[i] = nodes[list[i]][field]
  BY FiguresTyped
<1>2. /\ g \in Seq(Nat) /\ Len(g) = Len(list)
      /\ \A i \in DOMAIN list : g[i] = nodes'[list[i]][field]
  <2>1. /\ list \in Seq(Nat) /\ nodes' \in Seq(NodeType)
        /\ \A i \in DOMAIN list : list[i] \in DOMAIN nodes'
    BY DEF TypeOK, VarsTyped, BoxType, HeapOK, Allocated
  <2>2. \A i \in 1 .. Len(list) : nodes'[list[i]] \in NodeType
    BY <2>1
  <2>3. \A i \in 1 .. Len(list) : nodes'[list[i]][field] \in Nat
    BY <2>2 DEF NodeType, Fields
  <2>4. Len(list) \in Nat /\ DOMAIN list = 1 .. Len(list)
    BY <2>1
  <2> HIDE DEF list
  <2>5. g = [i \in 1 .. Len(list) |-> nodes'[list[i]][field]]
    BY <2>4 DEF list
  <2> HIDE DEF g
  <2>6. QED
    BY <2>3, <2>4, <2>5
<1>3. Total(u, field) = AddUp(f) /\ Total(u, field)' = AddUp(g)
  BY DEF Total, Figures, AddUp
<1>4. list \in Seq(Nat) /\ DOMAIN list = 1 .. Len(list) /\ Len(list) \in Nat
  BY DEF TypeOK, VarsTyped, BoxType
<1> HIDE DEF f, g
<1>5. DifferAt(p, f, g, Len(f))
  <2>1. \A i \in 1 .. Len(f) : f[i] \in Nat /\ g[i] \in Nat
    BY SMTT(30), <1>1, <1>2
  <2>2. \A i \in 1 .. Len(f) : i # p => g[i] = f[i]
    BY <1>1, <1>2, <1>4
  <2>3. QED
    BY <1>1, <1>4, <2>1, <2>2 DEF DifferAt
<1>6. AddUp(g) + f[p] = AddUp(f) + g[p]
  BY <1>1, <1>2, <1>5, AddUpChange
<1>7. QED
  BY <1>1, <1>2, <1>3, <1>6

\* And with one put in front.
LEMMA TotalGrows ==
  ASSUME TypeOK, TypeOK', NEW u \in Users, NEW field \in Fields, nodes' = nodes, NEW n,
         boxes'[u].msgs = <<n>> \o boxes[u].msgs
  PROVE  Total(u, field)' = Total(u, field) + nodes[n][field]
<1> DEFINE f == Figures(u, field)
           new == boxes'[u].msgs
           g == [i \in DOMAIN new |-> nodes'[new[i]][field]]
           list == boxes[u].msgs
<1>1. /\ f \in Seq(Nat) /\ Len(f) = Len(list)
      /\ \A i \in DOMAIN list : f[i] = nodes[list[i]][field]
  BY FiguresTyped
<1>2. /\ list \in Seq(Nat) /\ DOMAIN list = 1 .. Len(list) /\ Len(list) \in Nat
      /\ new \in Seq(Nat) /\ new = <<n>> \o list
  BY DEF TypeOK, VarsTyped, BoxType
<1>3. /\ Len(new) = Len(list) + 1 /\ new[1] = n
      /\ \A i \in 1 .. Len(list) : new[i + 1] = list[i]
      /\ n \in Nat
  <2> HIDE DEF list, new
  <2>1. new[1] = n
    BY <1>2
  <2>2. Len(<<n>> \o list) = Len(list) + 1
    BY <1>2
  <2>3. n \in Nat
    BY <1>2, <2>1, <2>2
  <2>4. QED
    BY <1>2, <2>3
<1>4. /\ g \in Seq(Nat) /\ Len(g) = Len(new)
      /\ \A i \in 1 .. Len(new) : g[i] = nodes[new[i]][field]
  <2>1. /\ nodes \in Seq(NodeType)
        /\ \A i \in DOMAIN new : new[i] \in DOMAIN nodes
    BY DEF TypeOK, VarsTyped, BoxType, HeapOK, Allocated
  <2> HIDE DEF list, new, g
  <2>0. Len(new) \in Nat /\ DOMAIN new = 1 .. Len(new)
    BY <1>2
  <2>2. \A i \in 1 .. Len(new) : nodes[new[i]] \in NodeType
    BY <2>0, <2>1
  <2>3. \A i \in 1 .. Len(new) : nodes[new[i]][field] \in Nat
    BY <2>2 DEF NodeType, Fields
  <2>5. g = [i \in 1 .. Len(new) |-> nodes[new[i]][field]]
    BY <2>0 DEF g
  <2>6. QED
    BY <2>0, <2>3, <2>5
<1>5. Total(u, field) = AddUp(f) /\ Total(u, field)' = AddUp(g)
  BY DEF Total, Figures, AddUp
<1> HIDE DEF f, g, list, new
<1>6. Len(g) = Len(f) + 1 /\ g[1] = nodes[n][field]
      /\ \A i \in 1 .. Len(f) : g[i + 1] = f[i]
  <2>1. Len(g) = Len(f) + 1 /\ g[1] = nodes[n][field]
    BY <1>1, <1>2, <1>3, <1>4
  <2>2. ASSUME NEW i \in 1 .. Len(f) PROVE g[i + 1] = f[i]
    <3>1. i \in 1 .. Len(list) /\ i + 1 \in 1 .. Len(new)
      BY <1>1, <1>2, <1>3
    <3>2. QED
      BY <1>1, <1>2, <1>3, <1>4, <3>1
  <2>3. QED
    BY <2>1, <2>2
<1>7. QED
  BY <1>1, <1>4, <1>5, <1>6, AddUpPrepend

-----------------------------------------------------------------------------
(* Whose turn it is.                                                         *)

Counting == {"load", "store"}           \* a thread that increments counters
Before == BoxLabels \ Counting          \* or has yet to record its message
Clearing == {"subload", "substore"}     \* or marks a conversation read
Touching == BoxLabels \cup ShowLabels
Offering == BoxLabels \cup {"notify", "slot", "sleep"}  \* a message not handed over

\* One session at most is busy, and none with a message or a box of its own while
\* the exchange has a message.
Turns ==
  /\ \A s1, s2 \in Sessions : pc[s1] # "idle" /\ pc[s2] # "idle" => s1 = s2
  /\ \A s \in Sessions :
       /\ pc[s] \in Touching \cup NotifyLabels \cup {"idle", "crashed"}
       /\ pc[s] \in Offering \cup ShowLabels => event # "msg_sent"
  /\ pc[Receiver] \in BoxLabels \cup ReceiverLabels

\* A session records for the sender of its message, the exchange thread for the
\* addressee.
Errands ==
  /\ \A s \in Sessions : pc[s] \in Offering => op[s].dir = "out" /\ op[s].host = op[s].msg.from
  /\ pc[Receiver] \in BoxLabels =>
       /\ op[Receiver].dir = "in"
       /\ op[Receiver].host = Resolve[payload.to]

\* So one thread at most is in the boxes.
LEMMA OneTouches ==
  ASSUME SlotInv, Turns, NEW t \in Threads, NEW u \in Threads,
         pc[t] \in Touching, pc[u] \in Touching
  PROVE  t = u
<1>1. "idle" \notin Touching
  BY DEF Touching, BoxLabels, ShowLabels
<1>2. \A x \in Threads : x \in Sessions \/ x = Receiver
  BY ThreadsAssumption
<1>3. pc[Receiver] \in Touching => event = "msg_sent"
  BY DEF Turns, SlotInv, SlotHeld, Touching, BoxLabels, ShowLabels, ReceiverLabels
<1>4. \A s \in Sessions : pc[s] \in Touching => event # "msg_sent"
  BY DEF Turns, Touching, Offering
<1>5. QED
  BY <1>1, <1>2, <1>3, <1>4 DEF Turns

\* What a step in the boxes leaves of the others, and where it leads.
LEMMA TouchSteps ==
  ASSUME SlotInv, Turns, Errands, OneAtATime, NEW t \in Threads, Record(t) \/ Show(t)
  PROVE  /\ pc[t] \in Touching /\ pc' = [pc EXCEPT ![t] = pc'[t]]
         /\ \A u \in Threads : u # t => pc'[u] = pc[u] /\ op'[u] = op[u] /\ pc[u] \notin Touching
         /\ pc[t] \in BoxLabels =>
              \/ /\ pc'[t] \in BoxLabels
                 /\ op'[t].dir = op[t].dir /\ op'[t].host = op[t].host
                 /\ op'[t].msg = op[t].msg /\ op'[t].contact = op[t].contact
              \/ /\ pc[t] = "store"
                 /\ pc'[t] = IF op[t].dir = "out" THEN "notify" ELSE "reset"
                 /\ op'[t].dir = op[t].dir /\ op'[t].host = op[t].host
                 /\ op'[t].msg = op[t].msg
         /\ pc[t] \in ShowLabels => pc'[t] \in ShowLabels \cup {"idle"}
<1>1. pc \in [Threads -> Labels] /\ op \in [Threads -> CallType] /\ op[t] \in CallType
  BY DEF SlotInv, TypeOK, VarsTyped
<1>2. "malloc_fails" \notin MayHappen
  BY DEF OneAtATime
<1>3. ~ AllocFails(t) /\ ~ BriefFails(t)
  BY <1>2 DEF AllocFails, BriefFails
<1>4. pc[t] \in Touching /\ pc' = [pc EXCEPT ![t] = pc'[t]]
      /\ \A u \in Threads : u # t => pc'[u] = pc[u] /\ op'[u] = op[u]
  BY <1>1, <1>3 DEF Record, FindNode, AllocNode, InsertNode, LoadContexts, StoreContexts,
              LoadCounter, StoreCounter, Show, ReadUnread, BriefMsgContexts, LoadBoxUnread,
              StoreBoxUnread, Goto, At, Forget, BoxLabels, ShowLabels, Touching
<1>5. pc[t] \in BoxLabels =>
              \/ /\ pc'[t] \in BoxLabels
                 /\ op'[t].dir = op[t].dir /\ op'[t].host = op[t].host
                 /\ op'[t].msg = op[t].msg /\ op'[t].contact = op[t].contact
              \/ /\ pc[t] = "store"
                 /\ pc'[t] = IF op[t].dir = "out" THEN "notify" ELSE "reset"
                 /\ op'[t].dir = op[t].dir /\ op'[t].host = op[t].host
                 /\ op'[t].msg = op[t].msg
  <2>1. CASE FindNode(t) \/ AllocNode(t) \/ InsertNode(t)
    BY <1>1, <2>1 DEF FindNode, AllocNode, InsertNode, Goto, BoxLabels, CallType
  <2>2. CASE LoadContexts(t) \/ StoreContexts(t) \/ LoadCounter(t)
    BY <1>1, <2>2 DEF LoadContexts, StoreContexts, LoadCounter, Goto, BoxLabels, CallType
  <2>3. CASE StoreCounter(t)
    <3>1. /\ pc[t] = "store" /\ op'[t].dir = op[t].dir /\ op'[t].host = op[t].host
          /\ op'[t].msg = op[t].msg /\ op'[t].contact = op[t].contact
      BY <1>1, <2>3 DEF StoreCounter, At, CallType
    <3>2. pc'[t] \in BoxLabels \/ pc'[t] = IF op[t].dir = "out" THEN "notify" ELSE "reset"
      BY <1>1, <2>3 DEF StoreCounter, Goto, AfterRecord, BoxLabels
    <3>3. QED
      BY <3>1, <3>2
  <2>4. CASE Show(t)
    BY <1>3, <2>4 DEF Show, ReadUnread, BriefMsgContexts, LoadBoxUnread, StoreBoxUnread, At, BoxLabels
  <2>5. QED
    BY <1>3, <2>1, <2>2, <2>3, <2>4 DEF Record
<1>6. pc[t] \in ShowLabels => pc'[t] \in ShowLabels \cup {"idle"}
  BY <1>1, <1>3 DEF Record, FindNode, AllocNode, InsertNode, LoadContexts, StoreContexts,
              LoadCounter, StoreCounter, Show, ReadUnread, BriefMsgContexts, LoadBoxUnread,
              StoreBoxUnread, Goto, At, Forget, BoxLabels, ShowLabels
<1>7. QED
  BY <1>4, <1>5, <1>6, OneTouches

\* At the start every session is idle and the exchange thread has no message.
LEMMA TurnsInit == Init => Turns /\ Errands
<1> SUFFICES ASSUME Init PROVE Turns /\ Errands
  OBVIOUS
<1>1. pc[Receiver] = "start" /\ \A s \in Sessions : pc[s] = "idle"
  BY ThreadsAssumption DEF Init
<1>2. QED
  BY <1>1 DEF Turns, Errands, Touching, Offering, BoxLabels, ShowLabels, NotifyLabels, ReceiverLabels

\* What starts a command.
LEMMA StartTurns ==
  ASSUME SlotInv, Turns, Errands, OneAtATime, NEW s \in Sessions,
         (\E n \in Names : StartSend(s, n)) \/ (\E n \in Shown : StartShow(s, n))
  PROVE  Turns' /\ Errands'
<1>1. /\ s \in Threads /\ s # Receiver /\ Receiver \in Threads
      /\ \A u \in Sessions : u \in Threads
      /\ pc \in [Threads -> Labels] /\ op \in [Threads -> CallType]
      /\ UserOf[s] \in Users
  BY ThreadsAssumption, NamesAssumption DEF SlotInv, TypeOK, VarsTyped
<1>2. AtRest
  BY DEF StartSend, StartShow, MayStart, OneAtATime
<1>3. /\ \A u \in Threads : u # s => pc'[u] = pc[u] /\ op'[u] = op[u]
      /\ pc[s] = "idle" /\ pc'[s] \in {"lookup", "unread", "crashed"}
      /\ event' = event /\ payload' = payload
  BY <1>1 DEF StartSend, StartShow, OpenConversation, slotVars, Goto, At
<1>4. Turns'
  BY <1>1, <1>2, <1>3 DEF AtRest, Turns, Touching, Offering, BoxLabels, ShowLabels, NotifyLabels,
     ReceiverLabels
<1>5. pc'[s] \in Offering => op'[s].dir = "out" /\ op'[s].host = op'[s].msg.from
  <2>1. CASE \E n \in Shown : StartShow(s, n)
    <3>1. pc'[s] \in {"unread", "crashed"}
      BY <1>1, <2>1 DEF StartShow, OpenConversation, Goto
    <3>2. QED
      BY <3>1 DEF Offering, BoxLabels
  <2>2. CASE \E n \in Names : StartSend(s, n)
    <3>1. PICK n \in Names : op' = [op EXCEPT ![s] = Call(UserOf[s], n, "out", Message(s, n))]
      BY <2>2 DEF StartSend
    <3>2. op'[s] = Call(UserOf[s], n, "out", Message(s, n))
      BY <1>1, <3>1
    <3>3. QED
      BY <3>2 DEF Call, Message
  <2>3. QED
    BY <2>1, <2>2
<1>6. Errands'
  BY <1>1, <1>2, <1>3, <1>5 DEF AtRest, Errands, Offering, BoxLabels
<1>7. QED
  BY <1>4, <1>6

\* What the steps of handing a message over leave of the rest: at most they wake the
\* exchange thread.
LEMMA NotifyMoves ==
  ASSUME SlotInv, NEW s \in Sessions, SendRefused(s) \/ Notify(s)
  PROVE  /\ boxes' = boxes /\ nodes' = nodes /\ handled' = handled
         /\ \A u \in Threads : u # s => op'[u] = op[u]
         /\ \A u \in Sessions : u # s => pc'[u] = pc[u] /\ op'[u] = op[u]
         /\ pc'[Receiver] = pc[Receiver] \/ (pc[Receiver] = "blocked" /\ pc'[Receiver] = "woken")
<1>1. /\ s \in Threads /\ s # Receiver /\ Receiver \in Threads
      /\ \A u \in Sessions : u \in Threads /\ u # Receiver
      /\ pc \in [Threads -> Labels] /\ op \in [Threads -> CallType]
  BY ThreadsAssumption DEF SlotInv, TypeOK, VarsTyped
<1>2. boxes' = boxes /\ nodes' = nodes /\ handled' = handled
  BY DEF SendRefused, Notify, LockToNotify, LockFails, Publish, SlotBusy, Retry, Signal,
     SignalFails, UnlockAfterNotify, UnlockFails, slotVars
<1>3. op' = op \/ op' = [op EXCEPT ![s] = NoCall]
  BY DEF SendRefused, Notify, LockToNotify, LockFails, Publish, SlotBusy, Retry, Signal,
     SignalFails, UnlockAfterNotify, UnlockFails, Forget, slotVars
<1>4. CASE Signal(s)
  <2>1. \A u \in Threads : u # s /\ u # Receiver => pc'[u] = pc[u]
    BY <1>1, <1>4 DEF Signal
  <2>2. pc'[Receiver] = IF pc[Receiver] = "blocked" THEN "woken" ELSE pc[Receiver]
    BY <1>1, <1>4 DEF Signal
  <2>3. QED
    BY <1>1, <1>2, <1>3, <2>1, <2>2
<1>5. CASE ~ Signal(s)
  <2>1. pc' = pc \/ \E l : pc' = [pc EXCEPT ![s] = l]
    BY <1>5 DEF SendRefused, Notify, LockToNotify, LockFails, Publish, SlotBusy, Retry,
       SignalFails, UnlockAfterNotify, UnlockFails, Goto, slotVars
  <2>2. QED
    BY <1>1, <1>2, <1>3, <2>1
<1>6. QED
  BY <1>4, <1>5

\* Handing a message over: a session that publishes leaves the boxes to the exchange.
LEMMA NotifyTurns ==
  ASSUME SlotInv, Turns, Errands, OneAtATime, NEW s \in Sessions, SendRefused(s) \/ Notify(s)
  PROVE  Turns' /\ Errands'
<1>1. /\ s \in Threads /\ s # Receiver /\ Receiver \in Threads
      /\ \A u \in Sessions : u \in Threads
      /\ pc \in [Threads -> Labels] /\ op \in [Threads -> CallType]
  BY ThreadsAssumption DEF SlotInv, TypeOK, VarsTyped
<1>2. /\ \A u \in Sessions : u # s => pc'[u] = pc[u] /\ op'[u] = op[u]
      /\ op'[Receiver] = op[Receiver]
      /\ pc'[Receiver] = pc[Receiver] \/ (pc[Receiver] = "blocked" /\ pc'[Receiver] = "woken")
  BY <1>1, NotifyMoves
<1>3. /\ pc'[s] \in NotifyLabels \cup {"idle"} \/ pc'[s] = pc[s]
      /\ pc[s] = "idle" => pc'[s] = "idle"
      /\ pc'[s] \in Offering => pc[s] \in Offering /\ op'[s] = op[s] /\ event' = event
      /\ event' # event => pc[s] = "slot" /\ pc'[s] = "signal"
  BY <1>1 DEF SendRefused, Notify, LockToNotify, LockFails, Publish, SlotBusy, Retry, Signal,
     SignalFails, UnlockAfterNotify, UnlockFails, Goto, At, Acquire, Release, Forget, slotVars,
     NotifyLabels, Offering, BoxLabels
<1>4. pc[Receiver] \in BoxLabels => payload' = payload
  <2>1. pc[Receiver] \in BoxLabels => event = "msg_sent"
    BY DEF SlotInv, SlotHeld
  <2>2. QED
    BY <2>1 DEF SendRefused, Notify, LockToNotify, LockFails, Publish, SlotBusy, Retry, Signal,
     SignalFails, UnlockAfterNotify, UnlockFails, slotVars
<1>5. Turns'
  BY <1>1, <1>2, <1>3 DEF Turns, Touching, Offering, BoxLabels, ShowLabels, NotifyLabels,
     ReceiverLabels
<1>6. Errands'
  BY <1>1, <1>2, <1>3, <1>4 DEF Errands, Offering, BoxLabels
<1>7. QED
  BY <1>5, <1>6

\* The exchange thread takes a message for its addressee, and gives the slot up idle.
LEMMA ExchangeTurns ==
  ASSUME SlotInv, Turns, Errands, OneAtATime, Exchange \/ SpuriousWakeup \/ PostShutdown
  PROVE  Turns' /\ Errands'
<1>1. /\ Receiver \in Threads /\ Receiver \notin Sessions
      /\ \A u \in Sessions : u \in Threads
      /\ pc \in [Threads -> Labels] /\ op \in [Threads -> CallType]
  BY ThreadsAssumption DEF SlotInv, TypeOK, VarsTyped
<1>2. /\ \A u \in Sessions : pc'[u] = pc[u] /\ op'[u] = op[u]
      /\ payload' = payload
      /\ event' = "msg_sent" => event = "msg_sent"
      /\ pc'[Receiver] \in ReceiverLabels \/ (Receive /\ pc'[Receiver] = "lookup") \/ pc'[Receiver] = pc[Receiver]
      /\ pc'[Receiver] = pc[Receiver] => op'[Receiver] = op[Receiver]
  BY <1>1 DEF Exchange, SetReady, ReceiverLocks, ReceiverLockFails, Wait, Receive, Drop, FreeSlot,
         Shutdown, ReceiverUnlocks, ReceiverUnlockFails, SpuriousWakeup, PostShutdown, Goto, At, Forget,
         ReceiverLabels, slotVars
<1>3. Turns'
  BY <1>1, <1>2 DEF Turns, BoxLabels
<1>4. Receive => op'[Receiver].dir = "in" /\ op'[Receiver].host = Resolve[payload.to]
  BY <1>1 DEF Receive, Call
<1>5. Errands'
  BY <1>1, <1>2, <1>4 DEF Errands, BoxLabels, ReceiverLabels
<1>6. QED
  BY <1>3, <1>5

\* A step in the boxes keeps its errand, and hands its message over when it ends.
LEMMA TouchTurns ==
  ASSUME SlotInv, Turns, Errands, OneAtATime, NEW t \in Threads, Record(t) \/ Show(t), UNCHANGED slotVars
  PROVE  Turns' /\ Errands'
<1>1. /\ Receiver \in Threads /\ Receiver \notin Sessions
      /\ \A u \in Sessions : u \in Threads
      /\ \A u \in Threads : u \in Sessions \/ u = Receiver
      /\ event' = event /\ payload' = payload
  BY ThreadsAssumption DEF slotVars
<1>2. /\ pc[t] \in Touching
      /\ \A u \in Threads : u # t => pc'[u] = pc[u] /\ op'[u] = op[u]
      /\ pc[t] \in BoxLabels =>
              \/ /\ pc'[t] \in BoxLabels
                 /\ op'[t].dir = op[t].dir /\ op'[t].host = op[t].host
                 /\ op'[t].msg = op[t].msg
              \/ /\ pc[t] = "store"
                 /\ pc'[t] = IF op[t].dir = "out" THEN "notify" ELSE "reset"
                 /\ op'[t].dir = op[t].dir /\ op'[t].host = op[t].host
                 /\ op'[t].msg = op[t].msg
      /\ pc[t] \in ShowLabels => pc'[t] \in ShowLabels \cup {"idle"}
  BY TouchSteps
<1>3. CASE t = Receiver
  <2>1. pc[t] \in BoxLabels /\ op[t].dir = "in"
    BY <1>2, <1>3 DEF Turns, Errands, Touching, BoxLabels, ShowLabels, ReceiverLabels
  <2>2. pc'[t] \in BoxLabels \cup {"reset"} /\ op'[t].dir = "in" /\ op'[t].host = op[t].host
    BY <1>2, <2>1
  <2>3. Turns'
    BY <1>1, <1>2, <1>3, <2>2 DEF Turns, ReceiverLabels
  <2>4. Errands'
    BY <1>1, <1>2, <1>3, <2>1, <2>2 DEF Errands, BoxLabels
  <2>5. QED
    BY <2>3, <2>4
<1>4. CASE t \in Sessions
  <2>1. CASE pc[t] \in BoxLabels
    <3>1. op[t].dir = "out" /\ op[t].host = op[t].msg.from
      BY <1>4, <2>1 DEF Errands, Offering
    <3>2. pc'[t] \in BoxLabels \cup {"notify"} /\ op'[t].dir = "out" /\ op'[t].host = op'[t].msg.from
      BY <1>2, <2>1, <3>1
    <3>3. pc[t] # "idle" /\ event # "msg_sent"
      BY <1>4, <2>1 DEF BoxLabels, Turns, Offering
    <3>4. Turns'
      BY <1>1, <1>2, <1>4, <3>2, <3>3 DEF Turns, Touching, NotifyLabels, Offering
    <3>5. Errands'
      BY <1>1, <1>2, <1>4, <3>2 DEF Errands
    <3>6. QED
      BY <3>4, <3>5
  <2>2. CASE pc[t] \in ShowLabels
    <3>1. pc'[t] \in ShowLabels \cup {"idle"} /\ pc[t] # "idle" /\ event # "msg_sent"
      BY <1>2, <1>4, <2>2 DEF ShowLabels, Turns
    <3>2. Turns'
      BY <1>1, <1>2, <1>4, <3>1 DEF Turns, Touching, NotifyLabels, Offering
    <3>3. Errands'
      BY <1>1, <1>2, <1>4, <3>1 DEF Errands, Offering, BoxLabels, ShowLabels
    <3>4. QED
      BY <3>2, <3>3
  <2>3. QED
    BY <1>2, <2>1, <2>2 DEF Touching
<1>5. QED
  BY <1>1, <1>3, <1>4

-----------------------------------------------------------------------------
(* The counters a message leaves to increment.                               *)

NodeMsg == [of |-> "node", field |-> "numMsg"]
BoxMsg == [of |-> "box", field |-> "numMsg"]
NodeUnread == [of |-> "node", field |-> "numUnread"]
BoxUnread == [of |-> "box", field |-> "numUnread"]
Figured == {NodeMsg, BoxMsg, NodeUnread, BoxUnread}

\* What a thread may have left of the counters.
Todos(dir) ==
  IF dir = "in"
    THEN {<<NodeMsg, BoxMsg, NodeUnread, BoxUnread>>, <<BoxMsg, NodeUnread, BoxUnread>>,
          <<NodeUnread, BoxUnread>>, <<BoxUnread>>}
    ELSE {<<NodeMsg, BoxMsg>>, <<BoxMsg>>}

\* 1 while counter c is among them.
Pending(todo, c) == IF \E i \in DOMAIN todo : todo[i] = c THEN 1 ELSE 0

\* The four counters of a message are different ones.
LEMMA FiguresDiffer ==
  /\ NodeMsg # BoxMsg /\ NodeMsg # NodeUnread /\ NodeMsg # BoxUnread
  /\ BoxMsg # NodeUnread /\ BoxMsg # BoxUnread /\ NodeUnread # BoxUnread
BY DEF NodeMsg, BoxMsg, NodeUnread, BoxUnread

\* What is left of the counters to increment, for lists as long as the code makes them.
LEMMA Pending0 == \A x : Pending(<<>>, x) = 0
BY DEF Pending

\* One counter left ...
LEMMA Pending1 ==
  ASSUME NEW a, NEW x
  PROVE  Pending(<<a>>, x) = IF x \in {a} THEN 1 ELSE 0
<1>1. DOMAIN <<a>> = 1 .. 1 /\ \A i \in 1 .. 1 : i \in {1}
  OBVIOUS
<1>2. <<a>>[1] = a
  OBVIOUS
<1>3. 1 \in 1 .. 1
  OBVIOUS
<1>4. (\E i \in 1 .. 1 : <<a>>[i] = x) <=> x \in {a}
  BY <1>1, <1>2, <1>3
<1>5. QED
  BY <1>1, <1>4 DEF Pending

\* ... two ...
LEMMA Pending2 ==
  ASSUME NEW a, NEW b, NEW x
  PROVE  Pending(<<a, b>>, x) = IF x \in {a, b} THEN 1 ELSE 0
<1>1. DOMAIN <<a, b>> = 1 .. 2 /\ \A i \in 1 .. 2 : i \in {1, 2}
  OBVIOUS
<1>2. <<a, b>>[1] = a /\ <<a, b>>[2] = b
  OBVIOUS
<1>3. 1 \in 1 .. 2 /\ 2 \in 1 .. 2
  OBVIOUS
<1>4. (\E i \in 1 .. 2 : <<a, b>>[i] = x) <=> x \in {a, b}
  BY <1>1, <1>2, <1>3
<1>5. QED
  BY <1>1, <1>4 DEF Pending

\* ... three ...
LEMMA Pending3 ==
  ASSUME NEW a, NEW b, NEW c, NEW x
  PROVE  Pending(<<a, b, c>>, x) = IF x \in {a, b, c} THEN 1 ELSE 0
<1>1. DOMAIN <<a, b, c>> = 1 .. 3 /\ \A i \in 1 .. 3 : i \in {1, 2, 3}
  OBVIOUS
<1>2. <<a, b, c>>[1] = a /\ <<a, b, c>>[2] = b /\ <<a, b, c>>[3] = c
  OBVIOUS
<1>3. 1 \in 1 .. 3 /\ 2 \in 1 .. 3 /\ 3 \in 1 .. 3
  OBVIOUS
<1>4. (\E i \in 1 .. 3 : <<a, b, c>>[i] = x) <=> x \in {a, b, c}
  BY <1>1, <1>2, <1>3
<1>5. QED
  BY <1>1, <1>4 DEF Pending

\* ... and all four.
LEMMA Pending4 ==
  ASSUME NEW a, NEW b, NEW c, NEW d, NEW x
  PROVE  Pending(<<a, b, c, d>>, x) = IF x \in {a, b, c, d} THEN 1 ELSE 0
<1>1. DOMAIN <<a, b, c, d>> = 1 .. 4 /\ \A i \in 1 .. 4 : i \in {1, 2, 3, 4}
  OBVIOUS
<1>2. <<a, b, c, d>>[1] = a /\ <<a, b, c, d>>[2] = b /\ <<a, b, c, d>>[3] = c /\ <<a, b, c, d>>[4] = d
  OBVIOUS
<1>3. 1 \in 1 .. 4 /\ 2 \in 1 .. 4 /\ 3 \in 1 .. 4 /\ 4 \in 1 .. 4
  OBVIOUS
<1>4. (\E i \in 1 .. 4 : <<a, b, c, d>>[i] = x) <=> x \in {a, b, c, d}
  BY <1>1, <1>2, <1>3
<1>5. QED
  BY <1>1, <1>4 DEF Pending

\* The counters a thread starts with.
LEMMA TodoStarts ==
  ASSUME NEW dir \in Direction
  PROVE  /\ CountersOf(dir) \in Todos(dir)
         /\ Pending(CountersOf(dir), NodeMsg) = 1 /\ Pending(CountersOf(dir), BoxMsg) = 1
         /\ Pending(CountersOf(dir), NodeUnread) = Pending(CountersOf(dir), BoxUnread)
         /\ Pending(CountersOf(dir), BoxUnread) \in {0, 1}
<1>1. CASE dir = "in"
  <2>1. CountersOf(dir) = <<NodeMsg, BoxMsg, NodeUnread, BoxUnread>>
    BY <1>1 DEF CountersOf, NodeMsg, BoxMsg, NodeUnread, BoxUnread
  <2>2. QED
    BY <1>1, <2>1, Pending0, Pending1, Pending2, Pending3, Pending4 DEF Todos
<1>2. CASE dir = "out"
  <2>1. CountersOf(dir) = <<NodeMsg, BoxMsg>>
    BY <1>2 DEF CountersOf, NodeMsg, BoxMsg
  <2>2. QED
    BY <1>2, <2>1, Pending0, Pending1, Pending2, Pending3, Pending4, FiguresDiffer DEF Todos
<1>3. QED
  BY <1>1, <1>2 DEF Direction

\* The order in which it takes them.
InOrder(todo, rest) ==
  LET c == Head(todo)
  IN  /\ c \in Figured
      /\ Pending(todo, c) = 1 /\ Pending(rest, c) = 0
      /\ \A d \in Figured : d # c => Pending(rest, d) = Pending(todo, d)
      /\ c = NodeMsg => Pending(todo, BoxMsg) = 1
      /\ c # NodeMsg => Pending(todo, NodeMsg) = 0
      /\ c \in {NodeUnread, BoxUnread} => Pending(todo, BoxMsg) = 0
      /\ c = NodeUnread => Pending(todo, BoxUnread) = 1
      /\ c = BoxUnread => Pending(todo, NodeUnread) = 0
      /\ rest = <<>> => \A d \in Figured : Pending(rest, d) = 0

\* Incrementing the first counter leaves the others, in their order.
LEMMA TodoGoesOn ==
  ASSUME NEW dir \in Direction, NEW todo \in Todos(dir)
  PROVE  /\ todo # <<>>
         /\ Tail(todo) = <<>> \/ Tail(todo) \in Todos(dir)
         /\ InOrder(todo, Tail(todo))
<1> USE FiguresDiffer, Pending0, Pending1, Pending2, Pending3, Pending4
<1> USE DEF Figured, InOrder
<1>1. CASE todo = <<NodeMsg, BoxMsg, NodeUnread, BoxUnread>> /\ dir = "in"
  <2>1. Head(todo) = NodeMsg /\ Tail(todo) = <<BoxMsg, NodeUnread, BoxUnread>> /\ todo # <<>>
    BY <1>1
  <2>2. InOrder(todo, Tail(todo))
    BY <1>1, <2>1
  <2>3. QED
    BY <1>1, <2>1, <2>2 DEF Todos
<1>2. CASE todo = <<BoxMsg, NodeUnread, BoxUnread>> /\ dir = "in"
  <2>1. Head(todo) = BoxMsg /\ Tail(todo) = <<NodeUnread, BoxUnread>> /\ todo # <<>>
    BY <1>2
  <2>2. InOrder(todo, Tail(todo))
    BY <1>2, <2>1
  <2>3. QED
    BY <1>2, <2>1, <2>2 DEF Todos
<1>3. CASE todo = <<NodeUnread, BoxUnread>> /\ dir = "in"
  <2>1. Head(todo) = NodeUnread /\ Tail(todo) = <<BoxUnread>> /\ todo # <<>>
    BY <1>3
  <2>2. InOrder(todo, Tail(todo))
    BY <1>3, <2>1
  <2>3. QED
    BY <1>3, <2>1, <2>2 DEF Todos
<1>4. CASE todo = <<BoxUnread>>
  <2>1. Head(todo) = BoxUnread /\ Tail(todo) = <<>> /\ todo # <<>>
    BY <1>4
  <2>2. InOrder(todo, Tail(todo))
    BY <1>4, <2>1
  <2>3. QED
    BY <2>1, <2>2
<1>5. CASE todo = <<NodeMsg, BoxMsg>> /\ dir = "out"
  <2>1. Head(todo) = NodeMsg /\ Tail(todo) = <<BoxMsg>> /\ todo # <<>>
    BY <1>5
  <2>2. InOrder(todo, Tail(todo))
    BY <1>5, <2>1
  <2>3. QED
    BY <1>5, <2>1, <2>2 DEF Todos
<1>6. CASE todo = <<BoxMsg>>
  <2>1. Head(todo) = BoxMsg /\ Tail(todo) = <<>> /\ todo # <<>>
    BY <1>6
  <2>2. InOrder(todo, Tail(todo))
    BY <1>6, <2>1
  <2>3. QED
    BY <2>1, <2>2
<1>7. QED
  BY <1>1, <1>2, <1>3, <1>4, <1>5, <1>6 DEF Todos, Direction

-----------------------------------------------------------------------------
(* The boxes: who owns what, what a thread has loaded, and the books.        *)

Halfway == Counting \cup Clearing

\* The conversation a thread works on is in the box it works on.
Listed(t) ==
  \E i \in DOMAIN boxes[op[t].host].msgs : boxes[op[t].host].msgs[i] = op[t].node

\* The counter a thread is about to store, as it is.
Loaded(t) ==
  LET c == Head(op[t].todo)
  IN  IF c.of = "node" THEN nodes[op[t].node][c.field] ELSE boxes[op[t].host][c.field]

\* What a thread has read is still so, and what it has made is its own.
Locals(t) ==
  /\ pc[t] = "insert" =>
       /\ \A u \in Users : \A i \in DOMAIN boxes[u].msgs : boxes[u].msgs[i] # op[t].node
       /\ nodes[op[t].node].next = boxes[op[t].host].msgs
       /\ nodes[op[t].node].numMsg = 0 /\ nodes[op[t].node].numUnread = 0
  /\ pc[t] \in NodeLabels \ {"insert"} => Listed(t)
  /\ pc[t] = "linkstore" => op[t].tail = nodes[op[t].node].contexts
  /\ pc[t] \in Before => op[t].todo = CountersOf(op[t].dir)
  /\ pc[t] \in Counting => op[t].todo \in Todos(op[t].dir)
  /\ pc[t] = "store" => op[t].num = Loaded(t)
  /\ pc[t] = "brief" => op[t].seen = nodes[op[t].node].numUnread
  /\ pc[t] = "substore" => op[t].num = boxes[op[t].host].numUnread

\* The counters of a box nobody is changing.
Even(u) ==
  /\ boxes[u].numMsg = Total(u, "numMsg")
  /\ boxes[u].numUnread = Total(u, "numUnread")
  /\ boxes[u].numUnread <= boxes[u].numMsg

\* Those of a conversation.
Tallied(n) ==
  /\ nodes[n].numMsg = Len(nodes[n].contexts)
  /\ nodes[n].numUnread <= nodes[n].numMsg

\* Those a thread is changing: off by what it has left to do.
Counts(t) ==
  LET box == boxes[op[t].host]
      node == nodes[op[t].node]
      left(c) == Pending(op[t].todo, c)
  IN  /\ node.numMsg + left(NodeMsg) = Len(node.contexts)
      /\ node.numUnread + left(NodeUnread) <= Len(node.contexts)
      /\ box.numMsg + left(BoxMsg) = Total(op[t].host, "numMsg") + left(NodeMsg)
      /\ box.numUnread + left(BoxUnread) = Total(op[t].host, "numUnread") + left(NodeUnread)
      /\ box.numUnread + left(BoxUnread) <= box.numMsg + left(BoxMsg)
Clears(t) ==
  LET box == boxes[op[t].host]
  IN  /\ box.numMsg = Total(op[t].host, "numMsg")
      /\ box.numUnread = Total(op[t].host, "numUnread") + op[t].seen
      /\ box.numUnread <= box.numMsg

Books ==
  /\ \A u \in Users : (\A t \in Threads : pc[t] \in Halfway => op[t].host # u) => Even(u)
  /\ \A n \in DOMAIN nodes : (\A t \in Threads : pc[t] \in Counting => op[t].node # n) => Tallied(n)
  /\ \A t \in Threads :
       /\ pc[t] \in Counting => Counts(t)
       /\ pc[t] \in Clearing => Clears(t)

HeapInv == Owned /\ (\A t \in Threads : Locals(t)) /\ Books

\* The same with one thread in the boxes.
BooksOf(t) ==
  /\ \A u \in Users : (pc[t] \in Halfway => op[t].host # u) => Even(u)
  /\ \A n \in DOMAIN nodes : (pc[t] \in Counting => op[t].node # n) => Tallied(n)
  /\ pc[t] \in Counting => Counts(t)
  /\ pc[t] \in Clearing => Clears(t)

\* With one thread in the boxes, the books are its own ...
LEMMA BooksOfOne ==
  ASSUME NEW t \in Threads, \A u \in Threads : u # t => pc[u] \notin Touching, Books
  PROVE  BooksOf(t)
<1>1. Halfway \subseteq Touching /\ Counting \subseteq Touching
  BY DEF Halfway, Touching, Counting, Clearing, BoxLabels, ShowLabels
<1>2. ASSUME NEW u \in Users, pc[t] \in Halfway => op[t].host # u PROVE Even(u)
  BY <1>1, <1>2 DEF Books
<1>3. ASSUME NEW n \in DOMAIN nodes, pc[t] \in Counting => op[t].node # n PROVE Tallied(n)
  BY <1>1, <1>3 DEF Books
<1>4. QED
  BY <1>2, <1>3 DEF Books, BooksOf

\* ... and what it keeps of them holds of all.
LEMMA OneOfBooks ==
  ASSUME NEW t \in Threads, \A u \in Threads : u # t => pc'[u] \notin Touching, 
         Owned', Locals(t)', BooksOf(t)'
  PROVE  HeapInv'
<1>1. Halfway \subseteq Touching /\ Counting \subseteq Touching /\ Clearing \subseteq Touching
      /\ NodeLabels \subseteq Touching /\ Before \subseteq Touching
  BY DEF Halfway, Touching, Counting, Clearing, BoxLabels, ShowLabels, NodeLabels, Before
<1>2. ASSUME NEW u \in Threads PROVE Locals(u)'
  <2>1. CASE u = t
    BY <2>1
  <2>2. CASE u # t
    <3>1. pc'[u] \notin Touching
      BY <2>2
    <3>2. /\ "insert" \in Touching /\ "linkstore" \in Touching /\ "store" \in Touching
          /\ "brief" \in Touching /\ "substore" \in Touching
      BY DEF Touching, BoxLabels, ShowLabels
    <3>3. QED
      BY <1>1, <3>1, <3>2 DEF Locals
  <2>3. QED
    BY <2>1, <2>2
<1>3. Books'
  BY <1>1 DEF Books, BooksOf
<1>4. QED
  BY <1>2, <1>3 DEF HeapInv

\* Empty boxes add up.
LEMMA HeapInit == Init => HeapInv
<1> SUFFICES ASSUME Init PROVE HeapInv
  OBVIOUS
<1>1. /\ \A u \in Users : boxes[u] = EmptyBox
      /\ nodes = <<>> /\ DOMAIN nodes = {}
      /\ \A t \in Threads : pc[t] \in {"start", "idle"}
  BY DEF Init, BoxInit
<1>2. \A u \in Users : DOMAIN boxes[u].msgs = {} /\ boxes[u].numMsg = 0 /\ boxes[u].numUnread = 0
        /\ boxes[u].msgs = <<>>
  <2>1. EmptyBox.msgs = <<>> /\ EmptyBox.numMsg = 0 /\ EmptyBox.numUnread = 0 /\ DOMAIN <<>> = {}
    BY DEF EmptyBox
  <2>2. QED
    BY <1>1, <2>1
<1>3. Owned
  BY <1>2 DEF Owned
<1>4. \A t \in Threads : pc[t] \notin Touching
  BY <1>1 DEF Touching, BoxLabels, ShowLabels
<1>5. \A t \in Threads : Locals(t)
  BY <1>1 DEF Locals, NodeLabels, BoxLabels, ShowLabels, Before, Counting
<1>6. ASSUME NEW u \in Users, NEW field \in Fields PROVE Total(u, field) = 0
  <2>1. Figures(u, field) = [i \in {} |-> nodes[boxes[u].msgs[i]][field]]
    BY <1>2 DEF Figures
  <2>2. TypeOK
    BY TypeInit
  <2>3. Figures(u, field) \in Seq(Nat) /\ Len(Figures(u, field)) = 0
    BY <1>2, <2>2, FiguresTyped
  <2>4. PICK w : IsPartialSums(w, Figures(u, field), Len(Figures(u, field)))
                 /\ AddUp(Figures(u, field)) = w[Len(Figures(u, field))]
    BY <2>3, AddUpIsLast
  <2>5. QED
    BY <2>3, <2>4 DEF Total, IsPartialSums
<1>7. \A u \in Users : Even(u)
  <2>1. "numMsg" \in Fields /\ "numUnread" \in Fields
    BY DEF Fields
  <2>2. ASSUME NEW u \in Users PROVE Even(u)
    <3>1. Total(u, "numMsg") = 0 /\ Total(u, "numUnread") = 0
      BY <1>6, <2>1
    <3>2. boxes[u].numMsg = 0 /\ boxes[u].numUnread = 0
      BY <1>2
    <3>3. QED
      BY <3>1, <3>2 DEF Even
  <2>3. QED
    BY <2>2
<1>8. Books
  BY <1>1, <1>7 DEF Books, Counting, Clearing
<1>9. QED
  BY <1>3, <1>5, <1>8 DEF HeapInv

\* A step that leaves the boxes alone keeps all that, if it takes no thread into
\* them but to look a conversation up.
LEMMA HeapKept ==
  ASSUME HeapInv, UNCHANGED <<boxes, nodes>>,
         \A t \in Threads :
           \/ pc'[t] = pc[t] /\ op'[t] = op[t]
           \/ /\ pc[t] \notin Touching
              /\ \/ pc'[t] \notin Touching
                 \/ pc'[t] = "lookup" /\ op'[t].todo = CountersOf(op'[t].dir)
                 \/ pc'[t] = "unread" /\ Listed(t)'
  PROVE  HeapInv'
<1>1. Halfway \subseteq Touching /\ Counting \subseteq Touching /\ Clearing \subseteq Touching
      /\ NodeLabels \subseteq Touching /\ Before \subseteq Touching
      /\ "lookup" \notin Halfway \cup NodeLabels \cup Counting /\ "unread" \notin Halfway \cup Before \cup Counting
  BY DEF Halfway, Touching, Counting, Clearing, BoxLabels, ShowLabels, NodeLabels, Before
<1>2. boxes' = boxes /\ nodes' = nodes
  OBVIOUS
<1>3. Owned'
  BY <1>2 DEF HeapInv, Owned
<1>4. ASSUME NEW t \in Threads PROVE Locals(t)'
  <2>1. CASE pc'[t] = pc[t] /\ op'[t] = op[t]
    BY <1>2, <2>1 DEF HeapInv, Locals, Listed, Loaded
  <2>2. CASE pc'[t] \notin Touching
    <3>1. /\ "insert" \in Touching /\ "linkstore" \in Touching /\ "store" \in Touching
          /\ "brief" \in Touching /\ "substore" \in Touching
      BY DEF Touching, BoxLabels, ShowLabels
    <3>2. QED
      BY <1>1, <2>2, <3>1 DEF Locals
  <2>3. CASE pc'[t] = "lookup" /\ op'[t].todo = CountersOf(op'[t].dir)
    BY <1>1, <2>3 DEF Locals
  <2>4. CASE pc'[t] = "unread" /\ Listed(t)'
    BY <1>1, <2>4 DEF Locals
  <2>5. QED
    BY <2>1, <2>2, <2>3, <2>4
<1>5. \A u \in Users, field \in Fields : Total(u, field)' = Total(u, field)
  BY <1>2, TotalStays
<1>6. ASSUME NEW t \in Threads
      PROVE  (pc'[t] \in Halfway \/ pc[t] \in Halfway) => pc'[t] = pc[t] /\ op'[t] = op[t]
  BY <1>1
<1>7. ASSUME NEW u \in Users, \A t \in Threads : pc'[t] \in Halfway => op'[t].host # u
      PROVE  Even(u)'
  <2>1. Even(u)
    BY <1>6, <1>7 DEF HeapInv, Books
  <2>2. QED
    BY <1>2, <1>5, <2>1 DEF Even, Fields
<1>8. ASSUME NEW n \in DOMAIN nodes, \A t \in Threads : pc'[t] \in Counting => op'[t].node # n
      PROVE  Tallied(n)'
  <2>1. Tallied(n)
    BY <1>6, <1>8 DEF HeapInv, Books, Halfway
  <2>2. QED
    BY <1>2, <2>1 DEF Tallied
<1>9. ASSUME NEW t \in Threads
      PROVE  /\ pc'[t] \in Counting => Counts(t)'
             /\ pc'[t] \in Clearing => Clears(t)'
  <2>1. CASE pc'[t] \in Halfway
    <3>1. pc'[t] = pc[t] /\ op'[t] = op[t]
      BY <1>6, <2>1
    <3>2. PICK h : h = op[t].host /\ h = op'[t].host
      BY <3>1
    <3>3. \A field : Total(op[t].host, field)' = Total(op[t].host, field)
      <4>1. \A field : Total(op[t].host, field)' = Total(h, field)'
        BY <3>2 DEF Total, Figures, AddUp
      <4>2. \A field : Total(h, field)' = Total(h, field)
        BY <1>2, TotalStays
      <4>3. QED
        BY <3>2, <4>1, <4>2
    <3>4. pc[t] \in Counting => Counts(t)'
      BY <1>2, <3>1, <3>3 DEF HeapInv, Books, Counts
    <3>5. pc[t] \in Clearing => Clears(t)'
      BY <1>2, <3>1, <3>3 DEF HeapInv, Books, Clears
    <3>6. QED
      BY <3>1, <3>4, <3>5
  <2>2. CASE pc'[t] \notin Halfway
    BY <2>2 DEF Halfway
  <2>3. QED
    BY <2>1, <2>2
<1>10. Books'
  BY <1>2, <1>7, <1>8, <1>9 DEF Books
<1>11. QED
  BY <1>3, <1>4, <1>10 DEF HeapInv

-----------------------------------------------------------------------------
(* The steps in the boxes keep them right.                                   *)

\* No other thread is in the boxes.
Alone(t) == \A u \in Threads : u # t => pc[u] \notin Touching

\* The host of a call is a user like any other.
LEMMA AtHost ==
  ASSUME NEW t, NEW h, h = op'[t].host
  PROVE  \A field : Total(op[t].host, field)' = Total(h, field)'
BY DEF Total, Figures, AddUp

\* What a thread in the boxes works on has its type.
LEMMA TouchFacts ==
  ASSUME TypeOK, NEW t \in Threads
  PROVE  /\ op[t] \in CallType /\ op[t].host \in Users /\ op[t].contact \in Names
         /\ boxes[op[t].host] \in BoxType /\ boxes[op[t].host].msgs \in Seq(Nat)
         /\ boxes[op[t].host].numMsg \in Nat /\ boxes[op[t].host].numUnread \in Nat
         /\ pc[t] \in NodeLabels =>
              /\ op[t].node \in DOMAIN nodes
              /\ nodes[op[t].node] \in NodeType
              /\ nodes[op[t].node].numMsg \in Nat /\ nodes[op[t].node].numUnread \in Nat
              /\ nodes[op[t].node].contexts \in Seq(Entry)
<1>1. /\ op[t] \in CallType /\ boxes \in [Users -> BoxType] /\ nodes \in Seq(NodeType)
      /\ pc[t] \in NodeLabels => op[t].node \in DOMAIN nodes
  BY DEF TypeOK, VarsTyped, CallsOK
<1>2. op[t].host \in Users /\ op[t].contact \in Names
  BY <1>1 DEF CallType
<1>3. pc[t] \in NodeLabels => nodes[op[t].node] \in NodeType
  BY <1>1
<1>4. QED
  BY <1>1, <1>2, <1>3 DEF BoxType, NodeType

\* getMsgNode finds a conversation of the box.
LEMMA GetMsgNodeListed ==
  ASSUME TypeOK, NEW u \in Users, NEW c \in Names, GetMsgNode(u, c) # NULL
  PROVE  \E i \in DOMAIN boxes[u].msgs : boxes[u].msgs[i] = GetMsgNode(u, c)
<1> DEFINE list == boxes[u].msgs
           hits == {i \in DOMAIN list : nodes[list[i]].contact = c}
           first == CHOOSE i \in hits : \A j \in hits : i <= j
<1>1. hits # {}
  BY DEF GetMsgNode
<1>2. hits \in SUBSET Nat
  BY DEF TypeOK, VarsTyped, BoxType
<1>3. \E i \in hits : \A j \in hits : i <= j
  BY <1>1, <1>2, LeastNumber
<1>4. first \in hits
  BY <1>3
<1>5. GetMsgNode(u, c) = list[first]
  BY <1>1 DEF GetMsgNode
<1>6. QED
  BY <1>4, <1>5

\* The books stay when neither they nor what is left to do changes.
LEMMA BooksStay ==
  ASSUME NEW t \in Threads, BooksOf(t), UNCHANGED <<boxes, nodes>>,
         pc'[t] \in Counting <=> pc[t] \in Counting,
         pc'[t] \in Clearing <=> pc[t] \in Clearing,
         pc[t] \in Halfway =>
           /\ op'[t].host = op[t].host /\ op'[t].node = op[t].node
           /\ op'[t].todo = op[t].todo /\ op'[t].seen = op[t].seen
  PROVE  BooksOf(t)'
<1>1. boxes' = boxes /\ nodes' = nodes /\ \A u, field : Total(u, field)' = Total(u, field)
  BY TotalStays
<1>2. \A u \in Users : Even(u)' <=> Even(u)
  BY <1>1 DEF Even
<1>3. \A n \in DOMAIN nodes : Tallied(n)' <=> Tallied(n)
  BY <1>1 DEF Tallied
<1>4. pc'[t] \in Counting => Counts(t)'
  <2>1. SUFFICES ASSUME pc'[t] \in Counting PROVE Counts(t)'
    OBVIOUS
  <2>2. /\ op'[t].host = op[t].host /\ op'[t].node = op[t].node
        /\ op'[t].todo = op[t].todo /\ Counts(t)
    BY <2>1 DEF Halfway, BooksOf
  <2>3. PICK h : h = op[t].host /\ h = op'[t].host
    BY <2>2
  <2>4. \A field : Total(op[t].host, field)' = Total(op[t].host, field)
    BY <1>1, <2>3, AtHost
  <2>5. QED
    BY <1>1, <2>2, <2>4 DEF Counts
<1>5. pc'[t] \in Clearing => Clears(t)'
  <2>1. SUFFICES ASSUME pc'[t] \in Clearing PROVE Clears(t)'
    OBVIOUS
  <2>2. op'[t].host = op[t].host /\ op'[t].seen = op[t].seen /\ Clears(t)
    BY <2>1 DEF Halfway, BooksOf
  <2>3. PICK h : h = op[t].host /\ h = op'[t].host
    BY <2>2
  <2>4. \A field : Total(op[t].host, field)' = Total(op[t].host, field)
    BY <1>1, <2>3, AtHost
  <2>5. QED
    BY <1>1, <2>2, <2>4 DEF Clears
<1>6. QED
  BY <1>1, <1>2, <1>3, <1>4, <1>5 DEF BooksOf, Halfway

\* Looking a conversation up changes none.
LEMMA FindNodeHeap ==
  ASSUME TypeOK, TypeOK', HeapInv, NEW t \in Threads, Alone(t), Alone(t)', FindNode(t)
  PROVE  HeapInv'
<1> DEFINE n == GetMsgNode(op[t].host, op[t].contact)
<1>1. pc[t] = "lookup" /\ pc'[t] = (IF n = NULL THEN "newnode" ELSE "link")
      /\ op'[t] = [op[t] EXCEPT !.node = n] /\ boxes' = boxes /\ nodes' = nodes
  BY DEF FindNode, At, Goto, TypeOK, VarsTyped
<1>2. op[t].host \in Users /\ op[t].contact \in Names /\ op[t] \in CallType
  BY TouchFacts
<1>3. n # NULL => \E i \in DOMAIN boxes[op[t].host].msgs : boxes[op[t].host].msgs[i] = n
  BY <1>2, GetMsgNodeListed
<1> HIDE DEF n
<1>4. /\ op'[t].node = n /\ op'[t].host = op[t].host /\ op'[t].todo = op[t].todo
      /\ op'[t].dir = op[t].dir
  BY <1>1, <1>2 DEF CallType
<1>5. op[t].todo = CountersOf(op[t].dir)
  BY <1>1 DEF HeapInv, Locals, Before, BoxLabels, Counting
<1>6. Locals(t)'
  <2>1. CASE n = NULL
    BY <1>1, <1>4, <1>5, <2>1 DEF Locals, NodeLabels, BoxLabels, ShowLabels, Counting
  <2>2. CASE n # NULL
    <3>1. Listed(t)'
      BY <1>1, <1>3, <1>4, <2>2 DEF Listed
    <3>2. QED
      BY <1>1, <1>4, <1>5, <2>2, <3>1 DEF Locals, Counting
  <2>3. QED
    BY <2>1, <2>2
<1>7. Owned'
  BY <1>1 DEF HeapInv, Owned
<1>8. BooksOf(t)'
  <2>1. BooksOf(t)
    BY BooksOfOne DEF HeapInv, Alone
  <2>2. QED
    BY <1>1, <2>1, BooksStay DEF Counting, Clearing, Halfway
<1>9. QED
  BY <1>6, <1>7, <1>8, OneOfBooks DEF Alone

\* A conversation allocated belongs to no box yet, and counts nothing.
LEMMA AllocNodeHeap ==
  ASSUME TypeOK, TypeOK', HeapInv, NEW t \in Threads, Alone(t), Alone(t)', AllocNode(t)
  PROVE  HeapInv'
<1> DEFINE k == Len(nodes) + 1
           new == NewNode(op[t].contact, boxes[op[t].host].msgs)
<1>1. pc[t] = "newnode" /\ pc'[t] = "insert"
      /\ op'[t] = [op[t] EXCEPT !.node = k] /\ boxes' = boxes /\ nodes' = Append(nodes, new)
  BY DEF AllocNode, At, Goto, TypeOK, VarsTyped
<1>2. op[t].host \in Users /\ op[t] \in CallType /\ nodes \in Seq(NodeType)
  BY TouchFacts DEF TypeOK, VarsTyped
<1>3. /\ k \notin DOMAIN nodes /\ k \in Nat
      /\ DOMAIN nodes' = DOMAIN nodes \cup {k}
      /\ nodes'[k] = new /\ \A n \in DOMAIN nodes : nodes'[n] = nodes[n]
  <2> HIDE DEF new
  <2>1. k \notin DOMAIN nodes /\ k \in Nat
    BY <1>2
  <2>2. DOMAIN nodes' = DOMAIN nodes \cup {k}
    BY <1>1, <1>2
  <2>3. nodes'[k] = new
    BY <1>1, <1>2
  <2>4. \A n \in DOMAIN nodes : nodes'[n] = nodes[n]
    BY <1>1, <1>2
  <2>5. QED
    BY <2>1, <2>2, <2>3, <2>4
<1>4. /\ new.next = boxes[op[t].host].msgs /\ new.contexts = <<>>
      /\ new.numMsg = 0 /\ new.numUnread = 0
  BY DEF NewNode
<1> HIDE DEF k, new
<1>5. /\ op'[t].node = k /\ op'[t].host = op[t].host /\ op'[t].todo = op[t].todo
      /\ op'[t].dir = op[t].dir
  BY <1>1, <1>2 DEF CallType
<1>6. op[t].todo = CountersOf(op[t].dir)
  BY <1>1 DEF HeapInv, Locals, Before, BoxLabels, Counting
<1>7. \A u \in Users : \A i \in DOMAIN boxes[u].msgs : boxes[u].msgs[i] \in DOMAIN nodes
  BY DEF TypeOK, HeapOK, Allocated
<1>8. Locals(t)'
  <2>1. \A u \in Users : \A i \in DOMAIN boxes'[u].msgs : boxes'[u].msgs[i] # op'[t].node
    BY <1>1, <1>3, <1>5, <1>7
  <2>2. /\ nodes'[op'[t].node].next = boxes'[op'[t].host].msgs
        /\ nodes'[op'[t].node].numMsg = 0 /\ nodes'[op'[t].node].numUnread = 0
    BY <1>1, <1>3, <1>4, <1>5
  <2>3. op'[t].todo = CountersOf(op'[t].dir)
    BY <1>5, <1>6
  <2>4. QED
    BY <1>1, <2>1, <2>2, <2>3 DEF Locals, NodeLabels, Counting
<1>9. Owned'
  BY <1>1 DEF HeapInv, Owned
<1>10. BooksOf(t)'
  <2>1. BooksOf(t)
    BY BooksOfOne DEF HeapInv, Alone
  <2>2. (\A u \in Users : Even(u)) /\ (\A n \in DOMAIN nodes : Tallied(n))
    BY <1>1, <2>1 DEF BooksOf, Halfway, Counting, Clearing
  <2>3. ASSUME NEW u \in Users PROVE Even(u)'
    <3>1. \A field : Total(u, field)' = Total(u, field)
      BY <1>1, <1>3, <1>7, TotalStays
    <3>2. QED
      BY <1>1, <2>2, <3>1 DEF Even
  <2>4. ASSUME NEW n \in DOMAIN nodes' PROVE Tallied(n)'
    <3>1. CASE n = k
      <4>1. /\ nodes'[n].contexts = <<>> /\ nodes'[n].numMsg = 0 /\ nodes'[n].numUnread = 0
        BY <1>3, <1>4, <3>1
      <4>2. QED
        BY <4>1 DEF Tallied
    <3>2. CASE n \in DOMAIN nodes
      <4>1. nodes'[n] = nodes[n] /\ Tallied(n)
        BY <1>3, <2>2, <3>2
      <4>2. QED
        BY <4>1 DEF Tallied
    <3>3. QED
      BY <1>3, <3>1, <3>2
  <2>5. QED
    BY <1>1, <2>3, <2>4 DEF BooksOf, Counting, Clearing
<1>11. QED
  BY <1>8, <1>9, <1>10, OneOfBooks DEF Alone

\* Linked in, it adds nothing to the counters of its box.
LEMMA InsertNodeHeap ==
  ASSUME TypeOK, TypeOK', HeapInv, NEW t \in Threads, Alone(t), Alone(t)', InsertNode(t)
  PROVE  HeapInv'
<1>1. PICK h \in Users, n \in {op[t].node} : h = op[t].host /\ n = op[t].node
  BY TouchFacts
<1> DEFINE list == boxes[h].msgs
<1>2. /\ pc[t] = "insert" /\ pc'[t] = "link" /\ op' = op /\ nodes' = nodes
      /\ boxes' = [boxes EXCEPT ![h].msgs = <<n>> \o nodes[n].next]
  BY <1>1 DEF InsertNode, At, Goto, TypeOK, VarsTyped
<1>3. /\ \A u \in Users : \A i \in DOMAIN boxes[u].msgs : boxes[u].msgs[i] # n
      /\ nodes[n].next = list /\ nodes[n].numMsg = 0 /\ nodes[n].numUnread = 0
      /\ op[t].todo = CountersOf(op[t].dir)
  BY <1>1, <1>2 DEF HeapInv, Locals, Before, BoxLabels, Counting
<1>4. /\ boxes'[h].msgs = <<n>> \o list
      /\ boxes'[h].numMsg = boxes[h].numMsg /\ boxes'[h].numUnread = boxes[h].numUnread
      /\ \A u \in Users : u # h => boxes'[u] = boxes[u]
  BY <1>2, <1>3 DEF TypeOK, VarsTyped, BoxType
<1>5. /\ list \in Seq(Nat) /\ Len(list) \in Nat /\ DOMAIN list = 1 .. Len(list)
      /\ DOMAIN (<<n>> \o list) = 1 .. (Len(list) + 1) /\ (<<n>> \o list)[1] = n
      /\ \A i \in 1 .. Len(list) : (<<n>> \o list)[i + 1] = list[i]
  <2>1. list \in Seq(Nat)
    BY DEF TypeOK, VarsTyped, BoxType
  <2>2. n \in Nat
    BY <1>1, TouchFacts DEF CallType
  <2> HIDE DEF list
  <2>3. QED
    BY <2>1, <2>2
<1>6. \A i \in DOMAIN boxes'[h].msgs :
        \/ i = 1 /\ boxes'[h].msgs[i] = n
        \/ \E j \in DOMAIN list : i = j + 1 /\ boxes'[h].msgs[i] = list[j]
  <2> HIDE DEF list
  <2>1. ASSUME NEW i \in 1 .. (Len(list) + 1), i # 1
        PROVE  \E j \in DOMAIN list : i = j + 1 /\ (<<n>> \o list)[i] = list[j]
    <3>1. i - 1 \in DOMAIN list /\ i = (i - 1) + 1
      BY <1>5, <2>1
    <3>2. QED
      BY <1>5, <3>1
  <2>2. QED
    BY <1>4, <1>5, <2>1
<1>7. Owned'
  <2>1. SUFFICES ASSUME NEW u \in Users, NEW v \in Users, NEW i \in DOMAIN boxes'[u].msgs, NEW j \in DOMAIN boxes'[v].msgs,
               boxes'[u].msgs[i] = boxes'[v].msgs[j]
        PROVE  u = v /\ i = j
    BY DEF Owned
  <2>2. \A a, b \in Users : \A x \in DOMAIN boxes[a].msgs, y \in DOMAIN boxes[b].msgs :
            boxes[a].msgs[x] = boxes[b].msgs[y] => a = b /\ x = y
    BY DEF HeapInv, Owned
  <2>3. CASE u = h /\ v = h
    <3>1. \A x \in DOMAIN list : list[x] # n
      BY <1>3
    <3>2. \A x, y \in DOMAIN list : list[x] = list[y] => x = y
      BY <2>2
    <3>3. /\ \/ i = 1 /\ boxes'[h].msgs[i] = n
             \/ \E x \in DOMAIN list : i = x + 1 /\ boxes'[h].msgs[i] = list[x]
          /\ \/ j = 1 /\ boxes'[h].msgs[j] = n
             \/ \E x \in DOMAIN list : j = x + 1 /\ boxes'[h].msgs[j] = list[x]
      BY <1>6, <2>3
    <3> HIDE DEF list
    <3>4. boxes'[h].msgs[i] = boxes'[h].msgs[j]
      BY <2>1, <2>3
    <3>5. i = j
      BY <3>1, <3>2, <3>3, <3>4
    <3>6. QED
      BY <2>3, <3>5
  <2>4. CASE u = h /\ v # h
    <3>1. \/ boxes'[u].msgs[i] = n
          \/ \E x \in DOMAIN boxes[h].msgs : boxes'[u].msgs[i] = boxes[h].msgs[x]
      BY <1>6, <2>4
    <3>2. boxes'[v] = boxes[v]
      BY <1>4, <2>4
    <3>3. QED
      BY <1>3, <2>1, <2>2, <2>4, <3>1, <3>2
  <2>5. CASE u # h /\ v = h
    <3>1. \/ boxes'[v].msgs[j] = n
          \/ \E x \in DOMAIN boxes[h].msgs : boxes'[v].msgs[j] = boxes[h].msgs[x]
      BY <1>6, <2>5
    <3>2. boxes'[u] = boxes[u]
      BY <1>4, <2>5
    <3>3. QED
      BY <1>3, <2>1, <2>2, <2>5, <3>1, <3>2
  <2>6. CASE u # h /\ v # h
    BY <1>4, <2>1, <2>2, <2>6
  <2>7. QED
    BY <2>3, <2>4, <2>5, <2>6
<1>8. Locals(t)'
  <2>1. Listed(t)'
    <3>1. 1 \in DOMAIN boxes'[h].msgs /\ boxes'[h].msgs[1] = n
      BY <1>4, <1>5
    <3>2. op'[t].host = h /\ op'[t].node = n
      BY <1>1, <1>2
    <3>3. QED
      BY <3>1, <3>2 DEF Listed
  <2>2. op'[t].todo = CountersOf(op'[t].dir)
    BY <1>2, <1>3
  <2>3. QED
    BY <1>2, <2>1, <2>2 DEF Locals, Counting
<1>9. BooksOf(t)'
  <2>1. BooksOf(t)
    BY BooksOfOne DEF HeapInv, Alone
  <2>2. (\A u \in Users : Even(u)) /\ (\A m \in DOMAIN nodes : Tallied(m))
    BY <1>2, <2>1 DEF BooksOf, Halfway, Counting, Clearing
  <2>3. ASSUME NEW u \in Users PROVE Even(u)'
    <3>1. CASE u # h
      <4>1. \A field : Total(u, field)' = Total(u, field)
        BY <1>2, <1>4, <3>1, TotalStays
      <4>2. QED
        BY <1>4, <2>2, <3>1, <4>1 DEF Even
    <3>2. CASE u = h
      <4>1. /\ Total(h, "numMsg")' = Total(h, "numMsg") + nodes[n]["numMsg"]
            /\ Total(h, "numUnread")' = Total(h, "numUnread") + nodes[n]["numUnread"]
        BY <1>2, <1>4, TotalGrows DEF Fields
      <4>2. Total(h, "numMsg") \in Nat /\ Total(h, "numUnread") \in Nat
        BY TotalTyped DEF Fields
      <4>3. Total(h, "numMsg")' = Total(h, "numMsg") /\ Total(h, "numUnread")' = Total(h, "numUnread")
        BY <1>3, <4>1, <4>2
      <4>4. QED
        BY <1>4, <2>2, <3>2, <4>3 DEF Even
    <3>3. QED
      BY <3>1, <3>2
  <2>4. \A m \in DOMAIN nodes' : Tallied(m)'
    BY <1>2, <2>2 DEF Tallied
  <2>5. QED
    BY <1>2, <2>3, <2>4 DEF BooksOf, Counting, Clearing
<1>10. QED
  BY <1>7, <1>8, <1>9, OneOfBooks DEF Alone

\* The list of contexts a thread has loaded is the one it will store over ...
LEMMA LoadContextsHeap ==
  ASSUME TypeOK, TypeOK', HeapInv, NEW t \in Threads, Alone(t), Alone(t)', LoadContexts(t)
  PROVE  HeapInv'
<1>1. pc[t] = "link" /\ pc'[t] = "linkstore" /\ boxes' = boxes /\ nodes' = nodes
      /\ op'[t] = [op[t] EXCEPT !.tail = nodes[op[t].node].contexts]
  BY DEF LoadContexts, At, Goto, TypeOK, VarsTyped
<1>2. /\ op'[t].node = op[t].node /\ op'[t].host = op[t].host /\ op'[t].todo = op[t].todo
      /\ op'[t].dir = op[t].dir /\ op'[t].tail = nodes[op[t].node].contexts
  BY <1>1, TouchFacts DEF CallType
<1>3. Listed(t) /\ op[t].todo = CountersOf(op[t].dir)
  BY <1>1 DEF HeapInv, Locals, Before, BoxLabels, Counting, NodeLabels
<1>4. Locals(t)'
  <2>1. Listed(t)'
    BY <1>1, <1>2, <1>3 DEF Listed
  <2>2. QED
    BY <1>1, <1>2, <1>3, <2>1 DEF Locals, Counting
<1>5. Owned'
  BY <1>1 DEF HeapInv, Owned
<1>6. BooksOf(t)'
  <2>1. BooksOf(t)
    BY BooksOfOne DEF HeapInv, Alone
  <2>2. QED
    BY <1>1, <2>1, BooksStay DEF Counting, Clearing, Halfway
<1>7. QED
  BY <1>4, <1>5, <1>6, OneOfBooks DEF Alone

\* ... as is the counter it has loaded.
LEMMA LoadCounterHeap ==
  ASSUME TypeOK, TypeOK', HeapInv, NEW t \in Threads, Alone(t), Alone(t)', LoadCounter(t)
  PROVE  HeapInv'
<1>1. pc[t] = "load" /\ pc'[t] = "store" /\ boxes' = boxes /\ nodes' = nodes
      /\ op'[t] = [op[t] EXCEPT !.num = Loaded(t)]
  BY DEF LoadCounter, At, Goto, TypeOK, VarsTyped, Loaded
<1> DEFINE num == Loaded(t)
<1>2. /\ op'[t].node = op[t].node /\ op'[t].host = op[t].host /\ op'[t].todo = op[t].todo
      /\ op'[t].dir = op[t].dir /\ op'[t].num = num /\ op'[t].seen = op[t].seen
  <2> HIDE DEF num
  <2>1. QED
    BY <1>1, TouchFacts DEF CallType, num
<1>3. Listed(t) /\ op[t].todo \in Todos(op[t].dir)
  BY <1>1 DEF HeapInv, Locals, BoxLabels, Counting, NodeLabels
<1>4. Locals(t)'
  <2>1. Listed(t)'
    BY <1>1, <1>2, <1>3 DEF Listed
  <2>2. op'[t].num = Loaded(t)'
    BY <1>1, <1>2 DEF Loaded
  <2>3. op'[t].todo \in Todos(op'[t].dir)
    BY <1>2, <1>3
  <2>4. QED
    BY <1>1, <2>1, <2>2, <2>3 DEF Locals, Before, Counting
<1>5. Owned'
  BY <1>1 DEF HeapInv, Owned
<1>6. BooksOf(t)'
  <2>1. BooksOf(t)
    BY BooksOfOne DEF HeapInv, Alone
  <2>2. QED
    BY <1>1, <1>2, <2>1, BooksStay DEF Counting, Clearing, Halfway
<1>7. QED
  BY <1>4, <1>5, <1>6, OneOfBooks DEF Alone

\* The unread messages a session is about to show are those of the conversation ...
LEMMA ReadUnreadHeap ==
  ASSUME TypeOK, TypeOK', HeapInv, NEW t \in Threads, Alone(t), Alone(t)', ReadUnread(t)
  PROVE  HeapInv'
<1>1. pc[t] = "unread" /\ pc'[t] = "brief" /\ boxes' = boxes /\ nodes' = nodes
      /\ op'[t] = [op[t] EXCEPT !.seen = nodes[op[t].node].numUnread]
  BY DEF ReadUnread, At, Goto, TypeOK, VarsTyped
<1>2. /\ op'[t].node = op[t].node /\ op'[t].host = op[t].host
      /\ op'[t].seen = nodes[op[t].node].numUnread
  BY <1>1, TouchFacts DEF CallType
<1>3. Listed(t)
  BY <1>1 DEF HeapInv, Locals, ShowLabels, NodeLabels
<1>4. Locals(t)'
  <2>1. Listed(t)'
    BY <1>1, <1>2, <1>3 DEF Listed
  <2>2. QED
    BY <1>1, <1>2, <2>1 DEF Locals, Counting, Before, BoxLabels
<1>5. Owned'
  BY <1>1 DEF HeapInv, Owned
<1>6. BooksOf(t)'
  <2>1. BooksOf(t)
    BY BooksOfOne DEF HeapInv, Alone
  <2>2. QED
    BY <1>1, <2>1, BooksStay DEF Counting, Clearing, Halfway
<1>7. QED
  BY <1>4, <1>5, <1>6, OneOfBooks DEF Alone

\* ... and of the box.
LEMMA LoadBoxUnreadHeap ==
  ASSUME TypeOK, TypeOK', HeapInv, NEW t \in Threads, Alone(t), Alone(t)', LoadBoxUnread(t)
  PROVE  HeapInv'
<1>1. pc[t] = "subload" /\ pc'[t] = "substore" /\ boxes' = boxes /\ nodes' = nodes
      /\ op'[t] = [op[t] EXCEPT !.num = boxes[op[t].host].numUnread]
  BY DEF LoadBoxUnread, At, Goto, TypeOK, VarsTyped
<1>2. /\ op'[t].node = op[t].node /\ op'[t].host = op[t].host /\ op'[t].seen = op[t].seen
      /\ op'[t].todo = op[t].todo /\ op'[t].num = boxes[op[t].host].numUnread
  BY <1>1, TouchFacts DEF CallType
<1>3. Listed(t)
  BY <1>1 DEF HeapInv, Locals, ShowLabels, NodeLabels
<1>4. Locals(t)'
  <2>1. Listed(t)'
    BY <1>1, <1>2, <1>3 DEF Listed
  <2>2. QED
    BY <1>1, <1>2, <2>1 DEF Locals, Counting, Before, BoxLabels
<1>5. Owned'
  BY <1>1 DEF HeapInv, Owned
<1>6. BooksOf(t)'
  <2>1. BooksOf(t)
    BY BooksOfOne DEF HeapInv, Alone
  <2>2. QED
    BY <1>1, <1>2, <2>1, BooksStay DEF Counting, Clearing, Halfway
<1>7. QED
  BY <1>4, <1>5, <1>6, OneOfBooks DEF Alone

\* What a conversation that is written does to the totals.
LEMMA NodeWritten ==
  ASSUME TypeOK, TypeOK', Owned, NEW h \in Users, NEW p \in DOMAIN boxes[h].msgs, NEW n,
         boxes[h].msgs[p] = n, boxes' = boxes,
         \A k \in DOMAIN nodes : k # n => nodes'[k] = nodes[k]
  PROVE  \A field \in Fields :
           /\ \A u \in Users : u # h => Total(u, field)' = Total(u, field)
           /\ Total(h, field)' + nodes[n][field] = Total(h, field) + nodes'[n][field]
<1>1. \A u \in Users : \A i \in DOMAIN boxes[u].msgs : boxes[u].msgs[i] \in DOMAIN nodes
  BY DEF TypeOK, HeapOK, Allocated
<1>2. TAKE field \in Fields
<1>3. ASSUME NEW u \in Users, u # h PROVE Total(u, field)' = Total(u, field)
  <2>1. \A i \in DOMAIN boxes[u].msgs : boxes[u].msgs[i] # n
    BY <1>3 DEF Owned
  <2>2. \A i \in DOMAIN boxes[u].msgs : nodes'[boxes[u].msgs[i]] = nodes[boxes[u].msgs[i]]
    BY <1>1, <2>1
  <2>3. QED
    BY <2>2, TotalStays
<1>4. Total(h, field)' + nodes[n][field] = Total(h, field) + nodes'[n][field]
  <2>1. \A i \in DOMAIN boxes[h].msgs : i # p => boxes[h].msgs[i] # n
    BY DEF Owned
  <2>2. \A i \in DOMAIN boxes[h].msgs : i # p => nodes'[boxes[h].msgs[i]] = nodes[boxes[h].msgs[i]]
    BY <1>1, <2>1
  <2>3. QED
    BY <2>2, TotalChanges
<1>5. QED
  BY <1>3, <1>4

\* A message recorded is off the counters by what the thread has left to increment.
LEMMA StoreContextsHeap ==
  ASSUME TypeOK, TypeOK', HeapInv, NEW t \in Threads, Alone(t), Alone(t)', StoreContexts(t)
  PROVE  HeapInv'
<1> DEFINE entry == [io |-> op[t].dir, msg |-> op[t].msg]
<1>1. PICK h \in Users, n \in {op[t].node} : h = op[t].host /\ n = op[t].node
  BY TouchFacts
<1>2. /\ pc[t] = "linkstore" /\ pc'[t] = "load" /\ boxes' = boxes
      /\ nodes' = [nodes EXCEPT ![n].contexts = <<entry>> \o op[t].tail]
      /\ op'[t] = [op[t] EXCEPT !.tail = <<>>]
  BY <1>1 DEF StoreContexts, At, Goto, TypeOK, VarsTyped
<1>3. /\ op'[t].node = n /\ op'[t].host = h /\ op'[t].todo = op[t].todo /\ op'[t].dir = op[t].dir
      /\ op[t].dir \in Direction
  BY <1>1, <1>2, TouchFacts DEF CallType
<1>4. /\ Listed(t) /\ op[t].tail = nodes[n].contexts
      /\ op[t].todo = CountersOf(op[t].dir)
  BY <1>1, <1>2 DEF HeapInv, Locals, NodeLabels, BoxLabels, Before, Counting
<1>5. /\ n \in DOMAIN nodes /\ nodes[n].contexts \in Seq(Entry)
      /\ nodes[n].numMsg \in Nat /\ nodes[n].numUnread \in Nat
  BY <1>1, <1>2, TouchFacts DEF NodeLabels, BoxLabels
<1>6. /\ DOMAIN nodes' = DOMAIN nodes
      /\ \A k \in DOMAIN nodes : k # n => nodes'[k] = nodes[k]
      /\ nodes'[n].contexts = <<entry>> \o nodes[n].contexts
      /\ nodes'[n].numMsg = nodes[n].numMsg /\ nodes'[n].numUnread = nodes[n].numUnread
  <2> HIDE DEF entry
  <2>1. nodes \in Seq(NodeType) /\ nodes[n] \in NodeType
    BY <1>5 DEF TypeOK, VarsTyped
  <2>2. /\ DOMAIN nodes' = DOMAIN nodes
        /\ \A k \in DOMAIN nodes : k # n => nodes'[k] = nodes[k]
        /\ nodes'[n] = [nodes[n] EXCEPT !.contexts = <<entry>> \o nodes[n].contexts]
    BY <1>2, <1>4, <1>5
  <2>3. QED
    BY <2>1, <2>2 DEF NodeType
<1>7. Len(nodes'[n].contexts) = Len(nodes[n].contexts) + 1
  <2> HIDE DEF entry
  <2>1. \A s \in Seq(Entry) : Len(<<entry>> \o s) = Len(s) + 1
    OBVIOUS
  <2>2. QED
    BY <1>5, <1>6, <2>1
<1>8. PICK p \in DOMAIN boxes[h].msgs : boxes[h].msgs[p] = n
  BY <1>1, <1>4 DEF Listed
<1>9. \A u \in Users, field \in Fields : Total(u, field)' = Total(u, field)
  <2>1. ASSUME NEW u \in Users, NEW field \in Fields
        PROVE  \A i \in DOMAIN boxes[u].msgs : nodes'[boxes[u].msgs[i]][field] = nodes[boxes[u].msgs[i]][field]
    <3>1. \A k \in DOMAIN nodes : nodes'[k][field] = nodes[k][field]
      BY <1>6 DEF Fields
    <3>2. QED
      BY <3>1 DEF TypeOK, HeapOK, Allocated
  <2>2. QED
    BY <1>2, <2>1, TotalStays
<1>10. BooksOf(t)
  BY BooksOfOne DEF HeapInv, Alone
<1>11. (\A u \in Users : Even(u)) /\ (\A k \in DOMAIN nodes : Tallied(k))
  BY <1>2, <1>10 DEF BooksOf, Halfway, Counting, Clearing
<1>12. /\ op[t].todo \in Todos(op[t].dir)
       /\ Pending(op[t].todo, NodeMsg) = 1 /\ Pending(op[t].todo, BoxMsg) = 1
       /\ Pending(op[t].todo, NodeUnread) = Pending(op[t].todo, BoxUnread)
       /\ Pending(op[t].todo, BoxUnread) \in {0, 1}
  BY <1>3, <1>4, TodoStarts
<1>13. Locals(t)'
  <2>1. Listed(t)'
    BY <1>1, <1>2, <1>3, <1>4 DEF Listed
  <2>2. op'[t].todo \in Todos(op'[t].dir)
    BY <1>3, <1>12
  <2>3. QED
    BY <1>2, <2>1, <2>2 DEF Locals, Before, Counting
<1>14. Owned'
  BY <1>2 DEF HeapInv, Owned
<1>15. Counts(t)'
  <2>1. \A field : Total(op[t].host, field)' = Total(h, field)'
    BY <1>3, AtHost
  <2>2. /\ Total(op[t].host, "numMsg")' = Total(h, "numMsg")
        /\ Total(op[t].host, "numUnread")' = Total(h, "numUnread")
    BY <1>9, <2>1 DEF Fields
  <2>3. /\ boxes[h].numMsg = Total(h, "numMsg") /\ boxes[h].numUnread = Total(h, "numUnread")
        /\ boxes[h].numUnread <= boxes[h].numMsg
        /\ nodes[n].numMsg = Len(nodes[n].contexts)
        /\ nodes[n].numUnread <= nodes[n].numMsg
    BY <1>5, <1>11 DEF Even, Tallied
  <2>4. boxes[h].numMsg \in Nat /\ boxes[h].numUnread \in Nat
    BY <1>1, TouchFacts
  <2>5. /\ nodes'[n].numMsg + Pending(op'[t].todo, NodeMsg) = Len(nodes'[n].contexts)
        /\ nodes'[n].numUnread + Pending(op'[t].todo, NodeUnread) <= Len(nodes'[n].contexts)
    BY <1>3, <1>5, <1>6, <1>7, <1>12, <2>3
  <2>6. /\ boxes'[h].numMsg + Pending(op'[t].todo, BoxMsg) = Total(h, "numMsg") + Pending(op'[t].todo, NodeMsg)
        /\ boxes'[h].numUnread + Pending(op'[t].todo, BoxUnread) = Total(h, "numUnread") + Pending(op'[t].todo, NodeUnread)
        /\ boxes'[h].numUnread + Pending(op'[t].todo, BoxUnread) <= boxes'[h].numMsg + Pending(op'[t].todo, BoxMsg)
    BY <1>2, <1>3, <1>12, <2>3, <2>4
  <2>7. QED
    BY <1>3, <2>2, <2>5, <2>6 DEF Counts
<1>16. BooksOf(t)'
  <2>1. \A u \in Users : Even(u)'
    BY <1>2, <1>9, <1>11 DEF Even, Fields
  <2>2. \A k \in DOMAIN nodes' : k # n => Tallied(k)'
    BY <1>6, <1>11 DEF Tallied
  <2>3. QED
    BY <1>2, <1>3, <1>15, <2>1, <2>2 DEF BooksOf, Counting, Clearing
<1>17. QED
  BY <1>13, <1>14, <1>16, OneOfBooks DEF Alone

\* The totals are numbers, before and after a step.
LEMMA TotalsTyped == TypeOK => \A u \in Users, field \in Fields : Total(u, field) \in Nat
BY TotalTyped

\* The same after the step.
LEMMA TotalsTypedNext ==
  TypeOK' => (\A u \in Users, field \in Fields : Total(u, field) \in Nat)'
BY TotalsTyped, PTL

\* Marking a conversation read leaves its box off by what the session has seen.
LEMMA BriefMsgContextsHeap ==
  ASSUME TypeOK, TypeOK', HeapInv, NEW t \in Threads, Alone(t), Alone(t)', BriefMsgContexts(t)
  PROVE  HeapInv'
<1>1. PICK h \in Users, n \in {op[t].node} : h = op[t].host /\ n = op[t].node
  BY TouchFacts
<1>2. /\ pc[t] = "brief" /\ pc'[t] = "subload" /\ boxes' = boxes /\ op' = op
      /\ nodes' = [nodes EXCEPT ![n].numUnread = 0]
  BY <1>1 DEF BriefMsgContexts, At, Goto, TypeOK, VarsTyped
<1>3. Listed(t) /\ op[t].seen = nodes[n].numUnread
  BY <1>1, <1>2 DEF HeapInv, Locals, ShowLabels, NodeLabels
<1>4. /\ n \in DOMAIN nodes /\ nodes[n] \in NodeType
      /\ nodes[n].numMsg \in Nat /\ nodes[n].numUnread \in Nat
  BY <1>1, <1>2, TouchFacts DEF NodeLabels, ShowLabels
<1>5. /\ DOMAIN nodes' = DOMAIN nodes
      /\ \A k \in DOMAIN nodes : k # n => nodes'[k] = nodes[k]
      /\ nodes'[n].contexts = nodes[n].contexts
      /\ nodes'[n].numMsg = nodes[n].numMsg /\ nodes'[n].numUnread = 0
  <2>1. nodes \in Seq(NodeType)
    BY DEF TypeOK, VarsTyped
  <2>2. /\ DOMAIN nodes' = DOMAIN nodes
        /\ \A k \in DOMAIN nodes : k # n => nodes'[k] = nodes[k]
        /\ nodes'[n] = [nodes[n] EXCEPT !.numUnread = 0]
    BY <1>2, <1>4, <2>1
  <2>3. QED
    BY <1>4, <2>2 DEF NodeType
<1>6. PICK p \in DOMAIN boxes[h].msgs : boxes[h].msgs[p] = n
  BY <1>1, <1>3 DEF Listed
<1>7. BooksOf(t)
  BY BooksOfOne DEF HeapInv, Alone
<1>8. (\A u \in Users : Even(u)) /\ (\A k \in DOMAIN nodes : Tallied(k))
  BY <1>2, <1>7 DEF BooksOf, Halfway, Counting, Clearing
<1>9. /\ \A u \in Users : u # h =>
            Total(u, "numMsg")' = Total(u, "numMsg") /\ Total(u, "numUnread")' = Total(u, "numUnread")
      /\ Total(h, "numMsg")' + nodes[n]["numMsg"] = Total(h, "numMsg") + nodes'[n]["numMsg"]
      /\ Total(h, "numUnread")' + nodes[n]["numUnread"] = Total(h, "numUnread") + nodes'[n]["numUnread"]
  <2>1. "numMsg" \in Fields /\ "numUnread" \in Fields /\ Owned
    BY DEF Fields, HeapInv
  <2>2. \A field \in Fields :
           /\ \A u \in Users : u # h => Total(u, field)' = Total(u, field)
           /\ Total(h, field)' + nodes[n][field] = Total(h, field) + nodes'[n][field]
    BY <1>2, <1>5, <1>6, <2>1, NodeWritten
  <2>3. QED
    BY <2>1, <2>2
<1>10. Total(h, "numMsg") \in Nat /\ Total(h, "numUnread") \in Nat
  BY TotalTyped DEF Fields
<1>11. Total(h, "numMsg")' \in Nat /\ Total(h, "numUnread")' \in Nat
  BY TotalsTypedNext DEF Fields
<1>12. Clears(t)'
  <2>1. \A field : Total(op[t].host, field)' = Total(h, field)'
    BY <1>1, <1>2, AtHost
  <2>2. /\ Total(h, "numMsg")' = Total(h, "numMsg")
        /\ Total(h, "numUnread") = Total(h, "numUnread")' + nodes[n].numUnread
    BY <1>4, <1>5, <1>9, <1>10, <1>11
  <2>3. /\ boxes[h].numMsg = Total(h, "numMsg") /\ boxes[h].numUnread = Total(h, "numUnread")
        /\ boxes[h].numUnread <= boxes[h].numMsg
    BY <1>8 DEF Even
  <2>4. QED
    BY <1>1, <1>2, <1>3, <2>1, <2>2, <2>3 DEF Clears
<1>13. Locals(t)'
  <2>1. Listed(t)'
    BY <1>2, <1>3 DEF Listed
  <2>2. QED
    BY <1>2, <2>1 DEF Locals, Before, BoxLabels, Counting
<1>14. Owned'
  BY <1>2 DEF HeapInv, Owned
<1>15. BooksOf(t)'
  <2>1. ASSUME NEW u \in Users, u # h PROVE Even(u)'
    BY <1>2, <1>8, <1>9, <2>1 DEF Even
  <2>2. ASSUME NEW k \in DOMAIN nodes' PROVE Tallied(k)'
    <3>1. CASE k = n
      BY <1>4, <1>5, <1>8, <3>1 DEF Tallied
    <3>2. CASE k # n
      BY <1>5, <1>8, <3>2 DEF Tallied
    <3>3. QED
      BY <3>1, <3>2
  <2>3. QED
    BY <1>1, <1>2, <1>12, <2>1, <2>2 DEF BooksOf, Halfway, Counting, Clearing
<1>16. QED
  BY <1>13, <1>14, <1>15, OneOfBooks DEF Alone

\* Subtracting what was seen makes the box add up again.
LEMMA StoreBoxUnreadHeap ==
  ASSUME TypeOK, TypeOK', HeapInv, NEW t \in Threads, Alone(t), Alone(t)', StoreBoxUnread(t),
         \A u \in Users : boxes[u].numMsg < Wrap
  PROVE  HeapInv'
<1>1. PICK h \in Users : h = op[t].host
  BY TouchFacts
<1>2. /\ pc[t] = "substore" /\ pc'[t] = "idle" /\ nodes' = nodes
      /\ boxes' = [boxes EXCEPT ![h].numUnread = (op[t].num + Wrap - op[t].seen) % Wrap]
  BY <1>1 DEF StoreBoxUnread, At, Goto, TypeOK, VarsTyped
<1>3. op[t].num = boxes[h].numUnread
  BY <1>1, <1>2 DEF HeapInv, Locals
<1>4. BooksOf(t)
  BY BooksOfOne DEF HeapInv, Alone
<1>5. /\ boxes[h].numMsg = Total(h, "numMsg")
      /\ boxes[h].numUnread = Total(h, "numUnread") + op[t].seen
      /\ boxes[h].numUnread <= boxes[h].numMsg
  BY <1>1, <1>2, <1>4 DEF BooksOf, Clears, Clearing
<1>6. Total(h, "numUnread") \in Nat /\ op[t].seen \in Nat /\ Wrap \in Nat \ {0}
      /\ boxes[h].numMsg \in Nat /\ boxes[h].numUnread \in Nat
  <2>1. Total(h, "numUnread") \in Nat
    BY TotalTyped DEF Fields
  <2>2. QED
    BY <1>1, <2>1, TouchFacts, WrapAssumption DEF CallType
<1>7. (op[t].num + Wrap - op[t].seen) % Wrap = Total(h, "numUnread")
  <2>1. \A a \in Nat, w \in Nat \ {0} : a < w => (a + w) % w = a
    OBVIOUS
  <2>2. op[t].num + Wrap - op[t].seen = Total(h, "numUnread") + Wrap
    BY <1>3, <1>5, <1>6
  <2>3. Total(h, "numUnread") < Wrap
    BY <1>5, <1>6
  <2>4. QED
    BY <1>6, <2>1, <2>2, <2>3
<1>8. /\ boxes'[h].msgs = boxes[h].msgs /\ boxes'[h].numMsg = boxes[h].numMsg
      /\ boxes'[h].numUnread = Total(h, "numUnread")
      /\ \A u \in Users : u # h => boxes'[u] = boxes[u]
  BY <1>2, <1>7 DEF TypeOK, VarsTyped, BoxType
<1>9. \A u \in Users, field \in Fields : Total(u, field)' = Total(u, field)
  BY <1>2, <1>8, TotalStays
<1>10. \A u \in Users : boxes'[u].msgs = boxes[u].msgs
  BY <1>8
<1>11. Owned'
  BY <1>10 DEF HeapInv, Owned
<1>12. Locals(t)'
  BY <1>2 DEF Locals, NodeLabels, BoxLabels, ShowLabels, Before, Counting
<1>13. BooksOf(t)'
  <2>1. ASSUME NEW u \in Users PROVE Even(u)'
    <3>1. CASE u = h
      <4>1. Total(h, "numUnread") <= Total(h, "numMsg")
        BY <1>5, <1>6
      <4>2. QED
        BY <1>5, <1>8, <1>9, <3>1, <4>1 DEF Even, Fields
    <3>2. CASE u # h
      <4>1. Even(u)
        BY <1>1, <1>4, <3>2 DEF BooksOf
      <4>2. QED
        BY <1>8, <1>9, <3>2, <4>1 DEF Even, Fields
    <3>3. QED
      BY <3>1, <3>2
  <2>2. \A k \in DOMAIN nodes' : Tallied(k)'
    BY <1>2, <1>4 DEF BooksOf, Tallied, Counting
  <2>3. QED
    BY <1>2, <2>1, <2>2 DEF BooksOf, Counting, Clearing
<1>14. QED
  BY <1>11, <1>12, <1>13, OneOfBooks DEF Alone

\* Where the counters of conversation n of box h stand, with todo left to raise.
Standing(h, n, todo) ==
  /\ nodes[n].numMsg + Pending(todo, NodeMsg) = Len(nodes[n].contexts)
  /\ nodes[n].numUnread + Pending(todo, NodeUnread) <= Len(nodes[n].contexts)
  /\ boxes[h].numMsg + Pending(todo, BoxMsg) = Total(h, "numMsg") + Pending(todo, NodeMsg)
  /\ boxes[h].numUnread + Pending(todo, BoxUnread)
       = Total(h, "numUnread") + Pending(todo, NodeUnread)
  /\ boxes[h].numUnread + Pending(todo, BoxUnread)
       <= boxes[h].numMsg + Pending(todo, BoxMsg)

\* A counter is left once or not at all.
LEMMA PendingTyped == \A todo, c : Pending(todo, c) \in Nat
BY DEF Pending

\* Incrementing a counter of the conversation keeps the account, without wrapping.
LEMMA RaiseNode ==
  ASSUME TypeOK, TypeOK', Owned, NEW h \in Users, NEW p \in DOMAIN boxes[h].msgs, NEW n \in DOMAIN nodes,
         boxes[h].msgs[p] = n, NEW todo, NEW rest, NEW c \in {NodeMsg, NodeUnread}, c = Head(todo),
         InOrder(todo, rest), Standing(h, n, todo),
         boxes[h].numMsg + Pending(todo, BoxMsg) < Wrap,
         boxes' = boxes, nodes' = [nodes EXCEPT ![n][c.field] = (nodes[n][c.field] + 1) % Wrap]
  PROVE  /\ Standing(h, n, rest)'
         /\ \A k \in DOMAIN nodes : k # n => nodes'[k] = nodes[k]
         /\ \A u \in Users, field \in Fields : u # h => Total(u, field)' = Total(u, field)
         /\ DOMAIN nodes' = DOMAIN nodes
<1>1. /\ nodes \in Seq(NodeType) /\ nodes[n] \in NodeType /\ boxes[h] \in BoxType
  BY DEF TypeOK, VarsTyped
<1>2. /\ nodes[n].numMsg \in Nat /\ nodes[n].numUnread \in Nat /\ nodes[n].contexts \in Seq(Entry)
      /\ Len(nodes[n].contexts) \in Nat
      /\ boxes[h].numMsg \in Nat /\ boxes[h].numUnread \in Nat
  <2>1. nodes[n].contexts \in Seq(Entry)
    BY <1>1 DEF NodeType
  <2>2. Len(nodes[n].contexts) \in Nat
    BY <2>1
  <2>3. nodes[n].numMsg \in Nat /\ nodes[n].numUnread \in Nat
    BY <1>1 DEF NodeType
  <2>4. boxes[h].numMsg \in Nat /\ boxes[h].numUnread \in Nat
    BY <1>1 DEF BoxType
  <2>5. QED
    BY <2>1, <2>2, <2>3, <2>4
<1> DEFINE value == (nodes[n][c.field] + 1) % Wrap
<1>3. /\ DOMAIN nodes' = DOMAIN nodes
      /\ \A k \in DOMAIN nodes : k # n => nodes'[k] = nodes[k]
      /\ nodes'[n] = [nodes[n] EXCEPT ![c.field] = value]
  BY <1>1
<1>4. /\ "numMsg" \in Fields /\ "numUnread" \in Fields /\ "numMsg" # "numUnread"
      /\ NodeMsg.field = "numMsg" /\ NodeUnread.field = "numUnread"
  BY DEF Fields, NodeMsg, NodeUnread
<1>5. /\ \A u \in Users, field \in Fields : u # h => Total(u, field)' = Total(u, field)
      /\ Total(h, "numMsg")' + nodes[n]["numMsg"] = Total(h, "numMsg") + nodes'[n]["numMsg"]
      /\ Total(h, "numUnread")' + nodes[n]["numUnread"] = Total(h, "numUnread") + nodes'[n]["numUnread"]
  <2>1. \A field \in Fields :
           /\ \A u \in Users : u # h => Total(u, field)' = Total(u, field)
           /\ Total(h, field)' + nodes[n][field] = Total(h, field) + nodes'[n][field]
    BY <1>3, NodeWritten
  <2>2. QED
    BY <1>4, <2>1
<1>6. /\ Total(h, "numMsg") \in Nat /\ Total(h, "numUnread") \in Nat
      /\ nodes[n].numMsg <= Total(h, "numMsg") /\ nodes[n].numUnread <= Total(h, "numUnread")
  BY TotalTyped, <1>4
<1>7. Total(h, "numMsg")' \in Nat /\ Total(h, "numUnread")' \in Nat
  BY TotalsTypedNext, <1>4
<1>8. Wrap \in Nat \ {0} /\ \A a \in Nat : a + 1 < Wrap => (a + 1) % Wrap = a + 1
  <2>1. \A a \in Nat, w \in Nat \ {0} : a + 1 < w => (a + 1) % w = a + 1
    OBVIOUS
  <2>2. QED
    BY <2>1, WrapAssumption
<1>9. Standing(h, n, rest)' <=>
        /\ nodes'[n].numMsg + Pending(rest, NodeMsg) = Len(nodes'[n].contexts)
        /\ nodes'[n].numUnread + Pending(rest, NodeUnread) <= Len(nodes'[n].contexts)
        /\ boxes[h].numMsg + Pending(rest, BoxMsg) = Total(h, "numMsg")' + Pending(rest, NodeMsg)
        /\ boxes[h].numUnread + Pending(rest, BoxUnread)
             = Total(h, "numUnread")' + Pending(rest, NodeUnread)
        /\ boxes[h].numUnread + Pending(rest, BoxUnread)
             <= boxes[h].numMsg + Pending(rest, BoxMsg)
  BY DEF Standing
<1>10. /\ Pending(todo, BoxMsg) \in Nat /\ Pending(todo, NodeMsg) \in Nat
       /\ Pending(todo, BoxUnread) \in Nat /\ Pending(todo, NodeUnread) \in Nat
  BY PendingTyped
<1>11. CASE c = NodeMsg
  <2>1. /\ Pending(todo, NodeMsg) = 1 /\ Pending(rest, NodeMsg) = 0 /\ Pending(todo, BoxMsg) = 1
        /\ Pending(rest, BoxMsg) = Pending(todo, BoxMsg)
        /\ Pending(rest, NodeUnread) = Pending(todo, NodeUnread)
        /\ Pending(rest, BoxUnread) = Pending(todo, BoxUnread)
    BY <1>11, FiguresDiffer DEF InOrder, Figured
  <2>2. value = nodes[n].numMsg + 1
    <3>1. nodes[n].numMsg + 1 < Wrap
      BY <1>2, <1>6, <1>8, <2>1 DEF Standing
    <3>2. QED
      BY <1>2, <1>4, <1>8, <1>11, <3>1
  <2> HIDE DEF value
  <2>3. /\ nodes'[n].numMsg = nodes[n].numMsg + 1 /\ nodes'[n].numUnread = nodes[n].numUnread
        /\ nodes'[n].contexts = nodes[n].contexts
    BY <1>1, <1>3, <1>4, <1>11, <2>2 DEF NodeType
  <2>4. Total(h, "numMsg")' = Total(h, "numMsg") + 1 /\ Total(h, "numUnread")' = Total(h, "numUnread")
    BY SMTT(30), <1>2, <1>5, <1>6, <1>7, <2>3
  <2>5. Standing(h, n, rest)'
    BY <1>2, <1>6, <1>9, <1>10, <2>1, <2>3, <2>4 DEF Standing
  <2>6. QED
    BY <1>3, <1>5, <2>5
<1>12. CASE c = NodeUnread
  <2>1. /\ Pending(todo, NodeUnread) = 1 /\ Pending(rest, NodeUnread) = 0
        /\ Pending(todo, BoxUnread) = 1 /\ Pending(todo, BoxMsg) = 0
        /\ Pending(rest, BoxMsg) = Pending(todo, BoxMsg)
        /\ Pending(rest, NodeMsg) = Pending(todo, NodeMsg)
        /\ Pending(rest, BoxUnread) = Pending(todo, BoxUnread)
    BY <1>12, FiguresDiffer DEF InOrder, Figured
  <2>2. value = nodes[n].numUnread + 1
    <3>1. nodes[n].numUnread + 1 < Wrap
      BY <1>2, <1>6, <1>8, <2>1 DEF Standing
    <3>2. QED
      BY <1>2, <1>4, <1>8, <1>12, <3>1
  <2> HIDE DEF value
  <2>3. /\ nodes'[n].numUnread = nodes[n].numUnread + 1 /\ nodes'[n].numMsg = nodes[n].numMsg
        /\ nodes'[n].contexts = nodes[n].contexts
    BY <1>1, <1>3, <1>4, <1>12, <2>2 DEF NodeType
  <2>4. Total(h, "numUnread")' = Total(h, "numUnread") + 1 /\ Total(h, "numMsg")' = Total(h, "numMsg")
    BY SMTT(30), <1>2, <1>5, <1>6, <1>7, <2>3
  <2>5. Standing(h, n, rest)'
    BY <1>2, <1>6, <1>9, <1>10, <2>1, <2>3, <2>4 DEF Standing
  <2>6. QED
    BY <1>3, <1>5, <2>5
<1>13. QED
  BY <1>11, <1>12

\* So does incrementing one of the box.
LEMMA RaiseBox ==
  ASSUME TypeOK, TypeOK', NEW h \in Users, NEW n \in DOMAIN nodes,
         NEW todo, NEW rest, NEW c \in {BoxMsg, BoxUnread}, c = Head(todo),
         InOrder(todo, rest), Standing(h, n, todo),
         boxes[h].numMsg + Pending(todo, BoxMsg) < Wrap,
         nodes' = nodes, boxes' = [boxes EXCEPT ![h][c.field] = (boxes[h][c.field] + 1) % Wrap]
  PROVE  /\ Standing(h, n, rest)'
         /\ boxes'[h].msgs = boxes[h].msgs
         /\ \A u \in Users : u # h => boxes'[u] = boxes[u]
         /\ \A u \in Users, field \in Fields : Total(u, field)' = Total(u, field)
<1>1. /\ nodes[n] \in NodeType /\ boxes[h] \in BoxType /\ boxes \in [Users -> BoxType]
  BY DEF TypeOK, VarsTyped
<1>2. /\ nodes[n].numMsg \in Nat /\ nodes[n].numUnread \in Nat /\ nodes[n].contexts \in Seq(Entry)
      /\ Len(nodes[n].contexts) \in Nat
      /\ boxes[h].numMsg \in Nat /\ boxes[h].numUnread \in Nat
  BY <1>1 DEF NodeType, BoxType
<1> DEFINE value == (boxes[h][c.field] + 1) % Wrap
<1>3. /\ \A u \in Users : u # h => boxes'[u] = boxes[u]
      /\ boxes'[h] = [boxes[h] EXCEPT ![c.field] = value]
  BY <1>1
<1>4. /\ "numMsg" \in Fields /\ "numUnread" \in Fields /\ "numMsg" # "numUnread"
      /\ BoxMsg.field = "numMsg" /\ BoxUnread.field = "numUnread"
  BY DEF Fields, BoxMsg, BoxUnread
<1>5. boxes'[h].msgs = boxes[h].msgs
  <2> HIDE DEF value
  <2>1. c.field \in {"numMsg", "numUnread"}
    BY <1>4
  <2>2. QED
    BY <1>1, <1>3, <2>1 DEF BoxType
<1>6. \A u \in Users, field \in Fields : Total(u, field)' = Total(u, field)
  <2>1. \A u \in Users : boxes'[u].msgs = boxes[u].msgs
    BY <1>3, <1>5
  <2>2. QED
    BY <2>1, TotalStays
<1>7. Total(h, "numMsg") \in Nat /\ Total(h, "numUnread") \in Nat
  BY TotalTyped, <1>4
<1>8. Wrap \in Nat \ {0} /\ \A a \in Nat : a + 1 < Wrap => (a + 1) % Wrap = a + 1
  <2>1. \A a \in Nat, w \in Nat \ {0} : a + 1 < w => (a + 1) % w = a + 1
    OBVIOUS
  <2>2. QED
    BY <2>1, WrapAssumption
<1>9. Standing(h, n, rest)' <=>
        /\ nodes[n].numMsg + Pending(rest, NodeMsg) = Len(nodes[n].contexts)
        /\ nodes[n].numUnread + Pending(rest, NodeUnread) <= Len(nodes[n].contexts)
        /\ boxes'[h].numMsg + Pending(rest, BoxMsg) = Total(h, "numMsg") + Pending(rest, NodeMsg)
        /\ boxes'[h].numUnread + Pending(rest, BoxUnread)
             = Total(h, "numUnread") + Pending(rest, NodeUnread)
        /\ boxes'[h].numUnread + Pending(rest, BoxUnread)
             <= boxes'[h].numMsg + Pending(rest, BoxMsg)
  BY <1>4, <1>6 DEF Standing
<1>10. /\ Pending(todo, BoxMsg) \in Nat /\ Pending(todo, NodeMsg) \in Nat
       /\ Pending(todo, BoxUnread) \in Nat /\ Pending(todo, NodeUnread) \in Nat
  BY PendingTyped
<1>11. CASE c = BoxMsg
  <2>1. /\ Pending(todo, BoxMsg) = 1 /\ Pending(rest, BoxMsg) = 0 /\ Pending(todo, NodeMsg) = 0
        /\ Pending(rest, NodeMsg) = Pending(todo, NodeMsg)
        /\ Pending(rest, NodeUnread) = Pending(todo, NodeUnread)
        /\ Pending(rest, BoxUnread) = Pending(todo, BoxUnread)
    BY <1>11, FiguresDiffer DEF InOrder, Figured
  <2>2. value = boxes[h].numMsg + 1
    <3>1. boxes[h].numMsg + 1 < Wrap
      BY <2>1
    <3>2. QED
      BY <1>2, <1>4, <1>8, <1>11, <3>1
  <2> HIDE DEF value
  <2>3. boxes'[h].numMsg = boxes[h].numMsg + 1 /\ boxes'[h].numUnread = boxes[h].numUnread
    BY <1>1, <1>3, <1>4, <1>11, <2>2 DEF BoxType
  <2>4. Standing(h, n, rest)'
    BY <1>2, <1>7, <1>9, <1>10, <2>1, <2>3 DEF Standing
  <2>5. QED
    BY <1>3, <1>5, <1>6, <2>4
<1>12. CASE c = BoxUnread
  <2>1. /\ Pending(todo, BoxUnread) = 1 /\ Pending(rest, BoxUnread) = 0
        /\ Pending(todo, NodeUnread) = 0 /\ Pending(todo, BoxMsg) = 0
        /\ Pending(rest, BoxMsg) = Pending(todo, BoxMsg)
        /\ Pending(rest, NodeMsg) = Pending(todo, NodeMsg)
        /\ Pending(rest, NodeUnread) = Pending(todo, NodeUnread)
    BY <1>12, FiguresDiffer DEF InOrder, Figured
  <2>2. value = boxes[h].numUnread + 1
    <3>1. boxes[h].numUnread + 1 < Wrap
      BY <1>2, <1>8, <2>1 DEF Standing
    <3>2. QED
      BY <1>2, <1>4, <1>8, <1>12, <3>1
  <2> HIDE DEF value
  <2>3. boxes'[h].numUnread = boxes[h].numUnread + 1 /\ boxes'[h].numMsg = boxes[h].numMsg
    BY <1>1, <1>3, <1>4, <1>12, <2>2 DEF BoxType
  <2>4. Standing(h, n, rest)'
    BY <1>2, <1>7, <1>9, <1>10, <2>1, <2>3 DEF Standing
  <2>5. QED
    BY <1>3, <1>5, <1>6, <2>4
<1>13. QED
  BY <1>11, <1>12

\* Storing a counter keeps the books of the box and of the conversation.
LEMMA StoreCounterHeap ==
  ASSUME TypeOK, TypeOK', HeapInv, NEW t \in Threads, Alone(t), Alone(t)', StoreCounter(t),
         boxes[op[t].host].numMsg + Pending(op[t].todo, BoxMsg) < Wrap
  PROVE  HeapInv'
<1>1. PICK h \in Users, n \in {op[t].node}, todo \in {op[t].todo},
           rest \in {Tail(op[t].todo)}, c \in {Head(op[t].todo)} :
        /\ h = op[t].host /\ n = op[t].node /\ todo = op[t].todo
        /\ rest = Tail(op[t].todo) /\ c = Head(op[t].todo)
  BY TouchFacts
<1>2. /\ pc[t] = "store"
      /\ pc'[t] = (IF rest = <<>> THEN AfterRecord(t) ELSE "load")
      /\ op'[t] = [op[t] EXCEPT !.todo = rest, !.num = 0]
  BY <1>1 DEF StoreCounter, At, Goto, TypeOK, VarsTyped
<1>3. /\ Listed(t) /\ op[t].num = Loaded(t)
      /\ todo \in Todos(op[t].dir) /\ op[t].dir \in Direction
  BY <1>1, <1>2, TouchFacts DEF HeapInv, Locals, NodeLabels, BoxLabels, Counting, CallType
<1>4. InOrder(todo, rest) /\ (rest = <<>> \/ rest \in Todos(op[t].dir))
  BY <1>1, <1>3, TodoGoesOn
<1>5. c \in {NodeMsg, NodeUnread} \/ c \in {BoxMsg, BoxUnread}
  BY <1>1, <1>4 DEF InOrder, Figured
<1>6. PICK p \in DOMAIN boxes[h].msgs : boxes[h].msgs[p] = n
  BY <1>1, <1>3 DEF Listed
<1>7. n \in DOMAIN nodes
  BY <1>1, <1>2, TouchFacts DEF NodeLabels, BoxLabels
<1>8. BooksOf(t)
  BY BooksOfOne DEF HeapInv, Alone
<1>9. Standing(h, n, todo)
  BY <1>1, <1>2, <1>8 DEF BooksOf, Counts, Standing, Counting
<1>10. boxes[h].numMsg + Pending(todo, BoxMsg) < Wrap
  BY <1>1
<1>11. /\ op'[t].todo = rest /\ op'[t].host = h /\ op'[t].node = n /\ op'[t].dir = op[t].dir
  BY <1>1, <1>2, TouchFacts DEF CallType
<1>12. c \in {NodeMsg, NodeUnread} =>
         boxes' = boxes /\ nodes' = [nodes EXCEPT ![n][c.field] = (nodes[n][c.field] + 1) % Wrap]
  <2>1. ASSUME c \in {NodeMsg, NodeUnread} PROVE c.of = "node"
    BY <2>1 DEF NodeMsg, NodeUnread
  <2>2. QED
    BY <1>1, <1>3, <2>1 DEF StoreCounter, Loaded
<1>13. c \in {BoxMsg, BoxUnread} =>
         nodes' = nodes /\ boxes' = [boxes EXCEPT ![h][c.field] = (boxes[h][c.field] + 1) % Wrap]
  <2>1. ASSUME c \in {BoxMsg, BoxUnread} PROVE c.of = "box"
    BY <2>1 DEF BoxMsg, BoxUnread
  <2>2. QED
    BY <1>1, <1>3, <2>1 DEF StoreCounter, Loaded
<1>14. c = Head(todo)
  BY <1>1
<1>15. /\ Standing(h, n, rest)'
       /\ \A k \in DOMAIN nodes : k # n => nodes'[k] = nodes[k]
       /\ DOMAIN nodes' = DOMAIN nodes
       /\ \A u \in Users : boxes'[u].msgs = boxes[u].msgs
       /\ \A u \in Users : u # h => boxes'[u] = boxes[u]
       /\ \A u \in Users, field \in Fields : u # h => Total(u, field)' = Total(u, field)
  <2>1. CASE c \in {NodeMsg, NodeUnread}
    <3>1. boxes' = boxes /\ nodes' = [nodes EXCEPT ![n][c.field] = (nodes[n][c.field] + 1) % Wrap]
      BY <1>12, <2>1
    <3>2. Owned
      BY DEF HeapInv
    <3>3. QED
      BY <1>4, <1>6, <1>7, <1>9, <1>10, <1>14, <2>1, <3>1, <3>2, RaiseNode
  <2>2. CASE c \in {BoxMsg, BoxUnread}
    <3>1. nodes' = nodes /\ boxes' = [boxes EXCEPT ![h][c.field] = (boxes[h][c.field] + 1) % Wrap]
      BY <1>13, <2>2
    <3>2. /\ Standing(h, n, rest)' /\ boxes'[h].msgs = boxes[h].msgs
          /\ \A u \in Users : u # h => boxes'[u] = boxes[u]
          /\ \A u \in Users, field \in Fields : Total(u, field)' = Total(u, field)
      BY <1>4, <1>7, <1>9, <1>10, <1>14, <2>2, <3>1, RaiseBox
    <3>3. QED
      BY <3>1, <3>2
  <2>3. QED
    BY <1>5, <2>1, <2>2
<1>16. Owned'
  BY <1>15 DEF HeapInv, Owned
<1>17. /\ \A u \in Users : u # h => Even(u)'
       /\ \A k \in DOMAIN nodes' : k # n => Tallied(k)'
  <2>1. \A u \in Users : u # h => Even(u)
    BY <1>1, <1>8 DEF BooksOf
  <2>2. \A k \in DOMAIN nodes : k # n => Tallied(k)
    BY <1>1, <1>8 DEF BooksOf
  <2>3. QED
    BY <1>15, <2>1, <2>2 DEF Even, Tallied, Fields
<1>18. CASE rest = <<>>
  <2>1. pc'[t] \in {"notify", "reset"}
    BY <1>2, <1>18 DEF AfterRecord
  <2>2. /\ Pending(rest, NodeMsg) = 0 /\ Pending(rest, NodeUnread) = 0
        /\ Pending(rest, BoxMsg) = 0 /\ Pending(rest, BoxUnread) = 0
    BY <1>4, <1>18 DEF InOrder, Figured
  <2>3. Even(h)' /\ Tallied(n)'
    <3>1. /\ boxes'[h].numMsg \in Nat /\ boxes'[h].numUnread \in Nat
          /\ nodes'[n].numMsg \in Nat /\ nodes'[n].numUnread \in Nat
      <4>1. nodes' \in Seq(NodeType) /\ n \in DOMAIN nodes' /\ boxes' \in [Users -> BoxType]
        BY <1>7, <1>15 DEF TypeOK, VarsTyped
      <4>2. nodes'[n] \in NodeType /\ boxes'[h] \in BoxType
        BY <4>1
      <4>3. QED
        BY <4>2 DEF BoxType, NodeType
    <3>2. Total(h, "numMsg")' \in Nat /\ Total(h, "numUnread")' \in Nat
      BY TotalsTypedNext DEF Fields
    <3>3. QED
      BY <1>15, <2>2, <3>1, <3>2 DEF Standing, Even, Tallied
  <2>4. BooksOf(t)'
    BY <1>17, <2>1, <2>3 DEF BooksOf, Halfway, Counting, Clearing
  <2>5. Locals(t)'
    BY <2>1 DEF Locals, NodeLabels, BoxLabels, ShowLabels, Before, Counting
  <2>6. QED
    BY <1>16, <2>4, <2>5, OneOfBooks DEF Alone
<1>19. CASE rest # <<>>
  <2>1. pc'[t] = "load"
    BY <1>2, <1>19
  <2>2. Counts(t)'
    <3>1. \A field : Total(op[t].host, field)' = Total(h, field)'
      BY <1>11, AtHost
    <3>2. QED
      BY <1>11, <1>15, <3>1 DEF Standing, Counts
  <2>3. BooksOf(t)'
    BY <1>11, <1>17, <2>1, <2>2 DEF BooksOf, Halfway, Counting, Clearing
  <2>4. Listed(t)'
    BY <1>1, <1>3, <1>11, <1>15 DEF Listed
  <2>5. Locals(t)'
    BY <1>4, <1>11, <1>19, <2>1, <2>4 DEF Locals, Before, Counting
  <2>6. QED
    BY <1>16, <2>3, <2>5, OneOfBooks DEF Alone
<1>20. QED
  BY <1>18, <1>19

-----------------------------------------------------------------------------
(* How much can be counted at all.                                           *)

\* A message on its way to the exchange, a message the sender's box does not count
\* yet, and one the addressee's box counts already.
UnderWay == event = "msg_sent" \/ \E s \in Sessions : pc[s] \in Offering
Uncounted == \E s \in Sessions : pc[s] \in BoxLabels /\ Pending(op[s].todo, BoxMsg) = 1
Counted ==
  \/ pc[Receiver] = "reset"
  \/ pc[Receiver] \in Counting /\ Pending(op[Receiver].todo, BoxMsg) = 0

One(condition) == IF condition THEN 1 ELSE 0

\* A box counts no more messages than were sent and taken.
Tally ==
  /\ numSends <= MaxSends
  /\ Len(handled) + One(UnderWay) <= numSends
  /\ \A u \in Users :
       boxes[u].numMsg + One(Uncounted) <= numSends + Len(handled) + One(Counted)

\* Nothing is sent at the start, and nothing counted.
LEMMA TallyInit == Init => Tally
<1> SUFFICES ASSUME Init PROVE Tally
  OBVIOUS
<1>1. /\ numSends = 0 /\ handled = <<>> /\ event = "undef"
      /\ pc[Receiver] = "start" /\ \A s \in Sessions : pc[s] = "idle"
      /\ \A u \in Users : boxes[u].numMsg = 0
  BY ThreadsAssumption DEF Init, BoxInit, EmptyBox
<1>2. ~ UnderWay /\ ~ Uncounted /\ ~ Counted
  BY <1>1 DEF UnderWay, Uncounted, Counted, Offering, BoxLabels, Counting
<1>3. One(UnderWay) = 0 /\ One(Uncounted) = 0 /\ One(Counted) = 0
  BY <1>2 DEF One
<1>4. Len(handled) = 0
  BY <1>1
<1>5. MaxSends \in Nat
  BY BoundAssumption
<1>6. QED
  BY <1>1, <1>3, <1>4, <1>5 DEF Tally

\* What the tally compares are numbers.
LEMMA Numbers ==
  ASSUME TypeOK
  PROVE  /\ numSends \in Nat /\ Len(handled) \in Nat
         /\ \A u \in Users : boxes[u].numMsg \in Nat /\ boxes[u].numUnread \in Nat
         /\ MaxSends \in Nat /\ Wrap \in Nat \ {0}
<1>1. numSends \in Nat /\ handled \in Seq(Messages)
  BY DEF TypeOK, SlotTyped
<1>2. Len(handled) \in Nat
  BY <1>1
<1>3. \A u \in Users : boxes[u].numMsg \in Nat /\ boxes[u].numUnread \in Nat
  BY DEF TypeOK, VarsTyped, BoxType
<1>4. QED
  BY <1>1, <1>2, <1>3, BoundAssumption, WrapAssumption

\* So no counter wraps.
LEMMA Room ==
  ASSUME SlotInv, Turns, OneAtATime, Tally
  PROVE  /\ \A u \in Users : boxes[u].numMsg < Wrap
         /\ \A t \in Threads : pc[t] = "store" =>
              boxes[op[t].host].numMsg + Pending(op[t].todo, BoxMsg) < Wrap
<1>1. /\ numSends \in Nat /\ Len(handled) \in Nat
      /\ \A u \in Users : boxes[u].numMsg \in Nat
      /\ MaxSends \in Nat /\ Wrap \in Nat /\ 2 * MaxSends < Wrap
      /\ numSends <= MaxSends
  BY Numbers DEF SlotInv, OneAtATime, Tally
<1>2. Counted => UnderWay
  BY DEF SlotInv, SlotHeld, Counted, UnderWay, Counting, BoxLabels
<1>3. ASSUME NEW u \in Users PROVE boxes[u].numMsg < Wrap
  <2>1. CASE Counted
    <3>1. One(Counted) = 1 /\ One(UnderWay) = 1
      BY <1>2, <2>1 DEF One
    <3>2. One(Uncounted) \in {0, 1}
      BY DEF One
    <3>3. QED
      BY <1>1, <3>1, <3>2 DEF Tally
  <2>2. CASE ~ Counted
    <3>1. One(Counted) = 0 /\ One(UnderWay) \in {0, 1} /\ One(Uncounted) \in {0, 1}
      BY <2>2 DEF One
    <3>2. QED
      BY <1>1, <3>1 DEF Tally
  <2>3. QED
    BY <2>1, <2>2
<1>4. ASSUME NEW t \in Threads, pc[t] = "store"
      PROVE  boxes[op[t].host].numMsg + Pending(op[t].todo, BoxMsg) < Wrap
  <2>1. PICK h \in Users : h = op[t].host
    BY TouchFacts DEF SlotInv
  <2>2. CASE Pending(op[t].todo, BoxMsg) = 0
    BY <1>1, <1>3, <2>1, <2>2
  <2>3. CASE Pending(op[t].todo, BoxMsg) = 1
    <3>1. CASE t \in Sessions
      <4>1. UnderWay /\ Uncounted /\ event # "msg_sent"
        BY <1>4, <2>3, <3>1 DEF UnderWay, Uncounted, Turns, Offering, BoxLabels
      <4>2. ~ Counted
        BY <4>1 DEF Counted, SlotInv, SlotHeld, Counting, BoxLabels
      <4>3. One(UnderWay) = 1 /\ One(Uncounted) = 1 /\ One(Counted) = 0
        BY <4>1, <4>2 DEF One
      <4>4. QED
        BY <1>1, <2>1, <2>3, <4>3 DEF Tally
    <3>2. CASE t = Receiver
      <4>1. UnderWay /\ ~ Counted
        BY <1>4, <2>3, <3>2 DEF UnderWay, Counted, SlotInv, SlotHeld, BoxLabels
      <4>2. One(UnderWay) = 1 /\ One(Counted) = 0 /\ One(Uncounted) \in {0, 1}
        BY <4>1 DEF One
      <4>3. QED
        BY <1>1, <2>1, <2>3, <4>2 DEF Tally
    <3>3. QED
      BY <3>1, <3>2, ThreadsAssumption
  <2>4. QED
    BY <2>2, <2>3 DEF Pending
<1>5. QED
  BY <1>3, <1>4

\* The tally stays when nothing is sent, taken or counted.
LEMMA TallyStays ==
  ASSUME TypeOK, Tally, numSends' = numSends, handled' = handled,
         UnderWay' => UnderWay, Uncounted' => Uncounted, Counted => Counted',
         \A u \in Users : boxes'[u].numMsg = boxes[u].numMsg
  PROVE  Tally'
<1>1. /\ numSends \in Nat /\ Len(handled) \in Nat
      /\ \A u \in Users : boxes[u].numMsg \in Nat
  BY Numbers
<1>2. PICK a \in {0, 1}, b \in {0, 1}, c \in {0, 1} :
        a = One(UnderWay) /\ b = One(Uncounted) /\ c = One(Counted)
  BY DEF One
<1>3. PICK d \in {0, 1}, e \in {0, 1}, f \in {0, 1} :
        d = One(UnderWay)' /\ e = One(Uncounted)' /\ f = One(Counted)'
  BY DEF One
<1>4. d <= a /\ e <= b /\ c <= f
  BY <1>2, <1>3 DEF One
<1>5. Tally' <=> /\ numSends <= MaxSends
                 /\ Len(handled) + d <= numSends
                 /\ \A u \in Users : boxes'[u].numMsg + e <= numSends + Len(handled) + f
  BY <1>3 DEF Tally
<1>6. /\ numSends <= MaxSends
      /\ Len(handled) + a <= numSends
      /\ \A u \in Users : boxes[u].numMsg + b <= numSends + Len(handled) + c
  BY <1>2 DEF Tally
<1>7. QED
  BY <1>1, <1>4, <1>5, <1>6

-----------------------------------------------------------------------------
(* Every other step leaves the boxes right, and the tally.                   *)

\* A command starts without touching the boxes.
LEMMA StartHeap ==
  ASSUME TypeOK, HeapInv, NEW s \in Sessions,
         (\E n \in Names : StartSend(s, n)) \/ (\E n \in Shown : StartShow(s, n))
  PROVE  HeapInv'
<1>1. /\ s \in Threads /\ pc \in [Threads -> Labels] /\ op \in [Threads -> CallType]
      /\ UserOf[s] \in Users /\ Shown \subseteq Names
  BY ThreadsAssumption, NamesAssumption, ShownAssumption DEF TypeOK, VarsTyped
<1>2. /\ \A u \in Threads : u # s => pc'[u] = pc[u] /\ op'[u] = op[u]
      /\ pc[s] = "idle" /\ boxes' = boxes /\ nodes' = nodes
  BY <1>1 DEF StartSend, StartShow, OpenConversation, Goto, At
<1>3. pc[s] \notin Touching
  BY <1>2 DEF Touching, BoxLabels, ShowLabels
<1>4. \/ pc'[s] \notin Touching
      \/ pc'[s] = "lookup" /\ op'[s].todo = CountersOf(op'[s].dir)
      \/ pc'[s] = "unread" /\ Listed(s)'
  <2>1. CASE \E n \in Names : StartSend(s, n)
    <3>1. PICK n \in Names : StartSend(s, n)
      BY <2>1
    <3>2. pc'[s] = "lookup" /\ op'[s] = Call(UserOf[s], n, "out", Message(s, n))
      BY <1>1, <3>1 DEF StartSend, Goto
    <3>3. QED
      BY <3>2 DEF Call
  <2>2. CASE \E n \in Shown : StartShow(s, n)
    <3>1. PICK n \in Shown : OpenConversation(s, UserOf[s], n)
      BY <2>2 DEF StartShow
    <3>2. PICK k : k = GetMsgNode(UserOf[s], n)
      OBVIOUS
    <3>3. /\ pc'[s] = IF k = NULL THEN "crashed" ELSE "unread"
          /\ op'[s] = [Call(UserOf[s], n, "out", NoMessage) EXCEPT !.node = k]
      BY <1>1, <3>1, <3>2 DEF OpenConversation, Goto
    <3>4. CASE k = NULL
      BY <3>3, <3>4 DEF Touching, BoxLabels, ShowLabels
    <3>5. CASE k # NULL
      <4>1. \E i \in DOMAIN boxes[UserOf[s]].msgs : boxes[UserOf[s]].msgs[i] = k
        BY <1>1, <3>2, <3>5, GetMsgNodeListed
      <4>2. op'[s].node = k /\ op'[s].host = UserOf[s]
        BY <3>3 DEF Call
      <4>3. QED
        BY <1>2, <3>3, <3>5, <4>1, <4>2 DEF Listed
    <3>6. QED
      BY <3>4, <3>5
  <2>3. QED
    BY <2>1, <2>2
<1>5. QED
  BY <1>2, <1>3, <1>4, HeapKept

\* Handing a message over leaves the boxes alone.
LEMMA NotifyHeap ==
  ASSUME SlotInv, HeapInv, NEW s \in Sessions, SendRefused(s) \/ Notify(s)
  PROVE  HeapInv'
<1>1. /\ s \in Threads /\ s # Receiver /\ Receiver \in Threads
      /\ pc \in [Threads -> Labels] /\ op \in [Threads -> CallType]
  BY ThreadsAssumption DEF SlotInv, TypeOK, VarsTyped
<1>2. boxes' = boxes /\ nodes' = nodes
  BY NotifyMoves
<1>3. \A u \in Threads : u # s => op'[u] = op[u]
  BY NotifyMoves
<1>4. \A u \in Threads : u # s => pc'[u] = pc[u] \/ (pc[u] = "blocked" /\ pc'[u] = "woken")
  BY NotifyMoves, ThreadsAssumption
<1>5. \/ pc'[s] = pc[s] /\ op'[s] = op[s]
      \/ pc[s] \in NotifyLabels /\ pc'[s] \in NotifyLabels \cup {"idle"}
  BY <1>1 DEF SendRefused, Notify, LockToNotify, LockFails, Publish, SlotBusy, Retry, Signal,
     SignalFails, UnlockAfterNotify, UnlockFails, Goto, At, Acquire, Release, Forget, slotVars,
     NotifyLabels
<1>6. Touching \cap (NotifyLabels \cup {"idle", "blocked", "woken"}) = {}
  BY DEF Touching, BoxLabels, ShowLabels, NotifyLabels
<1>7. \A t \in Threads :
        \/ pc'[t] = pc[t] /\ op'[t] = op[t]
        \/ pc[t] \notin Touching /\ pc'[t] \notin Touching
  BY <1>3, <1>4, <1>5, <1>6
<1>8. QED
  BY <1>2, <1>7, HeapKept

\* So does everything the exchange thread does outside them.
LEMMA ExchangeHeap ==
  ASSUME SlotInv, HeapInv, Exchange \/ SpuriousWakeup \/ PostShutdown
  PROVE  HeapInv'
<1>1. /\ Receiver \in Threads
      /\ pc \in [Threads -> Labels] /\ op \in [Threads -> CallType]
  BY ThreadsAssumption DEF SlotInv, TypeOK, VarsTyped
<1>2. boxes' = boxes /\ nodes' = nodes
  BY DEF Exchange, SetReady, ReceiverLocks, ReceiverLockFails, Wait, Receive, Drop, FreeSlot,
         Shutdown, ReceiverUnlocks, ReceiverUnlockFails, SpuriousWakeup, PostShutdown
<1>3. \A u \in Threads : u # Receiver => pc'[u] = pc[u] /\ op'[u] = op[u]
  BY <1>1 DEF Exchange, SetReady, ReceiverLocks, ReceiverLockFails, Wait, Receive, Drop, FreeSlot,
         Shutdown, ReceiverUnlocks, ReceiverUnlockFails, SpuriousWakeup, PostShutdown, Goto, Forget,
         slotVars
<1>4. \/ pc'[Receiver] = pc[Receiver] /\ op'[Receiver] = op[Receiver]
      \/ /\ pc[Receiver] \in ReceiverLabels
         /\ pc'[Receiver] \in ReceiverLabels \/ (Receive /\ pc'[Receiver] = "lookup")
  BY <1>1 DEF Exchange, SetReady, ReceiverLocks, ReceiverLockFails, Wait, Receive, Drop, FreeSlot,
         Shutdown, ReceiverUnlocks, ReceiverUnlockFails, SpuriousWakeup, PostShutdown, Goto, At,
         Forget, ReceiverLabels, slotVars
<1>5. Receive => op'[Receiver].todo = CountersOf(op'[Receiver].dir)
  BY <1>1 DEF Receive, Call
<1>6. Touching \cap ReceiverLabels = {}
  BY DEF Touching, BoxLabels, ShowLabels, ReceiverLabels
<1>7. \A t \in Threads :
        \/ pc'[t] = pc[t] /\ op'[t] = op[t]
        \/ /\ pc[t] \notin Touching
           /\ \/ pc'[t] \notin Touching
              \/ pc'[t] = "lookup" /\ op'[t].todo = CountersOf(op'[t].dir)
  BY <1>3, <1>4, <1>5, <1>6
<1>8. QED
  BY <1>2, <1>7, HeapKept

\* A step in the boxes keeps them right: one lemma for each of its actions.
LEMMA TouchHeap ==
  ASSUME SlotInv, SlotInv', Turns, Turns', Errands, OneAtATime, HeapInv, Tally,
         NEW t \in Threads, Record(t) \/ Show(t)
  PROVE  HeapInv'
<1>1. TypeOK /\ TypeOK'
  BY DEF SlotInv
<1>2. Alone(t) /\ Alone(t)'
  <2>1. \A u \in Threads : u # t => pc'[u] = pc[u] /\ pc[u] \notin Touching
    BY TouchSteps
  <2>2. QED
    BY <2>1 DEF Alone
<1>3. ~ AllocFails(t) /\ ~ BriefFails(t)
  BY DEF AllocFails, BriefFails, OneAtATime
<1>4. CASE FindNode(t)
  BY <1>1, <1>2, <1>4, FindNodeHeap
<1>5. CASE AllocNode(t)
  BY <1>1, <1>2, <1>5, AllocNodeHeap
<1>6. CASE InsertNode(t)
  BY <1>1, <1>2, <1>6, InsertNodeHeap
<1>7. CASE LoadContexts(t)
  BY <1>1, <1>2, <1>7, LoadContextsHeap
<1>8. CASE StoreContexts(t)
  BY <1>1, <1>2, <1>8, StoreContextsHeap
<1>9. CASE LoadCounter(t)
  BY <1>1, <1>2, <1>9, LoadCounterHeap
<1>10. CASE StoreCounter(t)
  <2>1. boxes[op[t].host].numMsg + Pending(op[t].todo, BoxMsg) < Wrap
    BY <1>10, Room DEF StoreCounter, At
  <2>2. QED
    BY <1>1, <1>2, <1>10, <2>1, StoreCounterHeap
<1>11. CASE ReadUnread(t)
  BY <1>1, <1>2, <1>11, ReadUnreadHeap
<1>12. CASE BriefMsgContexts(t)
  BY <1>1, <1>2, <1>12, BriefMsgContextsHeap
<1>13. CASE LoadBoxUnread(t)
  BY <1>1, <1>2, <1>13, LoadBoxUnreadHeap
<1>14. CASE StoreBoxUnread(t)
  <2>1. \A u \in Users : boxes[u].numMsg < Wrap
    BY Room
  <2>2. QED
    BY <1>1, <1>2, <1>14, <2>1, StoreBoxUnreadHeap
<1>15. QED
  BY <1>3, <1>4, <1>5, <1>6, <1>7, <1>8, <1>9, <1>10, <1>11, <1>12, <1>13, <1>14 DEF Record, Show

\* A message sent is one not counted yet.
LEMMA StartSendTally ==
  ASSUME TypeOK, Tally, OneAtATime, NEW s \in Sessions, NEW n \in Names, StartSend(s, n)
  PROVE  Tally'
<1>1. /\ numSends \in Nat /\ Len(handled) \in Nat /\ MaxSends \in Nat
      /\ \A u \in Users : boxes[u].numMsg \in Nat
  BY Numbers
<1>2. /\ numSends' = numSends + 1 /\ numSends < MaxSends /\ handled' = handled /\ boxes' = boxes
      /\ event' = event /\ AtRest
  BY DEF StartSend, MayStart, OneAtATime
<1>3. pc'[Receiver] = pc[Receiver] /\ op'[Receiver] = op[Receiver]
  BY ThreadsAssumption DEF StartSend, Goto, TypeOK, VarsTyped
<1>4. /\ One(UnderWay) = 0
  BY <1>2 DEF AtRest, UnderWay, Offering, BoxLabels, One
<1>5. One(Uncounted) = 0
  BY <1>2 DEF AtRest, Uncounted, BoxLabels, One
<1>6. One(Counted)' = One(Counted) /\ One(Counted) \in {0, 1}
  BY <1>3 DEF Counted, One
<1>7. One(UnderWay)' \in {0, 1} /\ One(Uncounted)' \in {0, 1}
  BY DEF One
<1>8. Tally' <=> /\ numSends' <= MaxSends
                 /\ Len(handled) + One(UnderWay)' <= numSends'
                 /\ \A u \in Users :
                      boxes[u].numMsg + One(Uncounted)' <= numSends' + Len(handled) + One(Counted)
  BY <1>2, <1>6 DEF Tally
<1>9. /\ Len(handled) + 0 <= numSends
      /\ \A u \in Users : boxes[u].numMsg + 0 <= numSends + Len(handled) + One(Counted)
  BY <1>4, <1>5 DEF Tally
<1> DEFINE a == One(UnderWay)'
           b == One(Uncounted)'
           c == One(Counted)
<1> HIDE DEF a, b, c
<1>10. /\ numSends' <= MaxSends
       /\ Len(handled) + a <= numSends'
       /\ \A u \in Users : boxes[u].numMsg + b <= numSends' + Len(handled) + c
  BY <1>1, <1>2, <1>6, <1>7, <1>9 DEF a, b, c
<1>11. QED
  BY <1>8, <1>10 DEF a, b, c

\* Showing a conversation sends nothing.
LEMMA StartShowTally ==
  ASSUME TypeOK, Tally, NEW s \in Sessions, NEW n \in Shown, StartShow(s, n)
  PROVE  Tally'
<1>1. /\ s \in Threads /\ s # Receiver /\ Receiver \in Threads
      /\ \A u \in Sessions : u \in Threads
      /\ pc \in [Threads -> Labels] /\ op \in [Threads -> CallType]
  BY ThreadsAssumption DEF TypeOK, VarsTyped
<1>2. /\ numSends' = numSends /\ handled' = handled /\ event' = event /\ boxes' = boxes
      /\ \A u \in Threads : u # s => pc'[u] = pc[u] /\ op'[u] = op[u]
      /\ pc'[s] \in {"unread", "crashed"}
  BY <1>1 DEF StartShow, OpenConversation, Goto, slotVars
<1>3. UnderWay' => UnderWay
  BY <1>1, <1>2 DEF UnderWay, Offering, BoxLabels
<1>4. Uncounted' => Uncounted
  BY <1>1, <1>2 DEF Uncounted, BoxLabels
<1>5. Counted => Counted'
  BY <1>1, <1>2 DEF Counted
<1>6. QED
  BY <1>2, <1>3, <1>4, <1>5, TallyStays

\* A message refused was sent, and is never counted.
LEMMA SendRefusedTally ==
  ASSUME TypeOK, Tally, NEW s \in Sessions, SendRefused(s)
  PROVE  Tally'
<1>1. /\ numSends \in Nat /\ Len(handled) \in Nat /\ MaxSends \in Nat
      /\ \A u \in Users : boxes[u].numMsg \in Nat
  BY Numbers
<1>2. numSends' = numSends + 1 /\ numSends < MaxSends /\ UNCHANGED <<pc, op, boxes, event, handled>>
  BY DEF SendRefused
<1>3. PICK a \in {0, 1}, b \in {0, 1}, c \in {0, 1} :
        /\ a = One(UnderWay) /\ b = One(Uncounted) /\ c = One(Counted)
        /\ a = One(UnderWay)' /\ b = One(Uncounted)' /\ c = One(Counted)'
  <2>1. /\ One(UnderWay)' = One(UnderWay) /\ One(Uncounted)' = One(Uncounted)
        /\ One(Counted)' = One(Counted)
    BY <1>2 DEF UnderWay, Uncounted, Counted, One
  <2>2. One(UnderWay) \in {0, 1} /\ One(Uncounted) \in {0, 1} /\ One(Counted) \in {0, 1}
    BY DEF One
  <2>3. QED
    BY <2>1, <2>2
<1>4. Tally' <=> /\ numSends' <= MaxSends
                 /\ Len(handled) + a <= numSends'
                 /\ \A u \in Users : boxes[u].numMsg + b <= numSends' + Len(handled) + c
  BY <1>2, <1>3 DEF Tally
<1>5. /\ Len(handled) + a <= numSends
      /\ \A u \in Users : boxes[u].numMsg + b <= numSends + Len(handled) + c
  BY <1>3 DEF Tally
<1>6. QED
  BY <1>1, <1>2, <1>4, <1>5

\* A message handed over stays under way.
LEMMA NotifyTally ==
  ASSUME SlotInv, Tally, NEW s \in Sessions, Notify(s)
  PROVE  Tally'
<1>1. /\ s \in Threads /\ s # Receiver /\ Receiver \in Threads
      /\ \A u \in Sessions : u \in Threads
      /\ pc \in [Threads -> Labels] /\ op \in [Threads -> CallType]
  BY ThreadsAssumption DEF SlotInv, TypeOK, VarsTyped
<1>2. numSends' = numSends /\ handled' = handled /\ boxes' = boxes
  BY DEF Notify, LockToNotify, LockFails, Publish, SlotBusy, Retry, Signal,
     SignalFails, UnlockAfterNotify, UnlockFails, slotVars
<1>3. /\ \A u \in Sessions : u # s => pc'[u] = pc[u] /\ op'[u] = op[u]
      /\ op'[Receiver] = op[Receiver]
      /\ pc'[Receiver] = pc[Receiver] \/ (pc[Receiver] = "blocked" /\ pc'[Receiver] = "woken")
  BY <1>1, NotifyMoves
<1>4. /\ pc'[s] \in NotifyLabels \cup {"idle"}
      /\ pc'[s] \in Offering \/ event' = "msg_sent" => pc[s] \in Offering \/ event = "msg_sent"
  BY <1>1 DEF Notify, LockToNotify, LockFails, Publish, SlotBusy, Retry, Signal,
     SignalFails, UnlockAfterNotify, UnlockFails, Goto, At, Acquire, Release, Forget, slotVars,
     NotifyLabels, Offering, BoxLabels
<1>5. UnderWay' => UnderWay
  BY <1>1, <1>3, <1>4 DEF UnderWay
<1>6. Uncounted' => Uncounted
  <2>1. pc'[s] \notin BoxLabels
    BY <1>4 DEF NotifyLabels, BoxLabels
  <2>2. QED
    BY <1>3, <2>1 DEF Uncounted
<1>7. Counted => Counted'
  BY <1>3 DEF Counted, Counting
<1>8. QED
  BY <1>2, <1>5, <1>6, <1>7, TallyStays DEF SlotInv

\* A message taken out of the slot is under way no more.
LEMMA ExchangeTally ==
  ASSUME SlotInv, Turns, Tally, Exchange \/ SpuriousWakeup \/ PostShutdown
  PROVE  Tally'
<1>1. /\ Receiver \in Threads /\ Receiver \notin Sessions
      /\ \A u \in Sessions : u \in Threads
      /\ pc \in [Threads -> Labels] /\ op \in [Threads -> CallType]
      /\ TypeOK
  BY ThreadsAssumption DEF SlotInv, TypeOK, VarsTyped
<1>2. /\ numSends' = numSends /\ boxes' = boxes
      /\ \A u \in Sessions : pc'[u] = pc[u] /\ op'[u] = op[u]
      /\ event' = "msg_sent" => event = "msg_sent"
  BY <1>1 DEF Exchange, SetReady, ReceiverLocks, ReceiverLockFails, Wait, Receive, Drop, FreeSlot,
         Shutdown, ReceiverUnlocks, ReceiverUnlockFails, SpuriousWakeup, PostShutdown, Goto, Forget,
         slotVars
<1>3. UnderWay' => UnderWay
  BY <1>2 DEF UnderWay
<1>4. Uncounted' <=> Uncounted
  BY <1>2 DEF Uncounted
<1>5. CASE FreeSlot
  <2>1. /\ pc[Receiver] = "reset" /\ pc'[Receiver] = "check" /\ event' = "undef"
        /\ handled' = Append(handled, payload)
    BY <1>1, <1>5 DEF FreeSlot, At, Goto
  <2>2. handled \in Seq(Messages) /\ payload \in Messages
    BY DEF SlotInv, TypeOK, SlotTyped
  <2>3. Len(handled') = Len(handled) + 1
    BY <2>1, <2>2
  <2>4. event = "msg_sent"
    BY <2>1 DEF SlotInv, SlotHeld
  <2>5. UnderWay /\ ~ UnderWay'
    BY <1>2, <2>1, <2>4 DEF UnderWay, Turns
  <2>6. Counted /\ ~ Counted'
    BY <2>1 DEF Counted, Counting
  <2>7. PICK b \in {0, 1} : b = One(Uncounted) /\ b = One(Uncounted)'
    BY <1>4 DEF One
  <2>8. One(UnderWay) = 1 /\ One(UnderWay)' = 0 /\ One(Counted) = 1 /\ One(Counted)' = 0
    BY <2>5, <2>6 DEF One
  <2>9. Tally' <=> /\ numSends <= MaxSends
                   /\ (Len(handled) + 1) + 0 <= numSends
                   /\ \A u \in Users : boxes[u].numMsg + b <= numSends + (Len(handled) + 1) + 0
    BY <1>2, <2>3, <2>7, <2>8 DEF Tally
  <2>10. /\ numSends <= MaxSends
         /\ Len(handled) + 1 <= numSends
         /\ \A u \in Users : boxes[u].numMsg + b <= numSends + Len(handled) + 1
    BY <2>7, <2>8 DEF Tally
  <2>11. /\ numSends \in Nat /\ Len(handled) \in Nat
         /\ \A u \in Users : boxes[u].numMsg \in Nat
    BY <1>1, Numbers
  <2>12. QED
    BY <2>9, <2>10, <2>11
<1>6. CASE ~ FreeSlot
  <2>1. handled' = handled
    BY <1>6 DEF Exchange, SetReady, ReceiverLocks, ReceiverLockFails, Wait, Receive, Drop,
         Shutdown, ReceiverUnlocks, ReceiverUnlockFails, SpuriousWakeup, PostShutdown, slotVars
  <2>2. \/ pc[Receiver] \notin BoxLabels \cup {"reset"}
        \/ pc'[Receiver] = pc[Receiver] /\ op'[Receiver] = op[Receiver]
    BY <1>1, <1>6 DEF Exchange, SetReady, ReceiverLocks, ReceiverLockFails, Wait, Receive, Drop,
         Shutdown, ReceiverUnlocks, ReceiverUnlockFails, SpuriousWakeup, PostShutdown, Goto, At,
         BoxLabels
  <2>3. Counted => Counted'
    BY <2>2 DEF Counted, Counting, BoxLabels
  <2>4. QED
    BY <1>1, <1>2, <1>3, <1>4, <2>1, <2>3, TallyStays
<1>7. QED
  BY <1>5, <1>6

\* What storing a counter leaves to store, and what it makes of the count of messages.
LEMMA StoreCounterCounts ==
  ASSUME SlotInv, Turns, OneAtATime, HeapInv, Tally, NEW t \in Threads, StoreCounter(t)
  PROVE  /\ InOrder(op[t].todo, Tail(op[t].todo)) /\ op'[t].todo = Tail(op[t].todo)
         /\ pc[t] = "store"
         /\ pc'[t] = "load" \/ (pc'[t] = AfterRecord(t) /\ Pending(Tail(op[t].todo), BoxMsg) = 0)
         /\ \A u \in Users :
              \/ boxes'[u].numMsg = boxes[u].numMsg
              \/ Head(op[t].todo) = BoxMsg /\ boxes'[u].numMsg = boxes[u].numMsg + 1
<1>1. TypeOK /\ op[t] \in CallType
  BY DEF SlotInv, TypeOK, VarsTyped
<1>2. /\ pc[t] = "store" /\ op'[t] = [op[t] EXCEPT !.todo = Tail(op[t].todo), !.num = 0]
      /\ pc'[t] = IF Tail(op[t].todo) = <<>> THEN AfterRecord(t) ELSE "load"
  BY <1>1 DEF StoreCounter, At, Goto, TypeOK, VarsTyped
<1>3. op[t].num = Loaded(t) /\ op[t].todo \in Todos(op[t].dir) /\ op[t].dir \in Direction
  BY <1>1, <1>2 DEF HeapInv, Locals, Counting, CallType
<1>4. InOrder(op[t].todo, Tail(op[t].todo))
  BY <1>3, TodoGoesOn
<1>5. op'[t].todo = Tail(op[t].todo)
  BY <1>1, <1>2 DEF CallType
<1>6. ASSUME NEW u \in Users
      PROVE  \/ boxes'[u].numMsg = boxes[u].numMsg
             \/ Head(op[t].todo) = BoxMsg /\ boxes'[u].numMsg = boxes[u].numMsg + 1
  <2>1. PICK h \in Users, c \in Figured : h = op[t].host /\ c = Head(op[t].todo)
    BY <1>1, <1>4, TouchFacts DEF InOrder
  <2>2. boxes \in [Users -> BoxType] /\ boxes[h] \in BoxType /\ boxes[h].numMsg \in Nat
    BY <1>1 DEF TypeOK, VarsTyped, BoxType
  <2>3. CASE c \in {NodeMsg, NodeUnread}
    <3>1. c.of = "node"
      BY <2>3 DEF NodeMsg, NodeUnread
    <3>2. QED
      BY <2>1, <3>1 DEF StoreCounter
  <2>4. CASE c = BoxUnread
    <3>1. c.of = "box" /\ c.field = "numUnread"
      BY <2>4 DEF BoxUnread
    <3>2. PICK v : boxes' = [boxes EXCEPT ![h]["numUnread"] = v]
      BY <2>1, <3>1 DEF StoreCounter
    <3>3. boxes'[u].numMsg = boxes[u].numMsg
      BY <2>2, <3>2 DEF BoxType
    <3>4. QED
      BY <3>3
  <2>5. CASE c = BoxMsg
    <3>1. c.of = "box" /\ c.field = "numMsg"
      BY <2>5 DEF BoxMsg
    <3>2. op[t].num = boxes[h].numMsg
      BY <1>3, <2>1, <3>1 DEF Loaded
    <3>3. boxes[h].numMsg + 1 < Wrap
      <4>1. Pending(op[t].todo, BoxMsg) = 1
        BY <1>4, <2>1, <2>5 DEF InOrder
      <4>2. QED
        BY <1>2, <2>1, <4>1, Room
    <3>4. (op[t].num + 1) % Wrap = boxes[h].numMsg + 1
      <4>1. \A a \in Nat, w \in Nat \ {0} : a + 1 < w => (a + 1) % w = a + 1
        OBVIOUS
      <4>2. QED
        BY <2>2, <3>2, <3>3, <4>1, WrapAssumption
    <3>5. PICK v : v = boxes[h].numMsg + 1 /\ boxes' = [boxes EXCEPT ![h]["numMsg"] = v]
      BY <2>1, <3>1, <3>4 DEF StoreCounter
    <3>6. u # h => boxes'[u] = boxes[u]
      BY <2>2, <3>5
    <3>7. boxes'[h].numMsg = v
      BY <2>2, <3>5 DEF BoxType
    <3>8. QED
      BY <2>1, <2>5, <3>5, <3>6, <3>7
  <2>6. QED
    BY <2>3, <2>4, <2>5 DEF Figured
<1>7. pc'[t] = "load" \/ (pc'[t] = AfterRecord(t) /\ Pending(Tail(op[t].todo), BoxMsg) = 0)
  BY <1>2, <1>4 DEF InOrder, Figured
<1>8. QED
  BY <1>2, <1>4, <1>5, <1>6, <1>7

\* A step in the boxes other than StoreCounter counts nothing.
LEMMA OthersCountNothing ==
  ASSUME TypeOK, OneAtATime, NEW t \in Threads, Record(t) \/ Show(t), ~ StoreCounter(t)
  PROVE  /\ \A u \in Users : boxes'[u].numMsg = boxes[u].numMsg
         /\ pc'[t] \in BoxLabels => pc[t] \in BoxLabels /\ op'[t].todo = op[t].todo
         /\ pc[t] \in Counting => pc'[t] \in Counting /\ op'[t].todo = op[t].todo
         /\ pc[t] # "reset"
<1>1. /\ pc \in [Threads -> Labels] /\ op \in [Threads -> CallType] /\ op[t] \in CallType
      /\ boxes \in [Users -> BoxType]
  BY DEF TypeOK, VarsTyped
<1>2. ~ AllocFails(t) /\ ~ BriefFails(t)
  BY DEF AllocFails, BriefFails, OneAtATime
<1>3. /\ pc'[t] \in BoxLabels => pc[t] \in BoxLabels /\ op'[t].todo = op[t].todo
      /\ pc[t] \in Counting => pc'[t] \in Counting /\ op'[t].todo = op[t].todo
      /\ pc[t] # "reset"
  BY <1>1, <1>2 DEF Record, FindNode, AllocNode, InsertNode, LoadContexts, StoreContexts,
              LoadCounter, Show, ReadUnread, BriefMsgContexts, LoadBoxUnread,
              StoreBoxUnread, Goto, At, Forget, BoxLabels, Counting, CallType
<1>4. ASSUME NEW u \in Users PROVE boxes'[u].numMsg = boxes[u].numMsg
  <2>1. \/ boxes' = boxes
        \/ \E h, v : boxes' = [boxes EXCEPT ![h].msgs = v]
        \/ \E h, v : boxes' = [boxes EXCEPT ![h].numUnread = v]
    BY <1>2 DEF Record, FindNode, AllocNode, InsertNode, LoadContexts, StoreContexts,
              LoadCounter, Show, ReadUnread, BriefMsgContexts, LoadBoxUnread, StoreBoxUnread
  <2>2. boxes[u] \in BoxType
    BY <1>1
  <2>3. CASE \E h, v : boxes' = [boxes EXCEPT ![h].msgs = v]
    <3>1. PICK h, v : boxes' = [boxes EXCEPT ![h].msgs = v]
      BY <2>3
    <3>2. boxes'[u] = boxes[u] \/ boxes'[u] = [boxes[u] EXCEPT !.msgs = v]
      BY <1>1, <3>1
    <3>3. QED
      BY <2>2, <3>2 DEF BoxType
  <2>4. CASE \E h, v : boxes' = [boxes EXCEPT ![h].numUnread = v]
    <3>1. PICK h, v : boxes' = [boxes EXCEPT ![h].numUnread = v]
      BY <2>4
    <3>2. boxes'[u] = boxes[u] \/ boxes'[u] = [boxes[u] EXCEPT !.numUnread = v]
      BY <1>1, <3>1
    <3>3. QED
      BY <2>2, <3>2 DEF BoxType
  <2>5. QED
    BY <2>1, <2>3, <2>4
<1>5. QED
  BY <1>3, <1>4

\* Counting a message in a box uses up one sent or one taken.
LEMMA TouchTally ==
  ASSUME SlotInv, Turns, Errands, OneAtATime, HeapInv, Tally,
         NEW t \in Threads, Record(t) \/ Show(t), UNCHANGED slotVars
  PROVE  Tally'
<1>1. /\ Receiver \in Threads /\ Receiver \notin Sessions
      /\ \A u \in Sessions : u \in Threads
      /\ t \in Sessions \/ t = Receiver
      /\ TypeOK
  BY ThreadsAssumption DEF SlotInv
<1>2. numSends' = numSends /\ handled' = handled /\ event' = event
  BY DEF slotVars
<1>3. /\ pc[t] \in Touching
      /\ \A u \in Threads : u # t => pc'[u] = pc[u] /\ op'[u] = op[u] /\ pc[u] \notin Touching
      /\ pc[t] \in BoxLabels => pc'[t] \in BoxLabels \cup {IF op[t].dir = "out" THEN "notify" ELSE "reset"}
      /\ pc[t] \in ShowLabels => pc'[t] \in ShowLabels \cup {"idle"}
  BY TouchSteps
<1>4. pc'[t] \in Offering => pc[t] \in Offering
  BY <1>3 DEF Offering, Touching, BoxLabels, ShowLabels
<1>5. UnderWay' => UnderWay
  BY <1>1, <1>2, <1>3, <1>4 DEF UnderWay
<1>6. t = Receiver => op[t].dir = "in" /\ pc[t] \in BoxLabels
  BY <1>3 DEF Errands, Turns, Touching, BoxLabels, ShowLabels, ReceiverLabels
<1>7. t \in Sessions /\ pc[t] \in BoxLabels => op[t].dir = "out"
  BY DEF Errands, Offering
<1>8. CASE ~ StoreCounter(t)
  <2>1. /\ \A u \in Users : boxes'[u].numMsg = boxes[u].numMsg
        /\ pc'[t] \in BoxLabels => pc[t] \in BoxLabels /\ op'[t].todo = op[t].todo
        /\ pc[t] \in Counting => pc'[t] \in Counting /\ op'[t].todo = op[t].todo
        /\ pc[t] # "reset"
    BY <1>1, <1>8, OthersCountNothing
  <2>2. Uncounted' => Uncounted
    BY <1>1, <1>3, <2>1 DEF Uncounted
  <2>3. Counted => Counted'
    BY <1>1, <1>3, <2>1 DEF Counted
  <2>4. QED
    BY <1>1, <1>2, <1>5, <2>1, <2>2, <2>3, TallyStays
<1>9. CASE StoreCounter(t)
  <2>1. PICK todo, rest :
         /\ todo = op[t].todo /\ rest = op'[t].todo
         /\ InOrder(todo, rest) /\ pc[t] = "store"
         /\ pc'[t] = "load" \/ (pc'[t] = AfterRecord(t) /\ Pending(rest, BoxMsg) = 0)
         /\ \A u \in Users :
              \/ boxes'[u].numMsg = boxes[u].numMsg
              \/ Head(todo) = BoxMsg /\ boxes'[u].numMsg = boxes[u].numMsg + 1
    BY <1>9, StoreCounterCounts
  <2>2. pc[t] \in BoxLabels /\ pc[t] \in Counting
    BY <2>1 DEF BoxLabels, Counting
  <2>3. t = Receiver => pc'[t] \in {"load", "reset"}
    BY <1>6, <2>1 DEF AfterRecord
  <2>4. t \in Sessions => pc'[t] \in {"load", "notify"}
    BY <1>7, <2>1, <2>2 DEF AfterRecord
  <2>5. Pending(rest, BoxMsg) = (IF Head(todo) = BoxMsg THEN 0 ELSE Pending(todo, BoxMsg))
        /\ (Head(todo) = BoxMsg => Pending(todo, BoxMsg) = 1)
    BY <2>1 DEF InOrder, Figured
  <2>6. CASE Head(todo) # BoxMsg
    <3>1. \A u \in Users : boxes'[u].numMsg = boxes[u].numMsg
      BY <2>1, <2>6
    <3>2. Uncounted' => Uncounted
      BY <1>1, <1>3, <2>1, <2>2, <2>5, <2>6 DEF Uncounted
    <3>3. Counted => Counted'
      BY <1>1, <1>3, <2>1, <2>3, <2>5, <2>6 DEF Counted, Counting
    <3>4. QED
      BY <1>1, <1>2, <1>5, <3>1, <3>2, <3>3, TallyStays
  <2>7. CASE Head(todo) = BoxMsg
    <3>1. /\ numSends \in Nat /\ Len(handled) \in Nat
          /\ \A u \in Users : boxes[u].numMsg \in Nat
      BY <1>1, Numbers
    <3>2. PICK a \in {0, 1}, b \in {0, 1}, c \in {0, 1} :
            a = One(UnderWay) /\ b = One(Uncounted) /\ c = One(Counted)
      BY DEF One
    <3>3. PICK d \in {0, 1}, e \in {0, 1}, f \in {0, 1} :
            d = One(UnderWay)' /\ e = One(Uncounted)' /\ f = One(Counted)'
      BY DEF One
    <3>4. d <= a
      BY <1>5, <3>2, <3>3 DEF One
    <3>5. (e = 0 /\ b = 1 /\ f = c) \/ (e <= b /\ c = 0 /\ f = 1)
      <4>1. CASE t \in Sessions
        <5>1. Uncounted
          BY <2>1, <2>2, <2>5, <2>7, <4>1 DEF Uncounted
        <5>2. ~ Uncounted'
          <6>1. \A u \in Sessions : u # t => pc'[u] \notin BoxLabels
            BY <1>1, <1>3 DEF Touching
          <6>2. Pending(op'[t].todo, BoxMsg) # 1
            BY <2>1, <2>5, <2>7
          <6>3. QED
            BY <6>1, <6>2 DEF Uncounted
        <5>3. pc'[Receiver] = pc[Receiver] /\ op'[Receiver] = op[Receiver]
          BY <1>1, <1>3, <4>1
        <5>4. Counted' <=> Counted
          BY <5>3 DEF Counted
        <5>5. QED
          BY <3>2, <3>3, <5>1, <5>2, <5>4 DEF One
      <4>2. CASE t = Receiver
        <5>1. ~ Counted
          BY <2>1, <2>5, <2>7, <4>2 DEF Counted
        <5>2. Counted'
          BY <2>1, <2>3, <2>5, <2>7, <4>2 DEF Counted, Counting
        <5>3. Uncounted' => Uncounted
          BY <1>1, <1>3, <4>2 DEF Uncounted
        <5>4. QED
          BY <3>2, <3>3, <5>1, <5>2, <5>3 DEF One
      <4>3. QED
        BY <1>1, <4>1, <4>2
    <3>6. Tally' <=> /\ numSends <= MaxSends
                     /\ Len(handled) + d <= numSends
                     /\ \A u \in Users : boxes'[u].numMsg + e <= numSends + Len(handled) + f
      BY <1>2, <3>3 DEF Tally
    <3>7. /\ numSends <= MaxSends
          /\ Len(handled) + a <= numSends
          /\ \A u \in Users : boxes[u].numMsg + b <= numSends + Len(handled) + c
      BY <3>2 DEF Tally
    <3>8. ASSUME NEW u \in Users PROVE boxes'[u].numMsg + e <= numSends + Len(handled) + f
      <4>1. boxes'[u].numMsg = boxes[u].numMsg \/ boxes'[u].numMsg = boxes[u].numMsg + 1
        BY <2>1
      <4>2. QED
        BY <3>1, <3>5, <3>7, <4>1
    <3>9. Len(handled) + d <= numSends
      BY <3>1, <3>4, <3>7
    <3>10. QED
      BY <3>6, <3>7, <3>8, <3>9
  <2>8. QED
    BY <2>6, <2>7
<1>10. QED
  BY <1>8, <1>9

-----------------------------------------------------------------------------
(* The counters add up.                                                      *)

\* What keeps the boxes right while commands come one at a time: the slot, whose
\* turn it is, who owns what, what each thread has left to count, and how much can
\* be counted at all.
BoxInv == SlotInv /\ Turns /\ Errands /\ HeapInv /\ Tally

\* The boxes are right at the start.
LEMMA BoxStart == Init => BoxInv
BY SlotInit, TurnsInit, HeapInit, TallyInit DEF BoxInv

\* And every step keeps them so.
LEMMA BoxStep ==
  ASSUME OneAtATime, BoxInv, [Next]_vars
  PROVE  BoxInv'
<1> USE DEF BoxInv
<1>1. SlotInv' /\ TypeOK /\ TypeOK'
  BY SlotStep DEF SlotInv
<1>2. ASSUME NEW s \in Sessions, NEW n \in Names, StartSend(s, n) PROVE BoxInv'
  BY <1>1, <1>2, StartTurns, StartHeap, StartSendTally
<1>3. ASSUME NEW s \in Sessions, NEW n \in Shown, StartShow(s, n) PROVE BoxInv'
  BY <1>1, <1>3, StartTurns, StartHeap, StartShowTally
<1>4. ASSUME NEW s \in Sessions, SendRefused(s) PROVE BoxInv'
  BY <1>1, <1>4, NotifyTurns, NotifyHeap, SendRefusedTally
<1>5. ASSUME NEW s \in Sessions, Notify(s) PROVE BoxInv'
  BY <1>1, <1>5, NotifyTurns, NotifyHeap, NotifyTally
<1>6. ASSUME NEW t \in Threads, Record(t) \/ Show(t), UNCHANGED slotVars PROVE BoxInv'
  <2>1. Turns' /\ Errands'
    BY <1>6, TouchTurns
  <2>2. HeapInv'
    BY <1>1, <1>6, <2>1, TouchHeap
  <2>3. Tally'
    BY <1>6, TouchTally
  <2>4. QED
    BY <1>1, <2>1, <2>2, <2>3
<1>7. CASE Exchange \/ SpuriousWakeup \/ PostShutdown
  BY <1>1, <1>7, ExchangeTurns, ExchangeHeap, ExchangeTally
<1>8. CASE UNCHANGED vars
  <2>1. Turns' /\ Errands'
    BY <1>8 DEF vars, Turns, Errands
  <2>2. HeapInv'
    BY <1>8, HeapKept DEF vars
  <2>3. UnderWay' = UnderWay /\ Uncounted' = Uncounted /\ Counted' = Counted
    BY <1>8 DEF vars, UnderWay, Uncounted, Counted
  <2>4. Tally'
    BY <1>1, <1>8, <2>3, TallyStays DEF vars
  <2>5. QED
    BY <1>1, <2>1, <2>2, <2>4
<1>9. QED
  BY <1>2, <1>3, <1>4, <1>5, <1>6, <1>7, <1>8 DEF Next

\* What keeps the boxes right holds of every execution in which commands come one at a
\* time: addMsgContext and briefMsgContexts read and write counters in separate steps, and
\* none of these steps loses one of another thread.
THEOREM BoxInvariant ==
  ASSUME OneAtATime
  PROVE  Spec => []BoxInv
<1>1. BoxInv /\ [Next]_vars => BoxInv'
  BY BoxStep
<1>2. QED
  BY <1>1, BoxStart, PTL DEF Spec

\* numMsg and numUnread of a box are the sums over its conversations, and a conversation
\* counts the contexts it holds, whenever no thread is between the increments of
\* addMsgContext or the subtraction of briefMsgContexts.
THEOREM BoxesAddUp ==
  ASSUME OneAtATime
  PROVE  Spec => []CountersAddUp
<1>1. BoxInv => CountersAddUp
  <2>1. SUFFICES ASSUME BoxInv, AtRest PROVE
          \A u \in Users :
            /\ boxes[u].numMsg = Total(u, "numMsg")
            /\ boxes[u].numUnread = Total(u, "numUnread")
            /\ \A i \in DOMAIN boxes[u].msgs :
                 nodes[boxes[u].msgs[i]].numMsg = Len(nodes[boxes[u].msgs[i]].contexts)
    BY DEF CountersAddUp
  <2>2. \A t \in Threads : pc[t] \notin Halfway
    BY <2>1, ThreadsAssumption DEF AtRest, Halfway, Counting, Clearing
  <2>3. (\A u \in Users : Even(u)) /\ \A n \in DOMAIN nodes : Tallied(n)
    BY <2>1, <2>2 DEF BoxInv, HeapInv, Books, Halfway
  <2>4. \A u \in Users : \A i \in DOMAIN boxes[u].msgs : boxes[u].msgs[i] \in DOMAIN nodes
    BY <2>1 DEF BoxInv, SlotInv, TypeOK, HeapOK, Allocated
  <2>5. QED
    BY <2>3, <2>4 DEF Even, Tallied
<1>2. QED
  BY <1>1, BoxInvariant, PTL

-----------------------------------------------------------------------------
(* The copies of a message.                                                  *)

\* No two records of the heap are alike.
Distinct ==
  \A k, n \in DOMAIN nodes :
    \A i \in DOMAIN nodes[k].contexts, j \in DOMAIN nodes[n].contexts :
      nodes[k].contexts[i] = nodes[n].contexts[j] => k = n /\ i = j

\* The box of u holds message m.
Recorded(u, io, m) ==
  \E i \in DOMAIN boxes[u].msgs : \E j \in DOMAIN nodes[boxes[u].msgs[i]].contexts :
    nodes[boxes[u].msgs[i]].contexts[j] = [io |-> io, msg |-> m]
Received(m) == Resolve[m.to] # NoUser => Recorded(Resolve[m.to], "in", m)

\* The messages recorded, and those recorded as received, are older than number k.
AllBefore(k) ==
  \A n \in DOMAIN nodes : \A j \in DOMAIN nodes[n].contexts : nodes[n].contexts[j].msg.id < k
InBefore(k) ==
  \A n \in DOMAIN nodes : \A j \in DOMAIN nodes[n].contexts :
    nodes[n].contexts[j].io = "in" => nodes[n].contexts[j].msg.id < k

\* The message a session has yet to hand over.
Sending(s) ==
  LET m == op[s].msg
  IN  /\ pc[s] \in Offering => m.id <= numSends /\ InBefore(m.id)
      /\ pc[s] \in Before => AllBefore(m.id)
      /\ pc[s] \in Offering \ Before => Recorded(m.from, "out", m)

\* The message in the slot.
Handing ==
  /\ event = "msg_sent" =>
       /\ payload.id <= numSends
       /\ Recorded(payload.from, "out", payload)
       /\ pc[Receiver] \notin Counting \cup {"reset"} => InBefore(payload.id)
  /\ pc[Receiver] \in Counting \cup {"reset"} => Received(payload)

\* The messages taken out of it.
Handed(m) == Recorded(m.from, "out", m) /\ Received(m)

Copied ==
  /\ Distinct
  /\ AllBefore(numSends + 1)
  /\ \A s \in Sessions : Sending(s)
  /\ Handing
  /\ \A i \in DOMAIN handled : Handed(handled[i])

\* No message is recorded at the start.
LEMMA CopiedInit == Init => Copied
<1> SUFFICES ASSUME Init PROVE Copied
  OBVIOUS
<1>1. /\ nodes = <<>> /\ DOMAIN nodes = {} /\ handled = <<>> /\ DOMAIN handled = {}
      /\ event = "undef" /\ pc[Receiver] = "start" /\ \A s \in Sessions : pc[s] = "idle"
  BY ThreadsAssumption DEF Init, BoxInit
<1>2. Distinct /\ AllBefore(numSends + 1)
  BY <1>1 DEF Distinct, AllBefore
<1>3. \A s \in Sessions : Sending(s)
  BY <1>1 DEF Sending, Offering, Before, BoxLabels
<1>4. Handing
  BY <1>1 DEF Handing, Counting
<1>5. QED
  BY <1>1, <1>2, <1>3, <1>4 DEF Copied

\* A step that writes no message: conversations are made, none is lost.
NothingWritten ==
  /\ \A n \in DOMAIN nodes' :
       nodes'[n].contexts = IF n \in DOMAIN nodes THEN nodes[n].contexts ELSE <<>>
  /\ DOMAIN nodes \subseteq DOMAIN nodes'
  /\ \A u \in Users : \A i \in DOMAIN boxes[u].msgs :
       \E j \in DOMAIN boxes'[u].msgs : boxes'[u].msgs[j] = boxes[u].msgs[i]

\* A step that writes no message leaves what the boxes hold.
LEMMA NothingRead ==
  ASSUME TypeOK, NothingWritten
  PROVE  /\ Distinct => Distinct'
         /\ \A k : AllBefore(k) => AllBefore(k)'
         /\ \A k : InBefore(k) => InBefore(k)'
         /\ \A u \in Users : \A io, m : Recorded(u, io, m) => Recorded(u, io, m)'
<1>1. DOMAIN <<>> = {}
  OBVIOUS
<1>2. \A n \in DOMAIN nodes' : \A j \in DOMAIN nodes'[n].contexts :
        n \in DOMAIN nodes /\ j \in DOMAIN nodes[n].contexts /\ nodes'[n].contexts = nodes[n].contexts
  BY <1>1 DEF NothingWritten
<1>3. Distinct => Distinct'
  BY <1>2 DEF Distinct
<1>4. ASSUME NEW k, AllBefore(k) PROVE AllBefore(k)'
  BY <1>2, <1>4 DEF AllBefore
<1>5. ASSUME NEW k, InBefore(k) PROVE InBefore(k)'
  BY <1>2, <1>5 DEF InBefore
<1>6. ASSUME NEW u \in Users, NEW io, NEW m, Recorded(u, io, m) PROVE Recorded(u, io, m)'
  <2>1. PICK i \in DOMAIN boxes[u].msgs : \E j \in DOMAIN nodes[boxes[u].msgs[i]].contexts :
          nodes[boxes[u].msgs[i]].contexts[j] = [io |-> io, msg |-> m]
    BY <1>6 DEF Recorded
  <2> DEFINE n == boxes[u].msgs[i]
  <2>2. n \in DOMAIN nodes
    BY <2>1 DEF TypeOK, HeapOK, Allocated
  <2>3. nodes'[n].contexts = nodes[n].contexts
    BY <2>2 DEF NothingWritten
  <2>4. \E p \in DOMAIN boxes'[u].msgs : boxes'[u].msgs[p] = n
    BY <2>1 DEF NothingWritten
  <2>5. QED
    BY <2>1, <2>3, <2>4 DEF Recorded
<1>7. QED
  BY <1>3, <1>4, <1>5, <1>6

\* Such a step leaves the rest, as far as the message of nobody changes hands.
LEMMA CopiedStays ==
  ASSUME TypeOK, Copied, NothingWritten, numSends' = numSends, handled' = handled,
         \A s \in Sessions :
           \/ pc'[s] \notin Offering
           \/ /\ op'[s].msg = op[s].msg /\ pc[s] \in Offering
              /\ pc'[s] \in Before <=> pc[s] \in Before,
         event' = "msg_sent" => event = "msg_sent" /\ payload' = payload,
         pc'[Receiver] \in Counting \cup {"reset"} =>
           /\ payload' = payload
           /\ pc[Receiver] \in Counting \cup {"reset"} \/ Resolve[payload.to] = NoUser,
         pc[Receiver] \in Counting \cup {"reset"} => pc'[Receiver] \in Counting \cup {"reset"}
  PROVE  Copied'
<1>1. /\ Distinct => Distinct'
      /\ \A k : AllBefore(k) => AllBefore(k)'
      /\ \A k : InBefore(k) => InBefore(k)'
      /\ \A u \in Users : \A io, m : Recorded(u, io, m) => Recorded(u, io, m)'
  BY NothingRead
<1>2. /\ payload \in Messages /\ handled \in Seq(Messages) /\ op \in [Threads -> CallType]
      /\ \A s \in Sessions : s \in Threads
      /\ Resolve \in [Names -> Users \cup {NoUser}]
  BY ThreadsAssumption, NamesAssumption DEF TypeOK, VarsTyped, SlotTyped
<1>3. ASSUME NEW m \in Messages, Received(m) PROVE Received(m)'
  <2>1. Resolve[m.to] # NoUser => Resolve[m.to] \in Users
    BY <1>2 DEF Messages
  <2>2. QED
    BY <1>1, <1>3, <2>1 DEF Received
<1>4. ASSUME NEW m \in Messages, Recorded(m.from, "out", m) PROVE Recorded(m.from, "out", m)'
  BY <1>1, <1>4 DEF Messages
<1>5. Distinct' /\ AllBefore(numSends + 1)'
  <2>1. PICK k : k = numSends + 1
    OBVIOUS
  <2>2. AllBefore(k)'
    BY <1>1, <2>1 DEF Copied
  <2>3. AllBefore(numSends + 1)'
    BY <2>1, <2>2 DEF AllBefore
  <2>4. QED
    BY <1>1, <2>3 DEF Copied
<1>6. ASSUME NEW s \in Sessions PROVE Sending(s)'
  <2>1. CASE pc'[s] \notin Offering
    BY <2>1 DEF Sending, Offering, Before
  <2>2. CASE pc'[s] \in Offering
    <3>1. /\ op'[s].msg = op[s].msg /\ pc[s] \in Offering
          /\ pc'[s] \in Before <=> pc[s] \in Before
      BY <2>2
    <3>2. PICK m \in Messages : m = op[s].msg /\ m = op'[s].msg
      BY <1>2, <3>1 DEF CallType
    <3>3. /\ m.id <= numSends /\ InBefore(m.id)
          /\ pc'[s] \in Before => AllBefore(m.id)
          /\ pc'[s] \notin Before => Recorded(m.from, "out", m)
      BY <3>1, <3>2 DEF Copied, Sending
    <3>4. PICK k : k = m.id
      OBVIOUS
    <3>5. /\ InBefore(k)'
          /\ pc'[s] \in Before => AllBefore(k)'
          /\ pc'[s] \notin Before => Recorded(m.from, "out", m)'
      BY <1>1, <1>4, <3>3, <3>4
    <3>6. QED
      BY ZenonT(30), <3>2, <3>3, <3>4, <3>5 DEF Sending, Recorded, InBefore, AllBefore
  <2>3. QED
    BY <2>1, <2>2
<1>7. Handing'
  <2>1. ASSUME event' = "msg_sent"
        PROVE  /\ payload'.id <= numSends'
               /\ Recorded(payload.from, "out", payload)'
               /\ pc'[Receiver] \notin Counting \cup {"reset"} => InBefore(payload.id)'
    <3>1. PICK m \in Messages : m = payload /\ m = payload'
      BY <1>2, <2>1
    <3>2. /\ m.id <= numSends /\ Recorded(m.from, "out", m)
          /\ pc[Receiver] \notin Counting \cup {"reset"} => InBefore(m.id)
      BY <2>1, <3>1 DEF Copied, Handing
    <3>3. PICK k : k = m.id
      OBVIOUS
    <3>4. /\ Recorded(m.from, "out", m)'
          /\ pc'[Receiver] \notin Counting \cup {"reset"} => InBefore(k)'
      BY <1>1, <1>4, <3>2, <3>3
    <3>5. QED
      BY <3>1, <3>2, <3>3, <3>4 DEF Recorded, InBefore
  <2>2. ASSUME pc'[Receiver] \in Counting \cup {"reset"} PROVE Received(payload)'
    <3>1. PICK m \in Messages : m = payload /\ m = payload'
      BY <1>2, <2>2
    <3>2. Received(m)
      BY <2>2, <3>1 DEF Copied, Handing, Received
    <3>3. Received(m)'
      BY <1>3, <3>2
    <3>4. QED
      BY <3>1, <3>3 DEF Received, Recorded
  <2>3. QED
    BY <2>1, <2>2 DEF Handing
<1>8. ASSUME NEW i \in DOMAIN handled' PROVE Handed(handled[i])'
  <2>1. PICK m \in Messages : m = handled[i] /\ m = handled'[i]
    BY <1>2
  <2>2. Recorded(m.from, "out", m)' /\ Received(m)'
    BY <1>3, <1>4, <2>1 DEF Copied, Handed
  <2>3. Recorded(handled[i].from, "out", handled[i])'
    BY ZenonT(30), <2>1, <2>2 DEF Recorded
  <2>4. Received(handled[i])'
    BY ZenonT(30), <2>1, <2>2 DEF Received, Recorded
  <2>5. QED
    BY <2>3, <2>4 DEF Handed
<1>9. QED
  BY <1>5, <1>6, <1>7, <1>8 DEF Copied

\* A message written in front of a conversation of box h.
Written(h, n, e) ==
  /\ boxes' = boxes /\ DOMAIN nodes' = DOMAIN nodes
  /\ \E p \in DOMAIN boxes[h].msgs : boxes[h].msgs[p] = n
  /\ \A k \in DOMAIN nodes : k # n => nodes'[k] = nodes[k]
  /\ nodes'[n].contexts = <<e>> \o nodes[n].contexts

\* Where the records are after that.
LEMMA WrittenPlaces ==
  ASSUME TypeOK, NEW h \in Users, NEW n \in DOMAIN nodes, NEW e, Written(h, n, e)
  PROVE  /\ 1 \in DOMAIN nodes'[n].contexts /\ nodes'[n].contexts[1] = e
         /\ \A j \in DOMAIN nodes'[n].contexts :
              j = 1 \/ \E i \in DOMAIN nodes[n].contexts : j = i + 1 /\ nodes'[n].contexts[j] = nodes[n].contexts[i]
         /\ \A i \in DOMAIN nodes[n].contexts :
              \E j \in DOMAIN nodes'[n].contexts : nodes'[n].contexts[j] = nodes[n].contexts[i]
<1> DEFINE s == nodes[n].contexts
           r == nodes'[n].contexts
<1>1. s \in Seq(Entry) /\ r = <<e>> \o s
  <2>1. nodes[n] \in NodeType
    BY DEF TypeOK, VarsTyped
  <2>2. QED
    BY <2>1 DEF NodeType, Written
<1> HIDE DEF s, r
<1>2. /\ DOMAIN s = 1 .. Len(s) /\ Len(s) \in Nat
      /\ DOMAIN r = 1 .. (Len(s) + 1) /\ r[1] = e
      /\ \A i \in 1 .. Len(s) : r[i + 1] = s[i]
  BY <1>1
<1>3. ASSUME NEW j \in DOMAIN r, j # 1 PROVE \E i \in DOMAIN s : j = i + 1 /\ r[j] = s[i]
  <2>1. j - 1 \in DOMAIN s /\ j = (j - 1) + 1
    BY <1>2, <1>3
  <2>2. QED
    BY <1>2, <2>1
<1>4. ASSUME NEW i \in DOMAIN s PROVE \E j \in DOMAIN r : r[j] = s[i]
  <2>1. i + 1 \in DOMAIN r /\ r[i + 1] = s[i]
    BY <1>2
  <2>2. QED
    BY <2>1
<1>5. QED
  BY <1>2, <1>3, <1>4 DEF s, r

\* One that writes a message adds it to the box, and to the ages of those recorded.
LEMMA WrittenRead ==
  ASSUME TypeOK, NEW h \in Users, NEW n \in DOMAIN nodes, NEW e, Written(h, n, e)
  PROVE  /\ \A u \in Users : \A io, m : Recorded(u, io, m) => Recorded(u, io, m)'
         /\ \A io, m : e = [io |-> io, msg |-> m] => Recorded(h, io, m)'
         /\ \A k : AllBefore(k) /\ e.msg.id < k => AllBefore(k)'
         /\ \A k : InBefore(k) /\ (e.io = "in" => e.msg.id < k) => InBefore(k)'
<1>1. /\ 1 \in DOMAIN nodes'[n].contexts /\ nodes'[n].contexts[1] = e
      /\ \A j \in DOMAIN nodes'[n].contexts :
           j = 1 \/ \E i \in DOMAIN nodes[n].contexts : j = i + 1 /\ nodes'[n].contexts[j] = nodes[n].contexts[i]
      /\ \A i \in DOMAIN nodes[n].contexts :
           \E j \in DOMAIN nodes'[n].contexts : nodes'[n].contexts[j] = nodes[n].contexts[i]
  BY WrittenPlaces
<1>2. ASSUME NEW u \in Users, NEW io, NEW m, Recorded(u, io, m) PROVE Recorded(u, io, m)'
  <2>1. PICK p \in DOMAIN boxes[u].msgs : \E i \in DOMAIN nodes[boxes[u].msgs[p]].contexts :
          nodes[boxes[u].msgs[p]].contexts[i] = [io |-> io, msg |-> m]
    BY <1>2 DEF Recorded
  <2>2. boxes[u].msgs[p] \in DOMAIN nodes
    BY DEF TypeOK, HeapOK, Allocated
  <2>3. \E j \in DOMAIN nodes'[boxes[u].msgs[p]].contexts :
          nodes'[boxes[u].msgs[p]].contexts[j] = [io |-> io, msg |-> m]
    <3>1. CASE boxes[u].msgs[p] = n
      BY <1>1, <2>1, <3>1
    <3>2. CASE boxes[u].msgs[p] # n
      <4>1. nodes'[boxes[u].msgs[p]] = nodes[boxes[u].msgs[p]]
        BY <2>2, <3>2 DEF Written
      <4>2. QED
        BY <2>1, <4>1
    <3>3. QED
      BY <3>1, <3>2
  <2>4. QED
    BY <2>3 DEF Recorded, Written
<1>3. ASSUME NEW io, NEW m, e = [io |-> io, msg |-> m] PROVE Recorded(h, io, m)'
  BY <1>1, <1>3 DEF Recorded, Written
<1>4. \A k \in DOMAIN nodes' : k # n => nodes'[k] = nodes[k] /\ k \in DOMAIN nodes
  BY DEF Written
<1>5. ASSUME NEW k, AllBefore(k), e.msg.id < k PROVE AllBefore(k)'
  <2>1. ASSUME NEW x \in DOMAIN nodes', NEW j \in DOMAIN nodes'[x].contexts
        PROVE  nodes'[x].contexts[j].msg.id < k
    <3>1. CASE x # n
      BY <1>4, <1>5, <3>1 DEF AllBefore
    <3>2. CASE x = n
      BY <1>1, <1>5, <3>2 DEF AllBefore
    <3>3. QED
      BY <3>1, <3>2
  <2>2. QED
    BY <2>1 DEF AllBefore
<1>6. ASSUME NEW k, InBefore(k), e.io = "in" => e.msg.id < k PROVE InBefore(k)'
  <2>1. ASSUME NEW x \in DOMAIN nodes', NEW j \in DOMAIN nodes'[x].contexts, nodes'[x].contexts[j].io = "in"
        PROVE nodes'[x].contexts[j].msg.id < k
    <3>1. CASE x # n
      BY <1>4, <1>6, <2>1, <3>1 DEF InBefore
    <3>2. CASE x = n
      BY <1>1, <1>6, <2>1, <3>2 DEF InBefore
    <3>3. QED
      BY <3>1, <3>2
  <2>2. QED
    BY <2>1 DEF InBefore
<1>7. QED
  BY <1>2, <1>3, <1>5, <1>6

\* It is not there yet when its number is beyond those of its kind.
LEMMA WrittenDistinct ==
  ASSUME TypeOK, Distinct, NEW h \in Users, NEW n \in DOMAIN nodes, NEW e \in Entry, Written(h, n, e),
         AllBefore(e.msg.id) \/ (e.io = "in" /\ InBefore(e.msg.id))
  PROVE  Distinct'
<1>1. /\ 1 \in DOMAIN nodes'[n].contexts /\ nodes'[n].contexts[1] = e
      /\ \A j \in DOMAIN nodes'[n].contexts :
           j = 1 \/ \E i \in DOMAIN nodes[n].contexts : j = i + 1 /\ nodes'[n].contexts[j] = nodes[n].contexts[i]
  BY WrittenPlaces
<1>2. e.msg.id \in Nat
  BY DEF Entry, Messages
<1>3. ~ (e.msg.id < e.msg.id)
  BY <1>2
<1>4. \A k \in DOMAIN nodes : \A i \in DOMAIN nodes[k].contexts : nodes[k].contexts[i] # e
  BY <1>3 DEF AllBefore, InBefore
<1>5. \A k \in DOMAIN nodes' : k \in DOMAIN nodes /\ (k # n => nodes'[k] = nodes[k])
  BY DEF Written
<1>6. \A k, x \in DOMAIN nodes :
        \A i \in DOMAIN nodes[k].contexts, j \in DOMAIN nodes[x].contexts :
          nodes[k].contexts[i] = nodes[x].contexts[j] => k = x /\ i = j
  BY DEF Distinct
<1>7. SUFFICES ASSUME NEW k \in DOMAIN nodes', NEW x \in DOMAIN nodes',
                      NEW i \in DOMAIN nodes'[k].contexts, NEW j \in DOMAIN nodes'[x].contexts,
                      nodes'[k].contexts[i] = nodes'[x].contexts[j]
               PROVE  k = x /\ i = j
  BY DEF Distinct
<1>8. /\ k = n => i = 1 \/ \E a \in DOMAIN nodes[n].contexts : i = a + 1 /\ nodes'[k].contexts[i] = nodes[n].contexts[a]
      /\ x = n => j = 1 \/ \E a \in DOMAIN nodes[n].contexts : j = a + 1 /\ nodes'[x].contexts[j] = nodes[n].contexts[a]
  BY <1>1
<1>9. CASE k # n /\ x # n
  BY <1>5, <1>6, <1>7, <1>9
<1>10. CASE k = n /\ x # n
  <2>1. nodes'[x] = nodes[x] /\ x \in DOMAIN nodes
    BY <1>5, <1>10
  <2>2. CASE i = 1
    BY <1>1, <1>4, <1>7, <1>10, <2>1, <2>2
  <2>3. CASE i # 1
    BY <1>6, <1>7, <1>8, <1>10, <2>1, <2>3
  <2>4. QED
    BY <2>2, <2>3
<1>11. CASE k # n /\ x = n
  <2>1. nodes'[k] = nodes[k] /\ k \in DOMAIN nodes
    BY <1>5, <1>11
  <2>2. CASE j = 1
    BY <1>1, <1>4, <1>7, <1>11, <2>1, <2>2
  <2>3. CASE j # 1
    BY <1>6, <1>7, <1>8, <1>11, <2>1, <2>3
  <2>4. QED
    BY <2>2, <2>3
<1>12. CASE k = n /\ x = n
  <2>1. CASE i = 1 /\ j = 1
    BY <1>12, <2>1
  <2>2. CASE i = 1 /\ j # 1
    BY <1>1, <1>4, <1>7, <1>8, <1>12, <2>2
  <2>3. CASE i # 1 /\ j = 1
    BY <1>1, <1>4, <1>7, <1>8, <1>12, <2>3
  <2>4. CASE i # 1 /\ j # 1
    <3>1. PICK a \in DOMAIN nodes[n].contexts : i = a + 1 /\ nodes'[k].contexts[i] = nodes[n].contexts[a]
      BY <1>8, <1>12, <2>4
    <3>2. PICK b \in DOMAIN nodes[n].contexts : j = b + 1 /\ nodes'[x].contexts[j] = nodes[n].contexts[b]
      BY <1>8, <1>12, <2>4
    <3>3. a = b
      BY <1>6, <1>7, <3>1, <3>2
    <3>4. QED
      BY <1>12, <3>1, <3>2, <3>3
  <2>5. QED
    BY <2>1, <2>2, <2>3, <2>4
<1>13. QED
  BY <1>9, <1>10, <1>11, <1>12

\* What is recorded stays recorded, hence what was handed over stays so.
LEMMA HandedStays ==
  ASSUME TypeOK, \A u \in Users : \A io, m : Recorded(u, io, m) => Recorded(u, io, m)',
         NEW m \in Messages
  PROVE  /\ Recorded(m.from, "out", m) => Recorded(m.from, "out", m)'
         /\ Received(m) => Received(m)'
         /\ Handed(m) => Handed(m)'
<1>1. Resolve \in [Names -> Users \cup {NoUser}]
  BY NamesAssumption
<1>2. m.from \in Users /\ m.to \in Names
  BY DEF Messages
<1>3. Resolve[m.to] # NoUser => Resolve[m.to] \in Users
  BY <1>1, <1>2
<1>4. Received(m) => Received(m)'
  BY <1>3 DEF Received
<1>5. Recorded(m.from, "out", m) => Recorded(m.from, "out", m)'
  BY <1>2
<1>6. QED
  BY <1>4, <1>5 DEF Handed

\* Recording a message: the only step that writes one.
LEMMA StoreContextsCopied ==
  ASSUME SlotInv, Turns, Errands, OneAtATime, HeapInv, Copied,
         NEW t \in Threads, StoreContexts(t), UNCHANGED slotVars
  PROVE  Copied'
<1>1. TypeOK /\ Receiver \notin Sessions /\ (t \in Sessions \/ t = Receiver)
      /\ \A s \in Sessions : s \in Threads
  BY ThreadsAssumption DEF SlotInv
<1>2. PICK h \in Users, n \in {op[t].node}, m \in Messages, dir \in Direction, e \in Entry :
        /\ h = op[t].host /\ n = op[t].node /\ m = op[t].msg /\ dir = op[t].dir
        /\ e = [io |-> dir, msg |-> m]
  <2>1. op[t] \in CallType
    BY <1>1 DEF TypeOK, VarsTyped
  <2>2. /\ op[t].host \in Users /\ op[t].msg \in Messages /\ op[t].dir \in Direction
    BY <2>1 DEF CallType
  <2>3. [io |-> op[t].dir, msg |-> op[t].msg] \in Entry
    BY <2>2 DEF Entry
  <2>4. QED
    BY <2>2, <2>3
<1>3. /\ pc[t] = "linkstore" /\ pc'[t] = "load" /\ boxes' = boxes
      /\ nodes' = [nodes EXCEPT ![n].contexts = <<e>> \o op[t].tail]
      /\ op'[t].msg = m
  <2>1. op[t] \in CallType
    BY <1>1 DEF TypeOK, VarsTyped
  <2>2. /\ pc[t] = "linkstore" /\ pc'[t] = "load" /\ boxes' = boxes
        /\ nodes' = [nodes EXCEPT ![n].contexts = <<e>> \o op[t].tail]
        /\ op'[t] = [op[t] EXCEPT !.tail = <<>>]
    BY <1>1, <1>2 DEF StoreContexts, At, Goto, TypeOK, VarsTyped
  <2>3. QED
    BY <1>2, <2>1, <2>2 DEF CallType
<1>4. /\ \A u \in Threads : u # t => pc'[u] = pc[u] /\ op'[u] = op[u] /\ pc[u] \notin Touching
  <2>1. Record(t)
    BY DEF Record
  <2>2. QED
    BY <2>1, TouchSteps
<1>5. n \in DOMAIN nodes /\ Listed(t) /\ op[t].tail = nodes[n].contexts
  BY <1>1, <1>2, <1>3, TouchFacts DEF HeapInv, Locals, NodeLabels, BoxLabels
<1>6. Written(h, n, e)
  <2>1. nodes \in Seq(NodeType) /\ nodes[n] \in NodeType
    BY <1>1, <1>5 DEF TypeOK, VarsTyped
  <2>2. /\ DOMAIN nodes' = DOMAIN nodes
        /\ \A k \in DOMAIN nodes : k # n => nodes'[k] = nodes[k]
        /\ nodes'[n] = [nodes[n] EXCEPT !.contexts = <<e>> \o nodes[n].contexts]
    BY <1>3, <1>5, <2>1
  <2>3. nodes'[n].contexts = <<e>> \o nodes[n].contexts
    BY <2>1, <2>2 DEF NodeType
  <2>4. QED
    BY <1>2, <1>3, <1>5, <2>2, <2>3 DEF Written, Listed
<1>7. /\ \A u \in Users : \A io, x : Recorded(u, io, x) => Recorded(u, io, x)'
      /\ Recorded(h, dir, m)'
      /\ \A k : AllBefore(k) /\ m.id < k => AllBefore(k)'
      /\ \A k : InBefore(k) /\ (dir = "in" => m.id < k) => InBefore(k)'
  <2>1. e.io = dir /\ e.msg = m
    BY <1>2
  <2>2. QED
    BY <1>1, <1>2, <1>5, <1>6, <2>1, WrittenRead
<1>8. /\ numSends' = numSends /\ handled' = handled /\ event' = event /\ payload' = payload
      /\ payload \in Messages /\ handled \in Seq(Messages) /\ numSends \in Nat /\ m.id \in Nat
  BY <1>1, <1>2 DEF slotVars, TypeOK, SlotTyped, Messages
<1>9. ASSUME NEW i \in DOMAIN handled' PROVE Handed(handled[i])'
  <2>1. PICK x \in Messages : x = handled[i] /\ x = handled'[i]
    BY <1>8
  <2>2. Handed(x)'
    <3>1. Handed(x)
      BY <1>8, <2>1 DEF Copied
    <3>2. QED
      BY <1>1, <1>7, <3>1, HandedStays
  <2>3. Recorded(handled[i].from, "out", handled[i])'
    BY <2>1, <2>2 DEF Handed, Recorded
  <2>4. Received(handled[i])'
    BY <2>1, <2>2 DEF Handed, Received, Recorded
  <2>5. QED
    BY <2>3, <2>4 DEF Handed
<1>10. ASSUME m.id <= numSends PROVE AllBefore(numSends + 1)'
  <2>1. PICK k : k = numSends + 1
    OBVIOUS
  <2>2. AllBefore(k)'
    BY <1>7, <1>8, <1>10, <2>1 DEF Copied
  <2>3. QED
    BY <1>8, <2>1, <2>2 DEF AllBefore
<1>11. CASE t \in Sessions
  <2>1. /\ dir = "out" /\ h = m.from /\ event # "msg_sent"
        /\ m.id <= numSends /\ InBefore(m.id) /\ AllBefore(m.id)
    BY <1>2, <1>3, <1>11 DEF Errands, Turns, Copied, Sending, Offering, Before, BoxLabels, Counting
  <2>2. Distinct'
    <3>1. e.msg.id = m.id
      BY <1>2
    <3>2. AllBefore(e.msg.id)
      BY <2>1, <3>1
    <3>3. QED
      BY <1>1, <1>2, <1>5, <1>6, <3>2, WrittenDistinct DEF Copied
  <2>3. ASSUME NEW s \in Sessions PROVE Sending(s)'
    <3>1. CASE s = t
      <4>1. PICK k : k = m.id
        OBVIOUS
      <4>2. InBefore(k)'
        BY <1>7, <2>1, <4>1
      <4>3. Recorded(m.from, "out", m)'
        BY <1>7, <2>1
      <4>4. InBefore(op[s].msg.id)'
        BY <1>3, <3>1, <4>1, <4>2 DEF InBefore
      <4>5. Recorded(op[s].msg.from, "out", op[s].msg)'
        BY ZenonT(30), <1>3, <3>1, <4>3 DEF Recorded
      <4>6. op'[s].msg.id <= numSends'
        BY <1>3, <1>8, <2>1, <3>1
      <4>7. pc'[s] \notin Before
        BY <1>3, <3>1 DEF Before, Counting
      <4>8. QED
        BY <4>4, <4>5, <4>6, <4>7 DEF Sending
    <3>2. CASE s # t
      <4>1. pc[s] = "idle"
        BY <1>3, <1>11, <3>2 DEF Turns
      <4>2. pc'[s] = "idle"
        BY <1>1, <1>4, <3>2, <4>1
      <4>3. QED
        BY <4>2 DEF Sending, Offering, Before, BoxLabels
    <3>3. QED
      BY <3>1, <3>2
  <2>4. Handing'
    <3>1. pc[Receiver] \notin BoxLabels \cup {"reset"}
      BY <2>1 DEF SlotInv, SlotHeld
    <3>2. pc'[Receiver] = pc[Receiver]
      BY <1>1, <1>4, <1>11, ThreadsAssumption
    <3>3. QED
      BY <1>8, <2>1, <3>1, <3>2 DEF Handing, Counting, BoxLabels
  <2>5. QED
    BY <1>9, <1>10, <2>1, <2>2, <2>3, <2>4 DEF Copied
<1>12. CASE t = Receiver
  <2>1. /\ dir = "in" /\ h = Resolve[payload.to] /\ event = "msg_sent" /\ m = payload
    BY <1>2, <1>3, <1>12 DEF Errands, SlotInv, SlotHeld, BoxLabels
  <2>2. payload.id <= numSends /\ Recorded(payload.from, "out", payload) /\ InBefore(payload.id)
    BY <1>3, <1>12, <2>1 DEF Copied, Handing, Counting
  <2>3. Distinct'
    <3>1. e.msg.id = m.id /\ e.io = "in"
      BY <1>2, <2>1
    <3>2. InBefore(e.msg.id)
      BY <2>1, <2>2, <3>1
    <3>3. QED
      BY <1>1, <1>2, <1>5, <1>6, <3>1, <3>2, WrittenDistinct DEF Copied
  <2>4. ASSUME NEW s \in Sessions PROVE Sending(s)'
    <3>1. pc'[s] = pc[s] /\ pc[s] \notin Offering
      BY <1>1, <1>4, <1>12, <2>1 DEF Turns
    <3>2. QED
      BY <3>1 DEF Sending, Offering, Before
  <2>5. Handing'
    <3>1. Recorded(m.from, "out", m)' /\ Recorded(h, "in", m)'
      BY <1>1, <1>7, <2>1, <2>2, HandedStays
    <3>2. Recorded(payload.from, "out", payload)'
      BY <1>8, <2>1, <3>1 DEF Recorded
    <3>3. Received(payload)'
      BY <1>8, <2>1, <3>1 DEF Received, Recorded
    <3>4. pc'[Receiver] \in Counting
      BY <1>3, <1>12 DEF Counting
    <3>5. QED
      BY <1>8, <2>2, <3>2, <3>3, <3>4 DEF Handing
  <2>6. QED
    BY <1>9, <1>10, <2>1, <2>2, <2>3, <2>4, <2>5 DEF Copied
<1>13. QED
  BY <1>1, <1>11, <1>12

\* A counter is a number of messages or of unread ones.
LEMMA CounterField ==
  ASSUME TypeOK, HeapInv, NEW t \in Threads, pc[t] = "store"
  PROVE  Head(op[t].todo).field \in {"numMsg", "numUnread"}
<1>1. op[t].todo \in Todos(op[t].dir) /\ op[t].dir \in Direction
  BY DEF HeapInv, Locals, Counting, CallType, TypeOK, VarsTyped
<1>2. Head(op[t].todo) \in Figured
  BY <1>1, TodoGoesOn DEF InOrder
<1>3. QED
  BY <1>2 DEF Figured, NodeMsg, BoxMsg, NodeUnread, BoxUnread

\* A step in the boxes other than StoreContexts writes no message.
LEMMA OthersWriteNothing ==
  ASSUME TypeOK, OneAtATime, HeapInv, NEW t \in Threads, Record(t) \/ Show(t), ~ StoreContexts(t)
  PROVE  NothingWritten
<1>1. /\ op[t] \in CallType /\ boxes \in [Users -> BoxType] /\ nodes \in Seq(NodeType)
      /\ \A n \in DOMAIN nodes : nodes[n] \in NodeType
  BY DEF TypeOK, VarsTyped
<1>2. ~ AllocFails(t) /\ ~ BriefFails(t)
  BY DEF AllocFails, BriefFails, OneAtATime
<1>3. CASE AllocNode(t)
  <2>1. PICK new : /\ nodes' = Append(nodes, new) /\ new.contexts = <<>> /\ boxes' = boxes
    <3>1. \A c, x : NewNode(c, x).contexts = <<>>
      BY DEF NewNode
    <3>2. QED
      BY <1>3, <3>1 DEF AllocNode
  <2>2. /\ DOMAIN nodes' = DOMAIN nodes \cup {Len(nodes) + 1} /\ nodes'[Len(nodes) + 1] = new
        /\ \A n \in DOMAIN nodes : nodes'[n] = nodes[n]
        /\ Len(nodes) + 1 \notin DOMAIN nodes
    BY <1>1, <2>1
  <2>3. QED
    BY <2>1, <2>2 DEF NothingWritten
<1>4. CASE InsertNode(t)
  <2>1. PICK h \in Users, n \in {op[t].node} : h = op[t].host /\ n = op[t].node
    BY TouchFacts
  <2>2. nodes' = nodes /\ boxes' = [boxes EXCEPT ![h].msgs = <<n>> \o boxes[h].msgs]
    BY <1>4, <2>1 DEF InsertNode, At, HeapInv, Locals
  <2>3. boxes'[h].msgs = <<n>> \o boxes[h].msgs /\ \A u \in Users : u # h => boxes'[u] = boxes[u]
    BY <1>1, <2>2 DEF BoxType
  <2>4. \A i \in DOMAIN boxes[h].msgs : \E j \in DOMAIN boxes'[h].msgs : boxes'[h].msgs[j] = boxes[h].msgs[i]
    <3>1. boxes[h].msgs \in Seq(Nat)
      BY <1>1 DEF BoxType
    <3>2. \A list \in Seq(Nat) : \A i \in DOMAIN list :
            i + 1 \in DOMAIN (<<n>> \o list) /\ (<<n>> \o list)[i + 1] = list[i]
      OBVIOUS
    <3>3. ASSUME NEW i \in DOMAIN boxes[h].msgs
          PROVE  \E j \in DOMAIN boxes'[h].msgs : boxes'[h].msgs[j] = boxes[h].msgs[i]
      <4>1. PICK list \in Seq(Nat) : list = boxes[h].msgs
        BY <3>1
      <4>2. i + 1 \in DOMAIN (<<n>> \o list) /\ (<<n>> \o list)[i + 1] = list[i]
        BY <3>2, <3>3, <4>1
      <4>3. QED
        BY <2>3, <4>1, <4>2
    <3>4. QED
      BY <3>3
  <2>5. QED
    BY <2>2, <2>3, <2>4 DEF NothingWritten
<1>5. CASE ~ AllocNode(t) /\ ~ InsertNode(t)
  <2>1. \A u \in Users : boxes'[u].msgs = boxes[u].msgs
    <3>1. \/ boxes' = boxes
          \/ \E h, v : boxes' = [boxes EXCEPT ![h].numUnread = v]
          \/ \E h, v : boxes' = [boxes EXCEPT ![h][Head(op[t].todo).field] = v]
      BY <1>2, <1>5 DEF Record, FindNode, LoadContexts, LoadCounter, StoreCounter, Show, ReadUnread,
         BriefMsgContexts, LoadBoxUnread, StoreBoxUnread
    <3>2. CASE boxes' = boxes \/ \E h, v : boxes' = [boxes EXCEPT ![h].numUnread = v]
      BY <1>1, <3>2 DEF BoxType
    <3>3. CASE StoreCounter(t)
      <4>1. PICK f \in {"numMsg", "numUnread"} : f = Head(op[t].todo).field
        BY <3>3, CounterField DEF StoreCounter, At
      <4>2. boxes' = boxes \/ \E h, v : boxes' = [boxes EXCEPT ![h][f] = v]
        BY <3>3, <4>1 DEF StoreCounter
      <4>3. QED
        BY SMTT(30), <1>1, <4>2 DEF BoxType
    <3>4. QED
      BY <1>2, <1>5, <3>2, <3>3 DEF Record, FindNode, LoadContexts, LoadCounter, Show, ReadUnread,
         BriefMsgContexts, LoadBoxUnread, StoreBoxUnread
  <2>2. DOMAIN nodes' = DOMAIN nodes /\ \A n \in DOMAIN nodes : nodes'[n].contexts = nodes[n].contexts
    <3>1. CASE nodes' = nodes \/ \E k, v : nodes' = [nodes EXCEPT ![k].numUnread = v]
      <4>1. CASE nodes' = nodes
        BY <4>1
      <4>2. CASE \E k, v : nodes' = [nodes EXCEPT ![k].numUnread = v]
        <5>1. PICK k, v : nodes' = [nodes EXCEPT ![k].numUnread = v]
          BY <4>2
        <5>2. ASSUME NEW n \in DOMAIN nodes PROVE nodes'[n].contexts = nodes[n].contexts
          <6>1. nodes'[n] = nodes[n] \/ nodes'[n] = [nodes[n] EXCEPT !.numUnread = v]
            BY <5>1
          <6>2. nodes[n] \in NodeType
            BY <1>1
          <6>3. QED
            BY <6>1, <6>2 DEF NodeType
        <5>3. QED
          BY <5>1, <5>2
      <4>3. QED
        BY <3>1, <4>1, <4>2
    <3>2. CASE StoreCounter(t)
      <4>1. PICK f \in {"numMsg", "numUnread"} : f = Head(op[t].todo).field
        BY <3>2, CounterField DEF StoreCounter, At
      <4>2. nodes' = nodes \/ \E k, v : nodes' = [nodes EXCEPT ![k][f] = v]
        BY <3>2, <4>1 DEF StoreCounter
      <4>3. CASE nodes' = nodes
        BY <4>3
      <4>4. CASE \E k, v : nodes' = [nodes EXCEPT ![k][f] = v]
        <5>1. PICK k, v : nodes' = [nodes EXCEPT ![k][f] = v]
          BY <4>4
        <5>2. ASSUME NEW n \in DOMAIN nodes PROVE nodes'[n].contexts = nodes[n].contexts
          <6>1. nodes'[n] = nodes[n] \/ nodes'[n] = [nodes[n] EXCEPT ![f] = v]
            BY <5>1
          <6>2. nodes[n] \in NodeType
            BY <1>1
          <6>3. QED
            BY <6>1, <6>2 DEF NodeType
        <5>3. QED
          BY <5>1, <5>2
      <4>5. QED
        BY <4>2, <4>3, <4>4
    <3>3. QED
      BY <1>2, <1>5, <3>1, <3>2 DEF Record, FindNode, LoadContexts, LoadCounter, Show, ReadUnread,
         BriefMsgContexts, LoadBoxUnread, StoreBoxUnread
  <2>3. QED
    BY <2>1, <2>2 DEF NothingWritten
<1>6. QED
  BY <1>3, <1>4, <1>5

\* A session gets a number beyond all others for its message.
LEMMA NumberedCopied ==
  ASSUME SlotInv, Copied, UNCHANGED <<boxes, nodes, event, payload, handled>>,
         numSends' = numSends + 1, pc'[Receiver] = pc[Receiver],
         \A s \in Sessions :
           \/ pc'[s] = pc[s] /\ op'[s].msg = op[s].msg
           \/ pc'[s] \in Before /\ op'[s].msg.id = numSends + 1
  PROVE  Copied'
<1>1. /\ TypeOK /\ numSends \in Nat /\ nodes \in Seq(NodeType) /\ payload.id \in Nat
      /\ \A s \in Sessions : op[s].msg.id \in Nat
  <2>1. \A s \in Sessions : op[s] \in CallType
    BY ThreadsAssumption DEF SlotInv, TypeOK, VarsTyped
  <2>2. \A s \in Sessions : op[s].msg.id \in Nat
    BY <2>1 DEF CallType, Messages
  <2>3. QED
    BY <2>2 DEF SlotInv, TypeOK, VarsTyped, SlotTyped, Messages
<1>2. /\ Distinct' <=> Distinct
      /\ \A k : AllBefore(k)' <=> AllBefore(k)
      /\ \A k : InBefore(k)' <=> InBefore(k)
      /\ \A u, io, m : Recorded(u, io, m)' <=> Recorded(u, io, m)
  BY DEF Distinct, AllBefore, InBefore, Recorded
<1>3. \A n \in DOMAIN nodes : \A j \in DOMAIN nodes[n].contexts : nodes[n].contexts[j].msg.id \in Nat
  <2>1. ASSUME NEW n \in DOMAIN nodes, NEW j \in DOMAIN nodes[n].contexts
        PROVE  nodes[n].contexts[j].msg.id \in Nat
    <3>1. nodes[n].contexts \in Seq(Entry)
      <4>1. nodes[n] \in NodeType
        BY <1>1
      <4>2. QED
        BY <4>1 DEF NodeType
    <3>2. nodes[n].contexts[j] \in Entry
      BY <3>1
    <3>3. QED
      BY <3>2 DEF Entry, Messages
  <2>2. QED
    BY <2>1
<1>4. AllBefore(numSends + 1) /\ InBefore(numSends + 1)
  BY DEF Copied, AllBefore, InBefore
<1>5. AllBefore(numSends + 1)'
  <2>1. \A n \in DOMAIN nodes : \A j \in DOMAIN nodes[n].contexts :
          nodes[n].contexts[j].msg.id < (numSends + 1) + 1
    BY <1>1, <1>3, <1>4 DEF AllBefore
  <2>2. QED
    BY <2>1 DEF AllBefore
<1>6. ASSUME NEW s \in Sessions PROVE Sending(s)'
  <2>1. CASE pc'[s] = pc[s] /\ op'[s].msg = op[s].msg
    <3>1. PICK m : m = op[s].msg /\ m = op'[s].msg
      BY <2>1
    <3>2. /\ pc'[s] \in Offering => m.id <= numSends /\ InBefore(m.id)
          /\ pc'[s] \in Before => AllBefore(m.id)
          /\ pc'[s] \in Offering \ Before => Recorded(m.from, "out", m)
      BY <2>1, <3>1 DEF Copied, Sending
    <3>3. pc'[s] \in Offering => m.id <= numSends + 1
      BY <1>1, <3>1, <3>2
    <3>4. /\ pc'[s] \in Offering => InBefore(op[s].msg.id)'
          /\ pc'[s] \in Before => AllBefore(op[s].msg.id)'
          /\ pc'[s] \in Offering \ Before => Recorded(op[s].msg.from, "out", op[s].msg)'
      BY <3>1, <3>2 DEF InBefore, AllBefore, Recorded
    <3>5. QED
      BY <3>1, <3>3, <3>4 DEF Sending
  <2>2. CASE pc'[s] \in Before /\ op'[s].msg.id = numSends + 1
    <3>1. InBefore(op[s].msg.id)' /\ AllBefore(op[s].msg.id)'
      BY <1>4, <2>2 DEF InBefore, AllBefore
    <3>2. op'[s].msg.id <= numSends'
      BY <1>1, <2>2
    <3>3. QED
      BY <2>2, <3>1, <3>2 DEF Sending
  <2>3. QED
    BY <2>1, <2>2
<1>7. Handing'
  <2>1. event = "msg_sent" => payload.id <= numSends + 1
    BY <1>1 DEF Copied, Handing
  <2>2. /\ event' = "msg_sent" =>
             /\ Recorded(payload.from, "out", payload)'
             /\ pc'[Receiver] \notin Counting \cup {"reset"} => InBefore(payload.id)'
        /\ pc'[Receiver] \in Counting \cup {"reset"} => Received(payload)'
    BY DEF Copied, Handing, Received, Recorded, InBefore
  <2>3. QED
    BY <2>1, <2>2 DEF Handing
<1>8. \A i \in DOMAIN handled' : Handed(handled[i])'
  BY DEF Copied, Handed, Received, Recorded
<1>9. QED
  BY <1>2, <1>5, <1>6, <1>7, <1>8 DEF Copied

\* A command that sends takes a new number.
LEMMA StartSendCopied ==
  ASSUME SlotInv, Copied, OneAtATime, NEW s \in Sessions, NEW n \in Names, StartSend(s, n)
  PROVE  Copied'
<1>1. /\ s \in Threads /\ s # Receiver /\ Receiver \in Threads /\ \A u \in Sessions : u \in Threads
      /\ pc \in [Threads -> Labels] /\ op \in [Threads -> CallType]
  BY ThreadsAssumption DEF SlotInv, TypeOK, VarsTyped
<1>2. /\ pc'[s] = "lookup" /\ op'[s] = Call(UserOf[s], n, "out", Message(s, n))
      /\ \A u \in Threads : u # s => pc'[u] = pc[u] /\ op'[u] = op[u]
  BY <1>1 DEF StartSend, Goto
<1>3. pc'[s] \in Before /\ op'[s].msg.id = numSends + 1
  <2>1. op'[s].msg = Message(s, n)
    BY <1>2 DEF Call
  <2>2. QED
    BY <1>2, <2>1 DEF Message, Before, BoxLabels, Counting
<1>4. numSends' = numSends + 1 /\ UNCHANGED <<boxes, nodes, event, payload, handled>>
  BY DEF StartSend
<1>5. \A u \in Sessions : \/ pc'[u] = pc[u] /\ op'[u].msg = op[u].msg
                          \/ pc'[u] \in Before /\ op'[u].msg.id = numSends + 1
  BY <1>1, <1>2, <1>3
<1>6. QED
  BY <1>1, <1>2, <1>4, <1>5, NumberedCopied

\* A command refused takes a number too, and records nothing.
LEMMA SendRefusedCopied ==
  ASSUME SlotInv, Copied, NEW s \in Sessions, SendRefused(s)
  PROVE  Copied'
<1>1. /\ numSends' = numSends + 1 /\ UNCHANGED <<boxes, nodes, event, payload, handled>>
      /\ pc'[Receiver] = pc[Receiver]
      /\ \A u \in Sessions : pc'[u] = pc[u] /\ op'[u].msg = op[u].msg
  BY DEF SendRefused
<1>2. QED
  BY <1>1, NumberedCopied

\* A step that leaves the boxes alone writes nothing.
LEMMA NothingTouched ==
  ASSUME UNCHANGED <<boxes, nodes>>
  PROVE  NothingWritten
BY DEF NothingWritten

\* Showing a conversation takes no message.
LEMMA StartShowCopied ==
  ASSUME SlotInv, Copied, NEW s \in Sessions, NEW n \in Shown, StartShow(s, n)
  PROVE  Copied'
<1>1. /\ s \in Threads /\ s # Receiver /\ Receiver \in Threads /\ \A u \in Sessions : u \in Threads
      /\ pc \in [Threads -> Labels] /\ op \in [Threads -> CallType] /\ TypeOK
  BY ThreadsAssumption DEF SlotInv, TypeOK, VarsTyped
<1>2. /\ UNCHANGED slotVars /\ boxes' = boxes /\ nodes' = nodes
      /\ \A u \in Threads : u # s => pc'[u] = pc[u] /\ op'[u] = op[u]
      /\ pc'[s] \in {"unread", "crashed"}
  BY <1>1 DEF StartShow, OpenConversation, Goto
<1>3. pc'[s] \notin Offering
  BY <1>2 DEF Offering, BoxLabels
<1>4. NothingWritten
  BY <1>2, NothingTouched
<1>5. \A u \in Sessions :
           \/ pc'[u] \notin Offering
           \/ /\ op'[u].msg = op[u].msg /\ pc[u] \in Offering
              /\ pc'[u] \in Before <=> pc[u] \in Before
  BY <1>1, <1>2, <1>3
<1>6. pc'[Receiver] = pc[Receiver] /\ numSends' = numSends /\ handled' = handled /\ event' = event
      /\ payload' = payload
  BY <1>1, <1>2 DEF slotVars
<1>7. QED
  BY <1>1, <1>4, <1>5, <1>6, CopiedStays

\* A message in the slot is recorded with its sender, and is newer than those received.
LEMMA NotifyCopied ==
  ASSUME SlotInv, Turns, Copied, NEW s \in Sessions, Notify(s)
  PROVE  Copied'
<1>1. /\ s \in Threads /\ s # Receiver /\ Receiver \in Threads /\ \A u \in Sessions : u \in Threads
      /\ pc \in [Threads -> Labels] /\ op \in [Threads -> CallType] /\ TypeOK
  BY ThreadsAssumption DEF SlotInv, TypeOK, VarsTyped
<1>2. numSends' = numSends /\ handled' = handled /\ boxes' = boxes /\ nodes' = nodes
  BY DEF Notify, LockToNotify, LockFails, Publish, SlotBusy, Retry, Signal,
     SignalFails, UnlockAfterNotify, UnlockFails, slotVars
<1>3. /\ \A u \in Sessions : u # s => pc'[u] = pc[u] /\ op'[u] = op[u]
      /\ op'[Receiver] = op[Receiver]
      /\ pc'[Receiver] = pc[Receiver] \/ (pc[Receiver] = "blocked" /\ pc'[Receiver] = "woken")
  BY <1>1, NotifyMoves
<1>4. "blocked" \notin Counting \cup {"reset"} /\ "woken" \notin Counting \cup {"reset"}
  BY DEF Counting
<1>5. CASE ~ Publish(s)
  <2>1. event' = event /\ payload' = payload
    BY <1>5 DEF Notify, LockToNotify, LockFails, SlotBusy, Retry, Signal,
       SignalFails, UnlockAfterNotify, UnlockFails, slotVars
  <2>2. pc'[s] \notin Before /\ pc[s] \notin Before
        /\ (pc'[s] \in Offering => pc[s] \in Offering /\ op'[s] = op[s])
    BY <1>1, <1>5 DEF Notify, LockToNotify, LockFails, SlotBusy, Retry, Signal,
       SignalFails, UnlockAfterNotify, UnlockFails, slotVars, Goto, At, Forget,
       Before, Counting, Offering, BoxLabels
  <2>3. \A u \in Sessions :
           \/ pc'[u] \notin Offering
           \/ /\ op'[u].msg = op[u].msg /\ pc[u] \in Offering
              /\ pc'[u] \in Before <=> pc[u] \in Before
    BY <1>1, <1>3, <2>2
  <2>4. NothingWritten
    BY <1>2, NothingTouched
  <2>5. QED
    BY <1>1, <1>2, <1>3, <1>4, <2>1, <2>3, <2>4, CopiedStays
<1>6. CASE Publish(s)
  <2>1. /\ pc[s] = "slot" /\ pc'[s] = "signal" /\ op' = op
        /\ event = "undef" /\ event' = "msg_sent" /\ payload' = op[s].msg
        /\ pc'[Receiver] = pc[Receiver]
    BY <1>1, <1>6 DEF Publish, At, Goto
  <2>2. /\ Distinct' <=> Distinct
        /\ \A k : AllBefore(k)' <=> AllBefore(k)
        /\ \A k : InBefore(k)' <=> InBefore(k)
        /\ \A u, io, m : Recorded(u, io, m)' <=> Recorded(u, io, m)
    BY <1>2 DEF Distinct, AllBefore, InBefore, Recorded
  <2>3. PICK m : m = op[s].msg /\ m = payload'
    BY <2>1
  <2>4. m.id <= numSends /\ InBefore(m.id) /\ Recorded(m.from, "out", m)
    BY <2>1, <2>3 DEF Copied, Sending, Offering, Before, BoxLabels
  <2>5. pc'[Receiver] \notin Counting \cup {"reset"}
    BY <2>1 DEF SlotInv, SlotHeld, Counting, BoxLabels
  <2>6. Handing'
    <3>1. Recorded(payload.from, "out", payload)' /\ InBefore(payload.id)'
      BY <1>2, <2>3, <2>4 DEF Recorded, InBefore
    <3>2. payload'.id <= numSends'
      BY <1>2, <2>3, <2>4
    <3>3. QED
      BY <2>5, <3>1, <3>2 DEF Handing
  <2>7. ASSUME NEW u \in Sessions PROVE Sending(u)'
    <3>1. CASE u = s
      BY <2>1, <3>1 DEF Sending, Offering, Before, BoxLabels
    <3>2. CASE u # s
      <4>1. pc[u] = "idle"
        BY <2>1, <3>2 DEF Turns
      <4>2. pc'[u] = "idle"
        BY <1>3, <3>2, <4>1
      <4>3. QED
        BY <4>2 DEF Sending, Offering, Before, BoxLabels
    <3>3. QED
      BY <3>1, <3>2
  <2>8. \A i \in DOMAIN handled' : Handed(handled[i])'
    BY <1>2 DEF Copied, Handed, Received, Recorded
  <2>9. AllBefore(numSends + 1)'
    BY <1>2 DEF Copied, AllBefore
  <2>10. QED
    BY <2>2, <2>6, <2>7, <2>8, <2>9 DEF Copied
<1>7. QED
  BY <1>5, <1>6

\* A message taken out of the slot is recorded with its addressee, if there is one.
LEMMA ExchangeCopied ==
  ASSUME SlotInv, Turns, Copied, Exchange \/ SpuriousWakeup \/ PostShutdown
  PROVE  Copied'
<1>1. /\ Receiver \in Threads /\ Receiver \notin Sessions /\ \A u \in Sessions : u \in Threads
      /\ pc \in [Threads -> Labels] /\ op \in [Threads -> CallType] /\ TypeOK
  BY ThreadsAssumption DEF SlotInv, TypeOK, VarsTyped
<1>2. /\ numSends' = numSends /\ boxes' = boxes /\ nodes' = nodes /\ payload' = payload
      /\ \A u \in Sessions : pc'[u] = pc[u] /\ op'[u] = op[u]
      /\ event' = "msg_sent" => event = "msg_sent"
  BY <1>1 DEF Exchange, SetReady, ReceiverLocks, ReceiverLockFails, Wait, Receive, Drop, FreeSlot,
         Shutdown, ReceiverUnlocks, ReceiverUnlockFails, SpuriousWakeup, PostShutdown, Goto, Forget,
         slotVars
<1>3. CASE ~ FreeSlot
  <2>1. handled' = handled
    BY <1>3 DEF Exchange, SetReady, ReceiverLocks, ReceiverLockFails, Wait, Receive, Drop,
         Shutdown, ReceiverUnlocks, ReceiverUnlockFails, SpuriousWakeup, PostShutdown, slotVars
  <2>2. \/ pc'[Receiver] = pc[Receiver]
        \/ /\ pc[Receiver] \notin Counting \cup {"reset"}
           /\ pc'[Receiver] \in Counting \cup {"reset"} => Resolve[payload.to] = NoUser
    BY <1>1, <1>3 DEF Exchange, SetReady, ReceiverLocks, ReceiverLockFails, Wait, Receive, Drop,
         Shutdown, ReceiverUnlocks, ReceiverUnlockFails, SpuriousWakeup, PostShutdown, Goto, At,
         Counting
  <2>3. NothingWritten
    BY <1>2, NothingTouched
  <2>4. QED
    BY <1>1, <1>2, <2>1, <2>2, <2>3, CopiedStays
<1>4. CASE FreeSlot
  <2>1. /\ pc[Receiver] = "reset" /\ pc'[Receiver] = "check" /\ event' = "undef"
        /\ handled' = Append(handled, payload)
    BY <1>1, <1>4 DEF FreeSlot, At, Goto
  <2>2. handled \in Seq(Messages) /\ payload \in Messages
    BY <1>1 DEF TypeOK, SlotTyped
  <2>3. /\ Distinct' <=> Distinct
        /\ AllBefore(numSends + 1)' <=> AllBefore(numSends + 1)
    BY <1>2 DEF Distinct, AllBefore
  <2>4. Handed(payload)
    <3>1. event = "msg_sent"
      BY <2>1 DEF SlotInv, SlotHeld
    <3>2. QED
      BY <2>1, <3>1 DEF Copied, Handing, Handed
  <2>5. \A m : Handed(m) => Handed(m)'
    BY <1>2 DEF Handed, Received, Recorded
  <2>6. ASSUME NEW i \in DOMAIN handled' PROVE Handed(handled[i])'
    <3>1. PICK m : m = handled'[i] /\ Handed(m)
      <4>1. (i \in DOMAIN handled /\ handled'[i] = handled[i]) \/ handled'[i] = payload
        BY <2>1, <2>2
      <4>2. QED
        BY <2>4, <4>1 DEF Copied
    <3>2. Handed(m)'
      BY <2>5, <3>1
    <3>3. Recorded(handled[i].from, "out", handled[i])'
      BY <3>1, <3>2 DEF Handed, Recorded
    <3>4. Received(handled[i])'
      BY <3>1, <3>2 DEF Handed, Received, Recorded
    <3>5. QED
      BY <3>3, <3>4 DEF Handed
  <2>7. ASSUME NEW s \in Sessions PROVE Sending(s)'
    <3>1. PICK m : m = op[s].msg /\ m = op'[s].msg
      BY <1>2
    <3>2. /\ pc'[s] = pc[s]
          /\ pc[s] \in Offering => m.id <= numSends /\ InBefore(m.id)
          /\ pc[s] \in Before => AllBefore(m.id)
          /\ pc[s] \in Offering \ Before => Recorded(m.from, "out", m)
      BY <1>2, <3>1 DEF Copied, Sending
    <3>3. /\ InBefore(m.id)' <=> InBefore(m.id)
          /\ AllBefore(m.id)' <=> AllBefore(m.id)
          /\ Recorded(m.from, "out", m)' <=> Recorded(m.from, "out", m)
      BY <1>2 DEF InBefore, AllBefore, Recorded
    <3>4. /\ pc'[s] \in Offering => InBefore(op[s].msg.id)'
          /\ pc'[s] \in Before => AllBefore(op[s].msg.id)'
          /\ pc'[s] \in Offering \ Before => Recorded(op[s].msg.from, "out", op[s].msg)'
      BY <3>1, <3>2, <3>3 DEF InBefore, AllBefore, Recorded
    <3>5. QED
      BY <1>2, <3>1, <3>2, <3>4 DEF Sending
  <2>8. Handing'
    BY <2>1 DEF Handing, Counting
  <2>9. QED
    BY <2>3, <2>6, <2>7, <2>8 DEF Copied
<1>5. QED
  BY <1>3, <1>4

\* A step in the boxes: it records a message, or writes none.
LEMMA TouchCopied ==
  ASSUME SlotInv, Turns, Errands, OneAtATime, HeapInv, Copied,
         NEW t \in Threads, Record(t) \/ Show(t), UNCHANGED slotVars
  PROVE  Copied'
<1>1. /\ Receiver \in Threads /\ Receiver \notin Sessions
      /\ \A u \in Sessions : u \in Threads
      /\ t \in Sessions \/ t = Receiver
      /\ pc \in [Threads -> Labels] /\ op \in [Threads -> CallType] /\ TypeOK
  BY ThreadsAssumption DEF SlotInv, TypeOK, VarsTyped
<1>2. numSends' = numSends /\ handled' = handled /\ event' = event /\ payload' = payload
  BY DEF slotVars
<1>3. CASE StoreContexts(t)
  BY <1>3, StoreContextsCopied
<1>4. CASE ~ StoreContexts(t)
  <2>1. /\ pc[t] \in Touching
        /\ \A u \in Threads : u # t => pc'[u] = pc[u] /\ op'[u] = op[u] /\ pc[u] \notin Touching
        /\ pc[t] \in BoxLabels =>
             \/ pc'[t] \in BoxLabels /\ op'[t].msg = op[t].msg
             \/ /\ pc[t] = "store" /\ op'[t].msg = op[t].msg
                /\ pc'[t] = IF op[t].dir = "out" THEN "notify" ELSE "reset"
        /\ pc[t] \in ShowLabels => pc'[t] \in ShowLabels \cup {"idle"}
    BY TouchSteps
  <2>2. NothingWritten
    BY <1>1, <1>4, OthersWriteNothing
  <2>3. /\ pc[t] \in Before => pc'[t] \in Before
        /\ pc[t] \in Counting => pc'[t] \in Counting \cup {"notify", "reset"}
    <3>1. ~ AllocFails(t) /\ ~ BriefFails(t)
      BY DEF AllocFails, BriefFails, OneAtATime
    <3>2. QED
      BY <1>1, <1>4, <3>1 DEF Record, FindNode, AllocNode, InsertNode, LoadContexts,
              LoadCounter, StoreCounter, Show, ReadUnread, BriefMsgContexts, LoadBoxUnread,
              StoreBoxUnread, AfterRecord, Goto, At, Before, Counting, BoxLabels
  <2>4. /\ Before \cup Counting = BoxLabels /\ Before \cap (Counting \cup ShowLabels \cup {"idle", "notify", "reset"}) = {}
        /\ Offering \cap (ShowLabels \cup {"idle"}) = {} /\ BoxLabels \subseteq Offering
        /\ ShowLabels \cap (Counting \cup {"reset"}) = {} /\ "idle" \notin Counting
    BY DEF Before, Counting, BoxLabels, ShowLabels, Offering
  <2>5. CASE t \in Sessions
    <3>1. \/ pc'[t] \notin Offering
          \/ /\ op'[t].msg = op[t].msg /\ pc[t] \in Offering
             /\ pc'[t] \in Before <=> pc[t] \in Before
      <4>1. CASE pc[t] \in ShowLabels
        BY <2>1, <2>4, <4>1
      <4>2. CASE pc[t] \in Before
        BY <2>1, <2>3, <2>4, <4>2
      <4>3. CASE pc[t] \in Counting
        BY <2>1, <2>3, <2>4, <4>3
      <4>4. QED
        BY <2>1, <2>4, <4>1, <4>2, <4>3 DEF Touching
    <3>2. \A u \in Sessions :
           \/ pc'[u] \notin Offering
           \/ /\ op'[u].msg = op[u].msg /\ pc[u] \in Offering
              /\ pc'[u] \in Before <=> pc[u] \in Before
      BY <1>1, <2>1, <3>1
    <3>3. pc'[Receiver] = pc[Receiver]
      BY <1>1, <2>1, <2>5
    <3>4. QED
      BY <1>1, <1>2, <2>2, <3>2, <3>3, CopiedStays
  <2>6. CASE t = Receiver
    <3>1. pc[t] \in BoxLabels
      BY <2>1, <2>6 DEF Turns, Touching, BoxLabels, ShowLabels, ReceiverLabels
    <3>2. pc[t] \in Before \/ pc[t] \in Counting
      BY <2>4, <3>1
    <3>3. op[t].dir = "in"
      BY <2>6, <3>1 DEF Errands
    <3>4. /\ pc[t] \in Before => pc'[t] \notin Counting \cup {"reset"}
          /\ pc[t] \in Counting => pc'[t] \in Counting \cup {"reset"}
      <4>1. pc[t] \in Before => pc'[t] \notin Counting \cup {"reset"}
        BY <2>3, <2>4
      <4>2. pc[t] \in Counting => pc'[t] # "notify"
        <5>1. "notify" \notin BoxLabels
          BY DEF BoxLabels
        <5>2. QED
          BY <2>1, <3>1, <3>3, <5>1
      <4>3. QED
        BY <2>3, <4>1, <4>2
    <3>5. \A u \in Sessions :
           \/ pc'[u] \notin Offering
           \/ /\ op'[u].msg = op[u].msg /\ pc[u] \in Offering
              /\ pc'[u] \in Before <=> pc[u] \in Before
      BY <1>1, <2>1, <2>6
    <3>6. pc'[Receiver] \in Counting \cup {"reset"} <=> pc[Receiver] \in Counting \cup {"reset"}
      BY <2>4, <2>6, <3>2, <3>4
    <3>7. QED
      BY <1>1, <1>2, <2>2, <3>5, <3>6, CopiedStays
  <2>7. QED
    BY <1>1, <2>5, <2>6
<1>5. QED
  BY <1>3, <1>4

\* Every step keeps the copies right.
LEMMA CopiedStep ==
  ASSUME OneAtATime, BoxInv, BoxInv', Copied, [Next]_vars
  PROVE  Copied'
<1> USE DEF BoxInv
<1>1. ASSUME NEW s \in Sessions, NEW n \in Names, StartSend(s, n) PROVE Copied'
  BY <1>1, StartSendCopied
<1>2. ASSUME NEW s \in Sessions, NEW n \in Shown, StartShow(s, n) PROVE Copied'
  BY <1>2, StartShowCopied
<1>3. ASSUME NEW s \in Sessions, SendRefused(s) PROVE Copied'
  BY <1>3, SendRefusedCopied
<1>4. ASSUME NEW s \in Sessions, Notify(s) PROVE Copied'
  BY <1>4, NotifyCopied
<1>5. ASSUME NEW t \in Threads, Record(t) \/ Show(t), UNCHANGED slotVars PROVE Copied'
  BY <1>5, TouchCopied
<1>6. CASE Exchange \/ SpuriousWakeup \/ PostShutdown
  BY <1>6, ExchangeCopied
<1>7. CASE UNCHANGED vars
  <2>1. /\ boxes' = boxes /\ nodes' = nodes /\ pc' = pc /\ op' = op
        /\ numSends' = numSends /\ handled' = handled /\ event' = event /\ payload' = payload
    BY <1>7 DEF vars
  <2>2. NothingWritten
    BY <2>1, NothingTouched
  <2>3. QED
    BY <2>1, <2>2, CopiedStays DEF SlotInv
<1>8. QED
  BY <1>1, <1>2, <1>3, <1>4, <1>5, <1>6, <1>7 DEF Next

\* No two records in the boxes are alike, and each message the exchange has taken from the
\* slot is recorded with its sender and with its addressee.
THEOREM CopiedInvariant ==
  ASSUME OneAtATime
  PROVE  Spec => []Copied
<1>1. BoxInv /\ BoxInv' /\ Copied /\ [Next]_vars => Copied'
  BY CopiedStep
<1>2. Spec => []BoxInv
  BY BoxInvariant
<1>3. QED
  BY <1>1, <1>2, CopiedInit, PTL DEF Spec

\* A message recorded in a box is there once.
LEMMA OneCopy ==
  ASSUME Owned, Distinct, TypeOK, NEW u \in Users, NEW io, NEW m, Recorded(u, io, m)
  PROVE  Cardinality(Copies(u, io, m)) = 1
<1> DEFINE contexts(i) == nodes[boxes[u].msgs[i]].contexts
           places == UNION {{i} \X DOMAIN contexts(i) : i \in DOMAIN boxes[u].msgs}
           e == [io |-> io, msg |-> m]
<1>1. Copies(u, io, m) = {p \in places : contexts(p[1])[p[2]] = e}
  BY DEF Copies
<1>2. PICK i \in DOMAIN boxes[u].msgs : \E j \in DOMAIN contexts(i) : contexts(i)[j] = e
  BY DEF Recorded
<1>3. PICK j \in DOMAIN contexts(i) : contexts(i)[j] = e
  BY <1>2
<1>4. ASSUME NEW x \in DOMAIN boxes[u].msgs, NEW y \in DOMAIN contexts(x), contexts(x)[y] = e
      PROVE  x = i /\ y = j
  <2>1. boxes[u].msgs[x] \in DOMAIN nodes /\ boxes[u].msgs[i] \in DOMAIN nodes
    BY DEF TypeOK, HeapOK, Allocated
  <2>2. boxes[u].msgs[x] = boxes[u].msgs[i] /\ y = j
    BY <1>3, <1>4, <2>1 DEF Distinct
  <2>3. QED
    BY <2>2 DEF Owned
<1>5. <<i, j>> \in places
  <2>1. <<i, j>> \in {i} \X DOMAIN contexts(i)
    BY <1>3
  <2>2. QED
    BY <2>1
<1>6. ASSUME NEW p \in places
      PROVE  \E x \in DOMAIN boxes[u].msgs : \E y \in DOMAIN contexts(x) : p = <<x, y>>
  <2>1. PICK x \in DOMAIN boxes[u].msgs : p \in {x} \X DOMAIN contexts(x)
    BY <1>6
  <2>2. QED
    BY <2>1
<1> HIDE DEF places, contexts, e
<1>7. Copies(u, io, m) = {<<i, j>>}
  <2>1. ASSUME NEW p \in Copies(u, io, m) PROVE p = <<i, j>>
    <3>1. p \in places /\ contexts(p[1])[p[2]] = e
      BY <1>1, <2>1
    <3>2. PICK x \in DOMAIN boxes[u].msgs : \E y \in DOMAIN contexts(x) : p = <<x, y>>
      BY <1>6, <3>1
    <3>3. PICK y \in DOMAIN contexts(x) : p = <<x, y>>
      BY <3>2
    <3>4. contexts(x)[y] = e
      BY <3>1, <3>3
    <3>5. QED
      BY <1>4, <3>3, <3>4
  <2>2. <<i, j>> \in Copies(u, io, m)
    BY <1>1, <1>3, <1>5
  <2>3. QED
    BY <2>1, <2>2
<1>8. QED
  BY <1>7, FS_Singleton

\* Every message the exchange thread has handled is in its sender's box once and, if
\* getUserInfo finds the addressee, in the addressee's box once: saveMsgContext has not lost
\* it, and neither the slot nor a second wakeup has made two of it.
THEOREM MessagesAreKept ==
  ASSUME OneAtATime
  PROVE  Spec => []ExactlyOneCopy
<1>1. BoxInv /\ Copied => ExactlyOneCopy
  <2>1. SUFFICES ASSUME BoxInv, Copied, NEW i \in DOMAIN handled, NEW m, m = handled[i]
                 PROVE  /\ Cardinality(Copies(m.from, "out", m)) = 1
                        /\ Resolve[m.to] # NoUser =>
                             Cardinality(Copies(Resolve[m.to], "in", m)) = 1
    BY DEF ExactlyOneCopy
  <2>2. Owned /\ Distinct /\ TypeOK
    BY <2>1 DEF BoxInv, HeapInv, Copied, SlotInv
  <2>3. m \in Messages
    BY <2>1, <2>2 DEF TypeOK, SlotTyped
  <2>4. m.from \in Users /\ m.to \in Names
    BY <2>3 DEF Messages
  <2>5. Resolve[m.to] # NoUser => Resolve[m.to] \in Users
    BY <2>4, NamesAssumption
  <2>6. Recorded(m.from, "out", m) /\ Received(m)
    BY <2>1 DEF Copied, Handed
  <2>7. QED
    BY <2>2, <2>4, <2>5, <2>6, OneCopy DEF Received
<1>2. Spec => []BoxInv
  BY BoxInvariant
<1>3. Spec => []Copied
  BY CopiedInvariant
<1>4. QED
  BY <1>1, <1>2, <1>3, PTL
=============================================================================
