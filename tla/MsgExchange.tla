------------------------------ MODULE MsgExchange ------------------------------
(***************************************************************************)
(* Messages between users of eLibrary.  Sessions run the "msg" command:    *)
(* "msg -s" records a message in the sender's box and hands it to the      *)
(* exchange through one shared slot (g_systemEvent, g_sysEvtPayload); the  *)
(* exchange thread records it in the addressee's box.  lock_exchange and   *)
(* cond_exchange protect the slot, nothing protects the boxes.             *)
(***************************************************************************)
EXTENDS MsgBox, FiniteSets

CONSTANTS
  Sessions,    \* threads that run commands
  Receiver,    \* the exchange thread
  UserOf,      \* UserOf[s]: the user logged in at session s
  Resolve,     \* Resolve[n]: the user getUserInfo finds for name n, or NoUser
  NoUser,
  NoOwner,     \* nobody holds lock_exchange
  Shown,       \* the contacts whose conversation a user opens with "msg -f"
  MaxSends,    \* bound: "msg -s" commands over all sessions
  Paced        \* TRUE: a command starts only once the one before has settled,
               \* as in the tests, which sleep a second after each

ASSUME ThreadsAssumption ==
  /\ Threads = Sessions \cup {Receiver}
  /\ Receiver \notin Sessions
  /\ NoOwner \notin Threads
ASSUME NamesAssumption ==
  /\ UserOf \in [Sessions -> Users]
  /\ Resolve \in [Names -> Users \cup {NoUser}]
  /\ NoUser \notin Users
ASSUME ShownAssumption == Shown \subseteq Names
ASSUME BoundAssumption == MaxSends \in Nat /\ Paced \in BOOLEAN

VARIABLES
  ready,     \* g_msgExchange_ready
  lock,      \* owner of lock_exchange
  event,     \* g_systemEvent
  payload,   \* g_sysEvtPayload
  numSends,  \* "msg -s" commands so far: numbers the messages
  handled    \* history: the messages the exchange has taken out of the slot

slotVars == <<ready, lock, event, payload, numSends, handled>>
vars == <<pc, op, boxes, nodes, ready, lock, event, payload, numSends, handled>>

Init ==
  /\ BoxInit
  /\ pc = [t \in Threads |-> IF t = Receiver THEN "start" ELSE "idle"]
  /\ ready = FALSE
  /\ lock = NoOwner
  /\ event = "undef"
  /\ payload = NoMessage
  /\ numSends = 0
  /\ handled = <<>>

Acquire(t) == lock = NoOwner /\ lock' = t
Release == lock' = NoOwner

\* Nothing is under way: no command, no message in the slot or being recorded.
AtRest ==
  /\ \A s \in Sessions : pc[s] = "idle"
  /\ pc[Receiver] \in {"start", "blocked"}
  /\ event = "undef"

MayStart == Paced => AtRest

-----------------------------------------------------------------------------
(* A session: sendReceiveMsg(..., MSG_RECEIPT_OUT) and notifyExchange.       *)

Message(s, to) == [id |-> numSends + 1, from |-> UserOf[s], to |-> to]

\* The parameters are valid and the exchange is ready.
StartSend(s, to) ==
  /\ At(s, "idle")
  /\ ready
  /\ MayStart
  /\ numSends < MaxSends
  /\ numSends' = numSends + 1
  /\ op' = [op EXCEPT ![s] = Call(UserOf[s], to, "out", Message(s, to))]
  /\ Goto(s, "lookup")
  /\ UNCHANGED <<boxes, nodes, ready, lock, event, payload, handled>>

\* "Message exchange thread not ready yet": nothing but the attempt happens.
SendRefused(s) ==
  /\ At(s, "idle")
  /\ ~ready
  /\ numSends < MaxSends
  /\ numSends' = numSends + 1
  /\ UNCHANGED <<pc, op, boxes, nodes, ready, lock, event, payload, handled>>

LockToNotify(s) ==
  /\ At(s, "notify")
  /\ Acquire(s)
  /\ Goto(s, "slot")
  /\ UNCHANGED <<op, boxes, nodes, ready, event, payload, numSends, handled>>

\* The send fails although the message stays recorded as sent.
LockFails(s) ==
  /\ At(s, "notify")
  /\ "mutex_fails" \in MayHappen
  /\ Goto(s, "idle")
  /\ Forget(s)
  /\ UNCHANGED <<boxes, nodes, slotVars>>

\* Fault: the slot is filled whether or not it is free.
PublishAnyway(s) ==
  /\ At(s, "slot")
  /\ event' = "msg_sent"
  /\ payload' = op[s].msg
  /\ Goto(s, "signal")
  /\ UNCHANGED <<op, boxes, nodes, ready, lock, numSends, handled>>

\* Fault: the lock is released before the signal.
PublishAndUnlock(s) ==
  /\ At(s, "slot")
  /\ event = "undef"
  /\ event' = "msg_sent"
  /\ payload' = op[s].msg
  /\ Release
  /\ Goto(s, "signal")
  /\ UNCHANGED <<op, boxes, nodes, ready, numSends, handled>>

Publish(s) ==
  /\ At(s, "slot")
  /\ event = "undef"
  /\ event' = "msg_sent"
  /\ payload' = op[s].msg
  /\ Goto(s, "signal")
  /\ UNCHANGED <<op, boxes, nodes, ready, lock, numSends, handled>>

\* Fault: the retry looks at the slot again without the lock.
SlotBusyUnlocked(s) ==
  /\ At(s, "slot")
  /\ event # "undef"
  /\ Release
  /\ UNCHANGED <<pc, op, boxes, nodes, ready, event, payload, numSends, handled>>

\* The last message is not handled yet: unlock, sleep and retry.
SlotBusy(s) ==
  /\ At(s, "slot")
  /\ event # "undef"
  /\ Release
  /\ Goto(s, "sleep")
  /\ UNCHANGED <<op, boxes, nodes, ready, event, payload, numSends, handled>>

Retry(s) ==
  /\ At(s, "sleep")
  /\ Goto(s, "notify")
  /\ UNCHANGED <<op, boxes, nodes, slotVars>>

\* Fault: nobody is woken.
SignalNobody(s) ==
  /\ At(s, "signal")
  /\ Goto(s, "unlock")
  /\ UNCHANGED <<op, boxes, nodes, slotVars>>

\* pthread_cond_signal wakes the exchange thread if it waits.
Signal(s) ==
  /\ At(s, "signal")
  /\ pc' = [pc EXCEPT ![s] = "unlock",
                      ![Receiver] = IF @ = "blocked" THEN "woken" ELSE @]
  /\ UNCHANGED <<op, boxes, nodes, slotVars>>

\* The error path of pthread_cond_signal returns with lock_exchange held.
SignalFails(s) ==
  /\ At(s, "signal")
  /\ "signal_fails" \in MayHappen
  /\ Goto(s, "idle")
  /\ Forget(s)
  /\ UNCHANGED <<boxes, nodes, slotVars>>

UnlockAfterNotify(s) ==
  /\ At(s, "unlock")
  /\ Release
  /\ Goto(s, "idle")
  /\ Forget(s)
  /\ UNCHANGED <<boxes, nodes, ready, event, payload, numSends, handled>>

\* pthread_mutex_unlock fails, before a retry or at the end: the lock is kept.
UnlockFails(s) ==
  /\ "mutex_fails" \in MayHappen
  /\ At(s, "unlock") \/ (At(s, "slot") /\ event # "undef")
  /\ Goto(s, "idle")
  /\ Forget(s)
  /\ UNCHANGED <<boxes, nodes, slotVars>>

StartShow(s, contact) ==
  /\ MayStart
  /\ OpenConversation(s, UserOf[s], contact)
  /\ UNCHANGED slotVars

Notify(s) ==
  \/ LockToNotify(s)
  \/ LockFails(s)
  \/ Publish(s)
  \/ SlotBusy(s)
  \/ Retry(s)
  \/ Signal(s)
  \/ SignalFails(s)
  \/ UnlockAfterNotify(s)
  \/ UnlockFails(s)

-----------------------------------------------------------------------------
(* The exchange thread.                                                      *)

SetReady ==
  /\ At(Receiver, "start")
  /\ ready' = TRUE
  /\ Goto(Receiver, "lock")
  /\ UNCHANGED <<op, boxes, nodes, lock, event, payload, numSends, handled>>

\* Its first lock, and the one pthread_cond_wait takes before it returns.
ReceiverLocks ==
  /\ pc[Receiver] \in {"lock", "woken"}
  /\ Acquire(Receiver)
  /\ Goto(Receiver, "check")
  /\ UNCHANGED <<op, boxes, nodes, ready, event, payload, numSends, handled>>

ReceiverLockFails ==
  /\ At(Receiver, "lock")
  /\ "mutex_fails" \in MayHappen
  /\ Goto(Receiver, "exited")
  /\ UNCHANGED <<op, boxes, nodes, slotVars>>

Wait ==
  /\ At(Receiver, "check")
  /\ event = "undef"
  /\ Release
  /\ Goto(Receiver, "blocked")
  /\ UNCHANGED <<op, boxes, nodes, ready, event, payload, numSends, handled>>

\* POSIX lets pthread_cond_wait return without a signal.
SpuriousWakeup ==
  /\ At(Receiver, "blocked")
  /\ Goto(Receiver, "woken")
  /\ UNCHANGED <<op, boxes, nodes, slotVars>>

\* Fault: the slot is given back before the message is recorded.
ReceiveAndReset ==
  LET user == Resolve[payload.to]
  IN  /\ At(Receiver, "check")
      /\ event = "msg_sent"
      /\ user # NoUser
      /\ event' = "undef"
      /\ op' = [op EXCEPT ![Receiver] = Call(user, payload.from, "in", payload)]
      /\ Goto(Receiver, "lookup")
      /\ UNCHANGED <<boxes, nodes, ready, lock, payload, numSends, handled>>

\* A message is in the slot: record it for the user found under its name.
Receive ==
  LET user == Resolve[payload.to]
  IN  /\ At(Receiver, "check")
      /\ event = "msg_sent"
      /\ user # NoUser
      /\ op' = [op EXCEPT ![Receiver] = Call(user, payload.from, "in", payload)]
      /\ Goto(Receiver, "lookup")
      /\ UNCHANGED <<boxes, nodes, slotVars>>

\* "No user of name": the message is dropped.
Drop ==
  /\ At(Receiver, "check")
  /\ event = "msg_sent"
  /\ Resolve[payload.to] = NoUser
  /\ Goto(Receiver, "reset")
  /\ UNCHANGED <<op, boxes, nodes, slotVars>>

FreeSlot ==
  /\ At(Receiver, "reset")
  /\ event' = "undef"
  /\ handled' = Append(handled, payload)
  /\ Goto(Receiver, "check")
  /\ Forget(Receiver)
  /\ UNCHANGED <<boxes, nodes, ready, lock, payload, numSends>>

\* Leaves the loop with the event still set and ready still TRUE.
Shutdown ==
  /\ At(Receiver, "check")
  /\ event = "shutdown"
  /\ Goto(Receiver, "exit")
  /\ UNCHANGED <<op, boxes, nodes, slotVars>>

ReceiverUnlocks ==
  /\ At(Receiver, "exit")
  /\ Release
  /\ Goto(Receiver, "exited")
  /\ UNCHANGED <<op, boxes, nodes, ready, event, payload, numSends, handled>>

ReceiverUnlockFails ==
  /\ At(Receiver, "exit")
  /\ "mutex_fails" \in MayHappen
  /\ Goto(Receiver, "exited")
  /\ UNCHANGED <<op, boxes, nodes, slotVars>>

\* Whoever shuts the exchange down uses the slot as a sender does.
PostShutdown ==
  /\ "shutdown" \in MayHappen
  /\ lock = NoOwner
  /\ event = "undef"
  /\ event' = "shutdown"
  /\ pc' = [pc EXCEPT ![Receiver] = IF @ = "blocked" THEN "woken" ELSE @]
  /\ UNCHANGED <<op, boxes, nodes, ready, lock, payload, numSends, handled>>

Exchange ==
  \/ SetReady
  \/ ReceiverLocks
  \/ ReceiverLockFails
  \/ Wait
  \/ Receive
  \/ Drop
  \/ FreeSlot
  \/ Shutdown
  \/ ReceiverUnlocks
  \/ ReceiverUnlockFails

-----------------------------------------------------------------------------

\* A NULL dereference ends the process, with every thread.
Running == \A t \in Threads : pc[t] # "crashed"

Next ==
  /\ Running
  /\ \/ \E s \in Sessions, n \in Names : StartSend(s, n)
     \/ \E s \in Sessions, n \in Shown : StartShow(s, n)
     \/ \E s \in Sessions : SendRefused(s) \/ Notify(s)
     \/ \E t \in Threads : (Record(t) \/ Show(t)) /\ UNCHANGED slotVars
     \/ Exchange
     \/ SpuriousWakeup
     \/ PostShutdown

Spec == Init /\ [][Next]_vars

\* Threads are scheduled, and a thread that keeps finding lock_exchange free
\* now and then gets it: senders sleep a second outside the lock.
Fairness ==
  /\ \A t \in Threads : WF_vars(Running /\ (Record(t) \/ Show(t)) /\ UNCHANGED slotVars)
  /\ \A s \in Sessions : WF_vars(Running /\ Notify(s)) /\ SF_vars(Running /\ LockToNotify(s))
  /\ WF_vars(Running /\ Exchange) /\ SF_vars(Running /\ ReceiverLocks)

FairSpec == Spec /\ Fairness

-----------------------------------------------------------------------------
(* Properties.                                                               *)

BoxLabels == {"lookup", "newnode", "insert", "link", "linkstore", "load", "store"}
ShowLabels == {"unread", "brief", "subload", "substore"}
NotifyLabels == {"notify", "slot", "signal", "unlock", "sleep"}
ReceiverLabels ==
  {"start", "lock", "check", "blocked", "woken", "reset", "exit", "exited"}

Labels == BoxLabels \cup ShowLabels \cup NotifyLabels \cup ReceiverLabels
            \cup {"idle", "crashed"}

CallType ==
  [host: Users, contact: Names, dir: Direction, msg: Messages, node: Nat,
   tail: Seq(Entry), num: Nat, seen: Nat, todo: Seq(Counter)]
BoxType == [msgs: Seq(Nat), numMsg: Nat, numUnread: Nat]
NodeType ==
  [contact: Names, next: Seq(Nat), contexts: Seq(Entry), numMsg: Nat, numUnread: Nat]

\* Every node of the list is allocated.
Allocated(list) == \A i \in DOMAIN list : list[i] \in DOMAIN nodes

\* Labels at which a thread uses the node it found or made.
NodeLabels == (BoxLabels \ {"lookup", "newnode"}) \cup ShowLabels

VarsTyped ==
  /\ pc \in [Threads -> Labels]
  /\ op \in [Threads -> CallType]
  /\ boxes \in [Users -> BoxType]
  /\ nodes \in Seq(NodeType)

HeapOK ==
  /\ \A u \in Users : Allocated(boxes[u].msgs)
  /\ \A n \in DOMAIN nodes : Allocated(nodes[n].next)

CallsOK ==
  \A t \in Threads :
    /\ pc[t] \in NodeLabels => op[t].node \in DOMAIN nodes
    /\ pc[t] \in BoxLabels => op[t].todo # <<>>

SlotTyped ==
  /\ ready \in BOOLEAN
  /\ lock \in Threads \cup {NoOwner}
  /\ event \in {"undef", "msg_sent", "shutdown"}
  /\ payload \in Messages
  /\ numSends \in Nat
  /\ handled \in Seq(Messages)

\* Type invariant: every variable has its type, every pointer of the heap and
\* of a thread that uses it leads to an allocated conversation, and a thread
\* about to increment a counter has one left.
TypeOK == VarsTyped /\ HeapOK /\ CallsOK /\ SlotTyped

\* The statements of notifyExchange and of the exchange thread that run with
\* lock_exchange held.
Holds(t) ==
  \/ (t \in Sessions /\ pc[t] \in {"slot", "signal", "unlock"})
  \/ (t = Receiver /\ pc[t] \in BoxLabels \cup {"check", "reset", "exit"})

\* A thread inside its critical section owns lock_exchange, hence no two are
\* inside at once, whatever the retries and the condition variable do.
MutualExclusion == \A t \in Threads : Holds(t) => lock = t

\* No wakeup is lost: while the exchange thread sleeps on a filled slot, the
\* sender that filled it is still about to signal, inside the lock.  Only a
\* failing signal leaves it asleep, and then that sender keeps the lock for
\* good, outside every critical section.
NoLostWakeup ==
  pc[Receiver] = "blocked" /\ event # "undef" =>
    \E s \in Sessions :
      /\ lock = s
      /\ pc[s] = "signal" \/ ("signal_fails" \in MayHappen /\ ~Holds(s))

\* While the exchange thread decodes and records a message, from Receive or
\* Drop to FreeSlot, the slot holds that message: no sender fills it again and
\* nobody empties it.
SlotHeld ==
  pc[Receiver] \in BoxLabels \cup {"reset"} =>
    /\ event = "msg_sent"
    /\ pc[Receiver] \in BoxLabels => op[Receiver].msg = payload

\* The slot is a reliable one-place channel: a message handed over is taken
\* exactly once, none is overwritten, and the order is kept.  What the slot
\* holds from Publish to FreeSlot is in the channel.
Channel == INSTANCE OneSlotChannel WITH
  Messages <- Messages,
  slot <- IF event = "msg_sent" THEN <<payload>> ELSE <<>>,
  received <- handled
ImplementsChannel == Channel!Spec

\* Under FairSpec, the exchange thread takes every message handed over.
ImplementsFairChannel == Channel!FairSpec

\* A send does not retry for ever: the session that starts one gets its prompt
\* back, however often it finds the slot filled by another.
SendsEnd == \A s \in Sessions : pc[s] # "idle" ~> pc[s] = "idle"

\* Commands come one at a time, memory suffices, and the counters of a box, which
\* a message raises twice at most, do not wrap.
OneAtATime ==
  /\ Paced
  /\ "malloc_fails" \notin MayHappen
  /\ 2 * MaxSends < Wrap

\* The sum of a sequence of figures.
AddUp(figures) ==
  LET sum[i \in 0 .. Len(figures)] == IF i = 0 THEN 0 ELSE sum[i - 1] + figures[i]
  IN  sum[Len(figures)]

Figures(u, field) == [i \in DOMAIN boxes[u].msgs |-> nodes[boxes[u].msgs[i]][field]]
Total(u, field) == AddUp(Figures(u, field))

\* Once every command has settled, the counters of each box are the sums of
\* those of its conversations, and a conversation counts its messages: the
\* figures "msg" shows are right (test_serverHandler_msgs asserts them).
CountersAddUp ==
  AtRest =>
    \A u \in Users :
      /\ boxes[u].numMsg = Total(u, "numMsg")
      /\ boxes[u].numUnread = Total(u, "numUnread")
      /\ \A i \in DOMAIN boxes[u].msgs :
           nodes[boxes[u].msgs[i]].numMsg = Len(nodes[boxes[u].msgs[i]].contexts)

Copies(u, io, m) ==
  LET contexts(i) == nodes[boxes[u].msgs[i]].contexts
      places == UNION {{i} \X DOMAIN contexts(i) : i \in DOMAIN boxes[u].msgs}
  IN  {p \in places : contexts(p[1])[p[2]] = [io |-> io, msg |-> m]}

\* Once every command has settled, a message the exchange has handled is in
\* the sender's box exactly once and, if its name led to a user, in that
\* user's box exactly once: the boxes lose and repeat nothing.
ExactlyOneCopy ==
  AtRest =>
    \A i \in DOMAIN handled :
      LET m == handled[i]
      IN  /\ Cardinality(Copies(m.from, "out", m)) = 1
          /\ Resolve[m.to] # NoUser => Cardinality(Copies(Resolve[m.to], "in", m)) = 1
=============================================================================
