--------------------------- MODULE SemWrapper_proofs ---------------------------
(***************************************************************************)
(* Proofs, for any number of threads and handles, that the counter of      *)
(* sem_wrapper never wraps below 0, that a post is never lost on its own   *)
(* handle, and that a call that keeps the mutex says that it failed.       *)
(***************************************************************************)
EXTENDS SemWrapper, FiniteSetTheorems, TLAPS

\* TypeOK is needed by the others, and NoUnderflow by itself: what makes the
\* test of the value before the decrement hold is that the mutex is held from
\* the one to the other.
SemInv == TypeOK /\ NoUnderflow /\ NoLostPost /\ LeaksAreReported

\* The semaphore starts with its value and no operation under way.
THEOREM SemInit == Init => SemInv
<1> SUFFICES ASSUME Init PROVE SemInv
  OBVIOUS
<1>1. AnySem \in Sems
  BY ThreadsAssumption DEF AnySem
<1>2. TypeOK
  BY <1>1, ValuesAssumption DEF Init, TypeOK, Labels, AllKinds, Waits, Statuses
<1>3. NoUnderflow /\ NoLostPost /\ LeaksAreReported
  BY ThreadsAssumption DEF Init, NoUnderflow, NoLostPost, LeaksAreReported, Holds, At
<1>4. QED
  BY <1>2, <1>3 DEF SemInv

\* The kinds and the labels a step can give a thread.
LEMMA FirstTyped ==
  ASSUME NEW k \in AllKinds
  PROVE  /\ FirstLabel[k] \in {"test", "increment", "read"}
         /\ FirstLabel[k] = "test" => k \in Waits
         /\ FirstLabel[k] = "increment" => k = "post"
         /\ FirstStatus[k] \in Statuses
<1>1. /\ "post" \notin Waits /\ "getvalue" \notin Waits
      /\ k \in Waits \/ k = "post" \/ k = "getvalue"
  BY DEF Waits, AllKinds
<1>2. FirstStatus[k] \in Statuses
  BY DEF FirstStatus, Statuses
<1>3. CASE k \in Waits
  <2>1. FirstLabel[k] = "test"
    BY <1>1, <1>3 DEF FirstLabel
  <2>2. QED
    BY <1>2, <1>3, <2>1
<1>4. CASE k = "post"
  <2>1. FirstLabel[k] = "increment"
    BY <1>1, <1>4 DEF FirstLabel
  <2>2. QED
    BY <1>2, <1>4, <2>1
<1>5. CASE k = "getvalue"
  <2>1. FirstLabel[k] = "read"
    BY <1>1, <1>5 DEF FirstLabel
  <2>2. QED
    BY <1>2, <2>1
<1>6. QED
  BY <1>1, <1>3, <1>4, <1>5

\* A call begins: the thread holds nothing, and did not keep the mutex unless
\* it said so.
LEMMA BeginKeeps ==
  ASSUME SemInv, NEW t \in Threads, NEW k \in Kinds, NEW s \in Sems, Begin(t, k, s)
  PROVE  SemInv'
<1>1. k \in AllKinds
  BY KindsAssumption
<1>2. TypeOK'
  BY <1>1, FirstTyped DEF SemInv, Begin, At, Goto, Becomes, TypeOK, Labels
<1>3. /\ pc[t] = "idle" /\ pc' = [pc EXCEPT ![t] = "lock"] /\ sem' = [sem EXCEPT ![t] = s]
      /\ UNCHANGED <<mutex, value, posted>>
  BY DEF Begin, At, Goto
<1>4. /\ \A u \in Threads : u # t => /\ pc'[u] = pc[u] /\ sem'[u] = sem[u]
                                     /\ kind'[u] = kind[u] /\ status'[u] = status[u]
      /\ pc'[t] = "lock"
  BY DEF Begin, Goto, Becomes, SemInv, TypeOK
<1>5. NoUnderflow'
  BY <1>3, <1>4 DEF SemInv, NoUnderflow, Holds
<1>6. NoLostPost'
  BY <1>3, <1>4 DEF SemInv, NoLostPost
<1>7. LeaksAreReported'
  BY <1>3, <1>4 DEF SemInv, LeaksAreReported, At
<1>8. QED
  BY <1>2, <1>5, <1>6, <1>7 DEF SemInv

\* The steps of a call keep the types.
LEMMA StepTyped ==
  ASSUME TypeOK, NEW t \in Threads, Step(t) \/ SpuriousWakeup(t)
  PROVE  TypeOK'
<1> USE DEF At, Goto, Becomes
<1>1. CASE Lock(t)
  <2>1. FirstLabel[kind[t]] \in Labels
    BY FirstTyped DEF TypeOK, Labels
  <2>2. QED
    BY <1>1, <2>1, FirstTyped DEF Lock, TypeOK
<1>2. CASE Take(t) \/ Increment(t)
  <2>1. value' \in Nat
    BY <1>2, ValuesAssumption DEF TypeOK, Take, Increment
  <2>2. QED
    BY <1>2, <2>1 DEF TypeOK, Take, Increment, Labels
<1>3. CASE Broadcast(t)
  BY <1>3 DEF TypeOK, Broadcast, Labels, Waits
<1>4. CASE Block(t) \/ BlockFails(t) \/ TimesOut(t) \/ SpuriousWakeup(t)
  BY <1>4 DEF TypeOK, Block, BlockFails, TimesOut, SpuriousWakeup, Labels, Statuses
<1>5. CASE Relock(t) \/ RelockAfterTimeout(t) \/ FindToken(t) \/ MissToken(t)
  BY <1>5 DEF TypeOK, Relock, RelockAfterTimeout, FindToken, MissToken, Labels, Statuses
<1>6. CASE Read(t) \/ Unlock(t)
  BY <1>6 DEF TypeOK, Read, Unlock, Labels, Statuses
<1>7. QED
  BY <1>1, <1>2, <1>3, <1>4, <1>5, <1>6 DEF Step

\* Only the owner of the mutex changes the value, and only a thread that finds
\* the mutex free comes to own it.
LEMMA StepNoUnderflow ==
  ASSUME SemInv, NEW t \in Threads, Step(t) \/ SpuriousWakeup(t)
  PROVE  NoUnderflow'
<1>1. /\ NoThread \notin Threads
      /\ pc \in [Threads -> Labels]
      /\ kind[t] \in AllKinds
      /\ \A u \in Threads : Holds(u) => mutex = u
      /\ \A u \in Threads : pc[u] = "take" => value # 0
  BY ThreadsAssumption DEF SemInv, TypeOK, NoUnderflow
<1>2. FirstLabel[kind[t]] \in {"test", "increment", "read"}
  BY <1>1, FirstTyped
<1> USE DEF At, Goto, Becomes, Holds
<1>3. CASE Lock(t)
  BY <1>1, <1>2, <1>3 DEF Lock, NoUnderflow
<1>4. CASE Broadcast(t)
  BY <1>1, <1>4 DEF Broadcast, NoUnderflow
<1>5. CASE Take(t) \/ Increment(t) \/ Unlock(t)
  BY <1>1, <1>5 DEF Take, Increment, Unlock, NoUnderflow
<1>6. CASE \/ Block(t) \/ BlockFails(t) \/ TimesOut(t) \/ SpuriousWakeup(t) \/ Relock(t)
           \/ RelockAfterTimeout(t) \/ FindToken(t) \/ MissToken(t) \/ Read(t)
  BY <1>1, <1>6
     DEF Block, BlockFails, TimesOut, SpuriousWakeup, Relock, RelockAfterTimeout, FindToken,
         MissToken, Read, NoUnderflow
<1>7. QED
  BY <1>3, <1>4, <1>5, <1>6 DEF Step

\* A thread goes to sleep on no token, and the thread that adds one broadcasts
\* before anything else.
LEMMA StepNoLostPost ==
  ASSUME SemInv, NEW t \in Threads, Step(t) \/ SpuriousWakeup(t)
  PROVE  NoLostPost'
<1>1. /\ pc \in [Threads -> Labels] /\ sem \in [Threads -> Sems]
      /\ posted \subseteq Sems /\ sem' = sem
      /\ FirstLabel[kind[t]] \in {"test", "increment", "read"}
  BY FirstTyped
     DEF SemInv, TypeOK, Step, Lock, Block, BlockFails, TimesOut, SpuriousWakeup, Relock,
         RelockAfterTimeout, FindToken, MissToken, Take, Increment, Broadcast, Read, Unlock
<1>2. /\ \A u \in Threads : Holds(u) => mutex = u
      /\ \A u \in Threads : pc[u] = "take" => value # 0
  BY DEF SemInv, NoUnderflow
<1>3. \A u \in Threads : pc[u] = "blocked" /\ value # 0 =>
        \/ \E v \in Threads : pc[v] = "broadcast" /\ sem[v] = sem[u]
        \/ posted \ {sem[u]} # {}
  BY DEF SemInv, NoLostPost
<1> USE DEF At, Goto, Becomes
<1>4. CASE Increment(t)
  <2> SUFFICES ASSUME NEW u \in Threads, pc'[u] = "blocked"
               PROVE  \/ \E v \in Threads : pc'[v] = "broadcast" /\ sem'[v] = sem'[u]
                      \/ posted' \ {sem'[u]} # {}
    BY DEF NoLostPost
  <2>1. pc'[t] = "broadcast" /\ posted' = posted \cup {sem[t]}
    BY <1>1, <1>4 DEF Increment
  <2>2. CASE sem[u] = sem[t]
    BY <1>1, <2>1, <2>2
  <2>3. CASE sem[u] # sem[t]
    BY <1>1, <2>1, <2>3
  <2>4. QED
    BY <2>2, <2>3
<1>5. CASE Broadcast(t)
  <2> SUFFICES ASSUME NEW u \in Threads, pc'[u] = "blocked", value # 0
               PROVE  posted \ {sem[u]} # {}
    BY <1>1, <1>5 DEF Broadcast, NoLostPost
  <2>1. pc[u] = "blocked" /\ sem[u] # sem[t]
    BY <1>5 DEF Broadcast
  <2>2. \A v \in Threads : pc[v] = "broadcast" => v = t
    BY <1>2, <1>5 DEF Broadcast, Holds
  <2>3. QED
    BY <1>3, <2>1, <2>2
<1>6. CASE Take(t)
  <2>1. \A v \in Threads : pc'[v] = "blocked" => pc[v] = "blocked"
    BY <1>1, <1>6 DEF Take
  <2>2. \A v \in Threads : pc[v] = "broadcast" => pc'[v] = "broadcast"
    BY <1>1, <1>6 DEF Take
  <2>3. value # 0 /\ posted' = posted
    BY <1>2, <1>6 DEF Take
  <2>4. QED
    BY <1>1, <1>3, <2>1, <2>2, <2>3 DEF NoLostPost
<1>7. CASE Block(t)
  BY <1>1, <1>3, <1>7 DEF Block, NoLostPost
<1>8. CASE Lock(t)
  BY <1>1, <1>3, <1>8 DEF Lock, NoLostPost
<1>9. CASE \/ BlockFails(t) \/ TimesOut(t) \/ SpuriousWakeup(t) \/ Relock(t)
           \/ RelockAfterTimeout(t) \/ FindToken(t) \/ MissToken(t) \/ Read(t) \/ Unlock(t)
  BY <1>1, <1>3, <1>9
     DEF BlockFails, TimesOut, SpuriousWakeup, Relock, RelockAfterTimeout, FindToken, MissToken,
         Read, Unlock, NoLostPost
<1>10. QED
  BY <1>4, <1>5, <1>6, <1>7, <1>8, <1>9 DEF Step

\* A step that returns either gives the mutex back or sets an error; a thread
\* that has returned does not move, and gains the mutex only by a new call.
LEMMA StepLeaksReported ==
  ASSUME SemInv, NEW t \in Threads, Step(t) \/ SpuriousWakeup(t)
  PROVE  LeaksAreReported'
<1>1. /\ NoThread \notin Threads
      /\ pc \in [Threads -> Labels] /\ status \in [Threads -> Statuses]
      /\ kind' = kind /\ (pc[t] \in {"test", "timedout"} => kind[t] \in Waits)
      /\ FirstLabel[kind[t]] \in {"test", "increment", "read"}
      /\ \A u \in Threads : pc[u] = "idle" /\ mutex = u => status[u] # "0" /\ kind[u] \in Waits
  BY ThreadsAssumption, FirstTyped
     DEF SemInv, TypeOK, LeaksAreReported, At, Step, Lock, Block, BlockFails, TimesOut,
         SpuriousWakeup, Relock, RelockAfterTimeout, FindToken, MissToken, Take, Increment,
         Broadcast, Read, Unlock
<1> USE DEF At, Goto, Becomes
<1>2. CASE Lock(t) \/ Relock(t)
  BY <1>1, <1>2 DEF Lock, Relock, LeaksAreReported
<1>3. CASE BlockFails(t) \/ RelockAfterTimeout(t) \/ MissToken(t)
  BY <1>1, <1>3 DEF BlockFails, RelockAfterTimeout, MissToken, LeaksAreReported
<1>4. CASE Broadcast(t)
  BY <1>1, <1>4 DEF Broadcast, LeaksAreReported
<1>5. CASE \/ Block(t) \/ TimesOut(t) \/ SpuriousWakeup(t) \/ FindToken(t) \/ Take(t)
           \/ Increment(t) \/ Read(t) \/ Unlock(t)
  BY <1>1, <1>5
     DEF Block, TimesOut, SpuriousWakeup, FindToken, Take, Increment, Read, Unlock,
         LeaksAreReported
<1>6. QED
  BY <1>2, <1>3, <1>4, <1>5 DEF Step

\* Every step of the operations of sem_wrapper keeps that.
THEOREM SemStep == SemInv /\ [Next]_vars => SemInv'
<1> SUFFICES ASSUME SemInv, [Next]_vars PROVE SemInv'
  OBVIOUS
<1>1. ASSUME NEW t \in Threads, NEW k \in Kinds, NEW s \in Sems, Begin(t, k, s) PROVE SemInv'
  BY <1>1, BeginKeeps
<1>2. ASSUME NEW t \in Threads, Step(t) \/ SpuriousWakeup(t) PROVE SemInv'
  BY <1>2, StepTyped, StepNoUnderflow, StepNoLostPost, StepLeaksReported DEF SemInv
<1>3. CASE UNCHANGED vars
  BY <1>3
     DEF vars, SemInv, TypeOK, NoUnderflow, Holds, NoLostPost, LeaksAreReported, At
<1>4. QED
  BY <1>1, <1>2, <1>3 DEF Next

\* The counter of sem_wrapper never wraps below 0, no post is lost on its own handle, and
\* a call that leaves the mutex locked returns an error.
THEOREM SemInvariant == Spec => []SemInv
<1>1. QED
  BY SemInit, SemStep, PTL DEF Spec

\* The counter stays in its range and every thread at a statement of the
\* operation it called, with a handle of sem_wrapper_init.
THEOREM SemTypeCorrect == Spec => []TypeOK
<1>1. SemInv => TypeOK
  BY DEF SemInv
<1>2. QED
  BY <1>1, SemInvariant, PTL

\* No wait takes a token that is not there: f_sem_value never wraps below 0.
THEOREM SemNeverUnderflows == Spec => []NoUnderflow
<1>1. SemInv => NoUnderflow
  BY DEF SemInv
<1>2. QED
  BY <1>1, SemInvariant, PTL

\* While every post uses a waiter's handle, the waiter does not sleep beside a
\* token.
THEOREM SemLosesNoPost == Spec => []NoLostPost
<1>1. SemInv => NoLostPost
  BY DEF SemInv
<1>2. QED
  BY <1>1, SemInvariant, PTL

\* A call that returns 0 has released the mutex.
THEOREM SemReportsLeaks == Spec => []LeaksAreReported
<1>1. SemInv => LeaksAreReported
  BY DEF SemInv
<1>2. QED
  BY <1>1, SemInvariant, PTL

-----------------------------------------------------------------------------
(* The wrapper implements the counting semaphore.                            *)

\* The posts that have yet to increment the value.
Pending == {t \in Threads : kind[t] = "post" /\ pc[t] \in {"lock", "increment"}}

\* Every post to come, under way or not yet called, has room below the wrap: a
\* call that is made takes its place from those that may still be made.
RoomInv ==
  /\ IsFiniteSet(Pending)
  /\ calls \in 0 .. MaxCalls
  /\ value + Cardinality(Pending) + (MaxCalls - calls) < Wrap
  /\ \A t \in Threads : pc[t] = "read" => kind[t] = "getvalue"

\* The number of pending posts when one joins or leaves them.
LEMMA PendingChanges ==
  ASSUME IsFiniteSet(Pending), NEW t \in Threads
  PROVE  /\ Cardinality(Pending) \in Nat
         /\ Pending' = Pending \cup {t} /\ t \notin Pending =>
              IsFiniteSet(Pending') /\ Cardinality(Pending') = Cardinality(Pending) + 1
         /\ Pending' = Pending \ {t} /\ t \in Pending =>
              IsFiniteSet(Pending') /\ Cardinality(Pending') = Cardinality(Pending) - 1
BY FS_CardinalityType, FS_AddElement, FS_RemoveElement

\* The room is there at first and no step takes it away.
LEMMA RoomStarts == FewPosts /\ Init => RoomInv
<1> SUFFICES ASSUME FewPosts, Init PROVE RoomInv
  OBVIOUS
<1>1. Pending = {} /\ \A t \in Threads : pc[t] = "idle"
  BY DEF Init, Pending
<1>2. calls = 0 /\ MaxCalls \in Nat /\ value \in Nat /\ value + MaxCalls < Wrap /\ Wrap \in Nat
  BY ValuesAssumption DEF Init, FewPosts
<1>3. QED
  BY <1>1, <1>2, FS_EmptySet DEF RoomInv

\* A step keeps the room a count needs.
LEMMA RoomStays == SemInv /\ RoomInv /\ [Next]_vars => RoomInv'
<1> SUFFICES ASSUME SemInv, RoomInv, [Next]_vars PROVE RoomInv'
  OBVIOUS
<1> USE DEF At, Goto
<1>1. /\ pc \in [Threads -> Labels] /\ kind \in [Threads -> AllKinds] /\ value \in Nat
      /\ IsFiniteSet(Pending) /\ calls \in Nat /\ calls <= MaxCalls /\ MaxCalls \in Nat /\ Wrap \in Nat
      /\ value + Cardinality(Pending) + (MaxCalls - calls) < Wrap /\ Cardinality(Pending) \in Nat
      /\ \A t \in Threads : pc[t] = "read" => kind[t] = "getvalue"
  BY ValuesAssumption, FS_CardinalityType DEF SemInv, TypeOK, RoomInv
<1>2. CASE UNCHANGED vars
  BY <1>2 DEF vars, RoomInv, Pending
<1>3. ASSUME NEW t \in Threads, NEW k \in Kinds, NEW s \in Sems, Begin(t, k, s) PROVE RoomInv'
  <2>1. /\ calls' = calls + 1 /\ calls < MaxCalls /\ value' = value /\ pc[t] = "idle"
        /\ pc' = [pc EXCEPT ![t] = "lock"] /\ kind' = [kind EXCEPT ![t] = k]
    BY <1>3 DEF Begin
  <2>2. \A u \in Threads : pc'[u] = "read" => kind'[u] = "getvalue"
    BY <1>1, <2>1
  <2>3. t \notin Pending
    BY <2>1 DEF Pending
  <2>4. CASE k = "post"
    <3>1. Pending' = Pending \cup {t}
      BY <1>1, <2>1, <2>4 DEF Pending
    <3>2. IsFiniteSet(Pending') /\ Cardinality(Pending') = Cardinality(Pending) + 1
      BY <1>1, <2>3, <3>1, PendingChanges
    <3>3. QED
      BY <1>1, <2>1, <2>2, <3>2 DEF RoomInv
  <2>5. CASE k # "post"
    <3>1. Pending' = Pending
      BY <1>1, <2>1, <2>5 DEF Pending
    <3>2. QED
      BY <1>1, <2>1, <2>2, <3>1 DEF RoomInv
  <2>6. QED
    BY <2>4, <2>5
<1>4. ASSUME NEW t \in Threads, Increment(t) PROVE RoomInv'
  <2>1. /\ calls' = calls /\ kind' = kind /\ pc[t] = "increment" /\ value' = (value + 1) % Wrap
        /\ pc' = [pc EXCEPT ![t] = "broadcast"]
    BY <1>4 DEF Increment
  <2>2. kind[t] = "post"
    BY <2>1 DEF SemInv, TypeOK
  <2>3. t \in Pending /\ Pending' = Pending \ {t}
    BY <1>1, <2>1, <2>2 DEF Pending
  <2>4. IsFiniteSet(Pending') /\ Cardinality(Pending') = Cardinality(Pending) - 1 /\ Cardinality(Pending') \in Nat
    BY <1>1, <2>3, PendingChanges, FS_CardinalityType
  <2>5. value' = value + 1
    BY <1>1, <2>1, <2>4
  <2>6. QED
    BY <1>1, <2>1, <2>4, <2>5 DEF RoomInv
<1>5. ASSUME NEW t \in Threads, Take(t) PROVE RoomInv'
  <2>1. /\ calls' = calls /\ kind' = kind /\ pc[t] = "take" /\ value' = (value + Wrap - 1) % Wrap
        /\ pc' = [pc EXCEPT ![t] = "unlock"] /\ value # 0
    BY <1>5 DEF Take, SemInv, NoUnderflow
  <2>2. value' = value - 1
    BY <1>1, <2>1
  <2>3. Pending' = Pending
    BY <1>1, <2>1 DEF Pending
  <2>4. QED
    BY <1>1, <2>1, <2>2, <2>3 DEF RoomInv
<1>6. ASSUME NEW t \in Threads, Step(t) \/ SpuriousWakeup(t), ~Increment(t), ~Take(t) PROVE RoomInv'
  <2>1. calls' = calls /\ kind' = kind /\ value' = value
    BY <1>6 DEF Step, Lock, Block, BlockFails, TimesOut, SpuriousWakeup, Relock, RelockAfterTimeout, FindToken,
                MissToken, Broadcast, Read, Unlock
  <2>2. CASE Lock(t)
    <3>1. pc[t] = "lock" /\ pc' = [pc EXCEPT ![t] = FirstLabel[kind[t]]]
      BY <2>2 DEF Lock
    <3>2. /\ FirstLabel[kind[t]] = "increment" <=> kind[t] = "post"
          /\ FirstLabel[kind[t]] = "read" <=> kind[t] = "getvalue"
          /\ FirstLabel[kind[t]] # "lock"
      BY <1>1 DEF FirstLabel, AllKinds, Waits
    <3>3. Pending' = Pending
      BY <1>1, <2>1, <3>1, <3>2 DEF Pending
    <3>4. \A u \in Threads : pc'[u] = "read" => kind'[u] = "getvalue"
      BY <1>1, <2>1, <3>1, <3>2
    <3>5. QED
      BY <1>1, <2>1, <3>3, <3>4 DEF RoomInv
  <2>3. CASE ~Lock(t)
    <3>1. /\ pc' \in [Threads -> Labels]
          /\ \A u \in Threads : pc'[u] # "read" \/ pc'[u] = pc[u]
          /\ \A u \in Threads : pc'[u] \in {"lock", "increment"} <=> pc[u] \in {"lock", "increment"}
      BY <1>1, <1>6, <2>3
         DEF Step, Block, BlockFails, TimesOut, SpuriousWakeup, Relock, RelockAfterTimeout, FindToken,
             MissToken, Broadcast, Read, Unlock, Labels
    <3>2. Pending' = Pending
      BY <2>1, <3>1 DEF Pending
    <3>3. \A u \in Threads : pc'[u] = "read" => kind'[u] = "getvalue"
      BY <1>1, <2>1, <3>1
    <3>4. QED
      BY <1>1, <2>1, <3>2, <3>3 DEF RoomInv
  <2>4. QED
    BY <2>2, <2>3
<1>7. QED
  BY <1>2, <1>3, <1>4, <1>5, <1>6 DEF Next, Step

\* A call that moves on by itself is one step of the semaphore, or none.
LEMMA OneCallMoves ==
  ASSUME NEW t \in Threads,
         \A u \in Threads : u # t => StateOf(u)' = StateOf(u)
  PROVE  [u \in Threads |-> StateOf(u)]' = [[u \in Threads |-> StateOf(u)] EXCEPT ![t] = StateOf(t)']
OBVIOUS

\* Every step of the wrapper is a step of the semaphore or leaves it alone.
THEOREM SemaphoreStep == SemInv /\ RoomInv /\ [Next]_vars => [Semaphore!Next]_Semaphore!semVars
<1> SUFFICES ASSUME SemInv, RoomInv, [Next]_vars PROVE [Semaphore!Next]_Semaphore!semVars
  OBVIOUS
<1> USE DEF At, Goto
<1>1. /\ pc \in [Threads -> Labels] /\ kind \in [Threads -> AllKinds] /\ status \in [Threads -> Statuses]
      /\ value \in Nat /\ Wrap \in Nat
      /\ \A u \in Threads : /\ pc[u] \in {"test", "blocked", "woken", "timedout", "take"} => kind[u] \in Waits
                            /\ pc[u] = "timedout" => kind[u] \in Timed
                            /\ pc[u] \in {"increment", "broadcast"} => kind[u] = "post"
                            /\ pc[u] = "read" => kind[u] = "getvalue"
  BY ValuesAssumption DEF SemInv, TypeOK, RoomInv
<1>2. "post" \notin Waits /\ "getvalue" \notin Waits /\ "post" \notin Timed /\ "getvalue" \notin Timed
  BY DEF Waits, Timed
<1> DEFINE st == [u \in Threads |-> StateOf(u)]
<1>3. ASSUME NEW t \in Threads, \A u \in Threads : u # t => StateOf(u)' = StateOf(u),
             \/ StateOf(t)' = StateOf(t) /\ value' = value
             \/ /\ value' = value
                /\ \/ StateOf(t) \in Semaphore!Answers /\ StateOf(t)' \in Semaphore!Calls
                   \/ StateOf(t) \in Semaphore!Succeeding /\ StateOf(t)' = "succeeded"
                   \/ StateOf(t) \in Semaphore!Failing /\ StateOf(t)' = "failed"
             \/ /\ \/ StateOf(t) = "waiting" /\ StateOf(t)' = "served"
                   \/ StateOf(t) = "trying" /\ StateOf(t)' = "taken"
                /\ value > 0 /\ value' = value - 1
             \/ StateOf(t) = "posting" /\ StateOf(t)' = "posted" /\ value' = value + 1
      PROVE  [Semaphore!Next]_Semaphore!semVars
  <2>1. st' = [st EXCEPT ![t] = StateOf(t)'] /\ st[t] = StateOf(t)
    BY <1>3, OneCallMoves
  <2>2. CASE StateOf(t)' = StateOf(t) /\ value' = value
    <3>1. st' = st
      BY <1>3, <2>2
    <3>2. QED
      BY <2>2, <3>1 DEF Semaphore!semVars
  <2>3. CASE ~(StateOf(t)' = StateOf(t) /\ value' = value)
    <3>1. Semaphore!Serve(t) \/ Semaphore!Deliver(t) \/ Semaphore!CallOrReturn(t)
      <4> HIDE DEF st
      <4>1. \A from, to : StateOf(t) = from /\ StateOf(t)' = to => st[t] = from /\ st' = [st EXCEPT ![t] = to]
        BY <2>1
      <4> USE DEF st
      <4>2. \A from, to : StateOf(t) = from /\ StateOf(t)' = to => Semaphore!Become(t, from, to)
        BY <4>1 DEF Semaphore!Become
      <4>3. QED
        BY <1>3, <2>3, <4>2 DEF Semaphore!Serve, Semaphore!Deliver, Semaphore!CallOrReturn
    <3>2. QED
      BY <3>1 DEF Semaphore!Next
  <2>4. QED
    BY <2>2, <2>3
<1> HIDE DEF st
<1>4. ASSUME NEW u \in Threads, pc'[u] = pc[u], kind'[u] = kind[u], status'[u] = status[u]
      PROVE  StateOf(u)' = StateOf(u)
  BY <1>4 DEF StateOf, StageOfWait
<1>5. CASE UNCHANGED vars
  <2>1. \A u \in Threads : StateOf(u)' = StateOf(u)
    BY <1>4, <1>5 DEF vars
  <2>2. st' = st /\ value' = value
    BY <1>5, <2>1 DEF st, vars
  <2>3. QED
    BY <2>2 DEF Semaphore!semVars, st
<1>6. ASSUME NEW t \in Threads, NEW k \in Kinds, NEW s \in Sems, Begin(t, k, s)
      PROVE  [Semaphore!Next]_Semaphore!semVars
  <2>1. /\ pc[t] = "idle" /\ pc' = [pc EXCEPT ![t] = "lock"] /\ kind' = [kind EXCEPT ![t] = k] /\ value' = value
        /\ status' = [status EXCEPT ![t] = FirstStatus[k]] /\ k \in AllKinds
    BY <1>6, KindsAssumption DEF Begin, Becomes
  <2>2. \A u \in Threads : u # t => StateOf(u)' = StateOf(u)
    BY <1>1, <1>4, <2>1
  <2>3. pc'[t] = "lock" /\ kind'[t] = k
    BY <1>1, <2>1
  <2>4. StateOf(t) \in Semaphore!Answers /\ StateOf(t)' \in Semaphore!Calls
    <3>1. StateOf(t) \in {"succeeded", "failed"}
      BY <2>1 DEF StateOf
    <3>2. StateOf(t)' \in {"waiting", "trying", "posting", "asking"}
      BY <2>3 DEF StateOf, StageOfWait
    <3>3. QED
      BY <3>1, <3>2 DEF Semaphore!Answers, Semaphore!Calls
  <2>5. QED
    BY <1>3, <2>1, <2>2, <2>4
<1>7. ASSUME NEW t \in Threads, Broadcast(t) PROVE [Semaphore!Next]_Semaphore!semVars
  <2>1. /\ pc[t] = "broadcast" /\ kind' = kind /\ value' = value /\ status' = status
        /\ pc' = [u \in Threads |-> IF u = t THEN "unlock"
                                    ELSE IF pc[u] = "blocked" /\ sem[u] = sem[t] THEN "woken" ELSE pc[u]]
    BY <1>7 DEF Broadcast
  <2>2. \A u \in Threads : u # t => StateOf(u)' = StateOf(u)
    <3> SUFFICES ASSUME NEW u \in Threads, u # t PROVE StateOf(u)' = StateOf(u)
      OBVIOUS
    <3>1. CASE pc[u] = "blocked"
      <4>1. kind[u] \in Waits /\ kind[u] # "getvalue" /\ pc'[u] \in {"blocked", "woken"} /\ kind'[u] = kind[u]
        BY <1>1, <1>2, <2>1, <3>1
      <4>2. QED
        BY <3>1, <4>1 DEF StateOf, StageOfWait
    <3>2. CASE pc[u] # "blocked"
      BY <1>4, <2>1, <3>2
    <3>3. QED
      BY <3>1, <3>2
  <2>3. kind[t] = "post" /\ pc'[t] = "unlock" /\ kind'[t] = "post"
    BY <1>1, <2>1
  <2>4. StateOf(t)' = StateOf(t)
    BY <1>2, <2>1, <2>3 DEF StateOf
  <2>5. QED
    BY <1>3, <2>1, <2>2, <2>4
<1>8. ASSUME NEW t \in Threads, Step(t) \/ SpuriousWakeup(t), ~Broadcast(t)
      PROVE  [Semaphore!Next]_Semaphore!semVars
  <2>1. /\ kind' = kind /\ (\E l : pc' = [pc EXCEPT ![t] = l])
        /\ status' = status \/ \E r : status' = [status EXCEPT ![t] = r]
    BY <1>8 DEF Step, Lock, Block, BlockFails, TimesOut, SpuriousWakeup, Relock, RelockAfterTimeout, FindToken,
                MissToken, Take, Increment, Read, Unlock, Becomes
  <2>2. \A u \in Threads : u # t => StateOf(u)' = StateOf(u)
    BY <1>1, <1>4, <2>1
  <2>3. CASE Take(t)
    <3>1. /\ pc[t] = "take" /\ pc'[t] = "unlock" /\ kind[t] \in Waits /\ kind[t] # "getvalue" /\ kind'[t] = kind[t]
          /\ value # 0 /\ value' = (value + Wrap - 1) % Wrap
      BY <1>1, <1>2, <2>1, <2>3 DEF Take, SemInv, NoUnderflow
    <3>2. value > 0 /\ value' = value - 1
      <4>1. value < Wrap
        <5>1. Cardinality(Pending) \in Nat /\ calls \in Nat /\ calls <= MaxCalls /\ MaxCalls \in Nat
          BY ValuesAssumption, FS_CardinalityType DEF RoomInv
        <5>2. QED
          BY <1>1, <5>1 DEF RoomInv
      <4>2. QED
        BY <1>1, <3>1, <4>1
    <3>3. \/ StateOf(t) = "waiting" /\ StateOf(t)' = "served"
          \/ StateOf(t) = "trying" /\ StateOf(t)' = "taken"
      BY <1>2, <3>1 DEF StateOf, StageOfWait
    <3>4. QED
      BY <1>3, <2>2, <3>2, <3>3
  <2>4. CASE Increment(t)
    <3>1. /\ pc[t] = "increment" /\ pc'[t] = "broadcast" /\ kind[t] = "post" /\ kind'[t] = "post"
          /\ value' = (value + 1) % Wrap
      BY <1>1, <2>1, <2>4 DEF Increment
    <3>2. value' = value + 1
      <4>1. t \in Pending
        BY <3>1 DEF Pending
      <4>2. Cardinality(Pending) \in Nat \ {0} /\ calls \in Nat /\ calls <= MaxCalls /\ MaxCalls \in Nat
        BY <4>1, ValuesAssumption, FS_CardinalityType, FS_EmptySet DEF RoomInv
      <4>3. value + 1 < Wrap
        BY <1>1, <4>2 DEF RoomInv
      <4>4. QED
        BY <1>1, <3>1, <4>3
    <3>3. StateOf(t) = "posting" /\ StateOf(t)' = "posted"
      BY <1>2, <3>1 DEF StateOf
    <3>4. QED
      BY <1>3, <2>2, <3>2, <3>3
  <2>5. CASE ~Take(t) /\ ~Increment(t)
    <3>1. value' = value /\ kind'[t] = kind[t] /\ kind[t] \in AllKinds
      BY <1>1, <1>8, <2>5 DEF Step, Lock, Block, BlockFails, TimesOut, SpuriousWakeup, Relock,
                              RelockAfterTimeout, FindToken, MissToken, Read, Unlock
    <3>2. \/ pc[t] = "lock" /\ pc'[t] = FirstLabel[kind[t]]
          \/ pc[t] \in {"test", "blocked", "woken"} /\ pc'[t] \in {"test", "blocked", "woken", "timedout", "take", "idle"}
          \/ pc[t] = "timedout" /\ pc'[t] = "idle"
          \/ pc[t] = "read" /\ pc'[t] = "unlock"
          \/ pc[t] = "unlock" /\ pc'[t] = "idle"
      BY <1>1, <1>8, <2>5 DEF Step, Lock, Block, BlockFails, TimesOut, SpuriousWakeup, Relock,
                              RelockAfterTimeout, FindToken, MissToken, Read, Unlock
    <3>3. pc[t] = "unlock" => status'[t] = IF kind[t] \in Timed THEN "-1" ELSE "0"
      BY <1>1, <1>8, <2>5 DEF Step, Lock, Block, BlockFails, TimesOut, SpuriousWakeup, Relock,
                              RelockAfterTimeout, FindToken, MissToken, Read, Unlock, Becomes
    <3>4. pc[t] \in {"test", "blocked", "woken", "timedout"} /\ pc'[t] = "idle" => status'[t] # "0"
      BY <1>1, <1>8, <2>5 DEF Step, Lock, Block, BlockFails, TimesOut, SpuriousWakeup, Relock,
                              RelockAfterTimeout, FindToken, MissToken, Read, Unlock, Becomes
    <3>5. \/ StateOf(t)' = StateOf(t)
          \/ StateOf(t) \in Semaphore!Succeeding /\ StateOf(t)' = "succeeded"
          \/ StateOf(t) \in Semaphore!Failing /\ StateOf(t)' = "failed"
      <4>1. CASE pc[t] = "lock" /\ pc'[t] = FirstLabel[kind[t]]
        <5>1. \/ kind[t] \in Waits /\ pc'[t] = "test"
              \/ kind[t] = "post" /\ pc'[t] = "increment"
              \/ kind[t] = "getvalue" /\ pc'[t] = "read"
          BY <3>1, <4>1 DEF FirstLabel, AllKinds, Waits
        <5>2. QED
          BY <1>2, <3>1, <4>1, <5>1 DEF StateOf, StageOfWait
      <4>2. CASE /\ pc[t] \in {"test", "blocked", "woken", "timedout"}
                 /\ pc'[t] \in {"test", "blocked", "woken", "timedout", "take", "idle"}
        <5>1. kind[t] \in Waits /\ kind[t] # "getvalue" /\ kind[t] # "post"
          BY <1>1, <1>2, <4>2
        <5>2. StateOf(t) = IF kind[t] \in Timed THEN "trying" ELSE "waiting"
          BY <4>2, <5>1 DEF StateOf, StageOfWait
        <5>3. CASE pc'[t] = "idle"
          <6>1. StateOf(t)' = "failed"
            BY <3>4, <4>2, <5>3 DEF StateOf
          <6>2. QED
            BY <5>2, <6>1 DEF Semaphore!Failing
        <5>4. CASE pc'[t] # "idle"
          BY <3>1, <4>2, <5>1, <5>2, <5>4 DEF StateOf, StageOfWait
        <5>5. QED
          BY <5>3, <5>4
      <4>3. CASE pc[t] = "read" /\ pc'[t] = "unlock"
        <5>1. kind[t] = "getvalue"
          BY <1>1, <4>3
        <5>2. QED
          BY <3>1, <4>3, <5>1 DEF StateOf
      <4>4. CASE pc[t] = "unlock" /\ pc'[t] = "idle"
        <5>1. CASE kind[t] \in Timed
          <6>1. StateOf(t) = "taken" /\ StateOf(t)' = "failed"
            BY <1>2, <3>3, <4>4, <5>1 DEF StateOf, StageOfWait
          <6>2. QED
            BY <6>1 DEF Semaphore!Failing
        <5>2. CASE kind[t] \notin Timed
          <6>1. StateOf(t) \in {"asking", "posted", "served"} /\ StateOf(t)' = "succeeded"
            BY <3>3, <4>4, <5>2 DEF StateOf, StageOfWait
          <6>2. QED
            BY <6>1 DEF Semaphore!Succeeding
        <5>3. QED
          BY <5>1, <5>2
      <4>5. QED
        BY <3>2, <4>1, <4>2, <4>3, <4>4
    <3>6. QED
      BY <1>3, <2>2, <3>1, <3>5
  <2>6. QED
    BY <2>3, <2>4, <2>5
<1>9. QED
  BY <1>5, <1>6, <1>7, <1>8 DEF Next

\* sem_wrapper implements CountingSemaphore, answers included: a post adds one
\* token and succeeds, a plain wait succeeds exactly when it took one, a timed
\* wait fails even when it took one.  For any number of threads and handles,
\* timeouts and failing waits, as long as f_sem_value cannot be posted beyond
\* its last value.
THEOREM WrapperIsSemaphore == FewPosts /\ Spec => ImplementsSemaphore
<1>1. Init => Semaphore!Init
  <2> SUFFICES ASSUME Init PROVE Semaphore!Init
    OBVIOUS
  <2>1. value \in Nat /\ \A t \in Threads : pc[t] = "idle" /\ status[t] = "0"
    BY ValuesAssumption DEF Init
  <2>2. \A t \in Threads : StateOf(t) = "succeeded"
    BY <2>1 DEF StateOf
  <2>3. QED
    BY <2>1, <2>2 DEF Semaphore!Init
<1>2. FewPosts /\ Spec => []RoomInv
  BY RoomStarts, RoomStays, SemInvariant, PTL DEF Spec
<1>3. QED
  BY <1>1, <1>2, SemaphoreStep, SemInvariant, PTL DEF Spec, ImplementsSemaphore, Semaphore!Spec
===============================================================================
