------------------------------ MODULE SemWrapper ------------------------------
(***************************************************************************)
(* sem_wrapper: counting semaphores made of one mutex, one counter and a   *)
(* condition variable.  The counter f_sem_value and the mutex belong to    *)
(* the file, only the condition variable to the handle: every semaphore of *)
(* a process counts in the same counter.                                   *)
(*                                                                         *)
(* pthread functions report an error as a positive number, never as -1, so *)
(* the tests of lock, unlock and broadcast against -1 never see one.       *)
(***************************************************************************)
EXTENDS Naturals

CONSTANTS
  Threads,
  Sems,        \* the handles, one condition variable each
  NoThread,    \* nobody owns the mutex
  Kinds,       \* the operations this instance calls
  InitValues,  \* arguments of sem_wrapper_init
  MayHappen,   \* whether pthread_cond_wait may fail
  MaxCalls,    \* bound: calls over all threads
  Wrap         \* f_sem_value is unsigned, modulo Wrap (2^32 in the code)

Waits == {"wait", "trywait", "timedwait"}
Timed == {"trywait", "timedwait"}
AllKinds == Waits \cup {"post", "getvalue"}

ASSUME ThreadsAssumption == NoThread \notin Threads /\ Sems # {}
ASSUME KindsAssumption == Kinds \subseteq AllKinds
ASSUME ValuesAssumption ==
  /\ Wrap \in Nat \ {0, 1}
  /\ InitValues \subseteq 0..(Wrap - 1)
  /\ MaxCalls \in Nat

VARIABLES
  pc,       \* pc[t]: the next statement of thread t
  kind,     \* kind[t]: the operation t is in, or was in last
  sem,      \* sem[t]: the handle it was given
  status,   \* status[t]: the local status, then what the call returned
  mutex,    \* owner of mutex
  value,    \* f_sem_value
  calls,    \* calls made so far
  posted    \* history: the handles sem_wrapper_post was called with

vars == <<pc, kind, sem, status, mutex, value, calls, posted>>

Statuses == {"0", "-1", "EAGAIN", "ETIMEDOUT"}

AnySem == CHOOSE s \in Sems : TRUE

\* sem_wrapper_init has returned, before any other thread uses the semaphore.
Init ==
  /\ pc = [t \in Threads |-> "idle"]
  /\ kind = [t \in Threads |-> "getvalue"]
  /\ sem = [t \in Threads |-> AnySem]
  /\ status = [t \in Threads |-> "0"]
  /\ mutex = NoThread
  /\ value \in InitValues
  /\ calls = 0
  /\ posted = {}

At(t, label) == pc[t] = label
Goto(t, label) == pc' = [pc EXCEPT ![t] = label]
Becomes(t, result) == status' = [status EXCEPT ![t] = result]

\* Every call starts with the mutex; each kind has its own first statement.
FirstLabel == [k \in AllKinds |->
  CASE k \in Waits -> "test" [] k = "post" -> "increment" [] k = "getvalue" -> "read"]
FirstStatus == [k \in AllKinds |-> IF k \in {"wait", "trywait"} THEN "0" ELSE "-1"]

-----------------------------------------------------------------------------

Begin(t, k, s) ==
  /\ At(t, "idle")
  /\ calls < MaxCalls
  /\ calls' = calls + 1
  /\ kind' = [kind EXCEPT ![t] = k]
  /\ sem' = [sem EXCEPT ![t] = s]
  /\ Becomes(t, FirstStatus[k])
  /\ Goto(t, "lock")
  /\ UNCHANGED <<mutex, value, posted>>

Lock(t) ==
  /\ At(t, "lock")
  /\ mutex = NoThread
  /\ mutex' = t
  /\ Goto(t, FirstLabel[kind[t]])
  /\ UNCHANGED <<kind, sem, status, value, calls, posted>>

\* while (0 == f_sem_value) pthread_cond_wait or pthread_cond_timedwait.
Block(t) ==
  /\ At(t, "test")
  /\ value = 0
  /\ mutex' = NoThread
  /\ Goto(t, "blocked")
  /\ UNCHANGED <<kind, sem, status, value, calls, posted>>

\* The wait fails at once and the call returns with the mutex.  trywait never
\* sets tv_nsec, which may hold a value pthread_cond_timedwait rejects.
BlockFails(t) ==
  /\ At(t, "test")
  /\ value = 0
  /\ kind[t] = "trywait" \/ "cond_fails" \in MayHappen
  /\ Becomes(t, "-1")
  /\ Goto(t, "idle")
  /\ UNCHANGED <<kind, sem, mutex, value, calls, posted>>

\* A signal, or none: POSIX allows spurious wakeups.
SpuriousWakeup(t) ==
  /\ At(t, "blocked")
  /\ Goto(t, "woken")
  /\ UNCHANGED <<kind, sem, status, mutex, value, calls, posted>>

\* Fault: the plain wait times out like the others.
TimesOutAlways(t) ==
  /\ At(t, "blocked")
  /\ Goto(t, "timedout")
  /\ UNCHANGED <<kind, sem, status, mutex, value, calls, posted>>

TimesOut(t) ==
  /\ At(t, "blocked")
  /\ kind[t] \in Timed
  /\ Goto(t, "timedout")
  /\ UNCHANGED <<kind, sem, status, mutex, value, calls, posted>>

\* Fault: the value is not looked at again after the wait.
RelockAndTake(t) ==
  /\ At(t, "woken")
  /\ mutex = NoThread
  /\ mutex' = t
  /\ Becomes(t, "0")
  /\ Goto(t, "take")
  /\ UNCHANGED <<kind, sem, value, calls, posted>>

\* The wait returns 0 with the mutex: the loop tests the value again.
Relock(t) ==
  /\ At(t, "woken")
  /\ mutex = NoThread
  /\ mutex' = t
  /\ Becomes(t, "0")
  /\ Goto(t, "test")
  /\ UNCHANGED <<kind, sem, value, calls, posted>>

\* Fault: a timeout that finds a token is no error.
RelockAfterTimeoutSilently(t) ==
  /\ At(t, "timedout")
  /\ mutex = NoThread
  /\ mutex' = t
  /\ Becomes(t, IF value = 0 THEN "EAGAIN" ELSE "0")
  /\ Goto(t, "idle")
  /\ UNCHANGED <<kind, sem, value, calls, posted>>

\* The wait returns ETIMEDOUT with the mutex; whether or not there is a token
\* by now, the call returns an error, keeps the mutex and takes nothing.
RelockAfterTimeout(t) ==
  /\ At(t, "timedout")
  /\ mutex = NoThread
  /\ mutex' = t
  /\ Becomes(t, IF value # 0 THEN "-1" ELSE IF kind[t] = "trywait" THEN "EAGAIN" ELSE "ETIMEDOUT")
  /\ Goto(t, "idle")
  /\ UNCHANGED <<kind, sem, value, calls, posted>>

FindToken(t) ==
  /\ At(t, "test")
  /\ value # 0
  /\ status[t] = "0"
  /\ Goto(t, "take")
  /\ UNCHANGED <<kind, sem, status, mutex, value, calls, posted>>

\* timedwait starts with status -1 and only a wait sets it to 0: if there is a
\* token at once it returns -1 with the mutex and takes nothing.
MissToken(t) ==
  /\ At(t, "test")
  /\ value # 0
  /\ status[t] # "0"
  /\ Goto(t, "idle")
  /\ UNCHANGED <<kind, sem, status, mutex, value, calls, posted>>

Take(t) ==
  /\ At(t, "take")
  /\ value' = (value + Wrap - 1) % Wrap
  /\ Goto(t, "unlock")
  /\ UNCHANGED <<kind, sem, status, mutex, calls, posted>>

Increment(t) ==
  /\ At(t, "increment")
  /\ value' = (value + 1) % Wrap
  /\ posted' = posted \cup {sem[t]}
  /\ Goto(t, "broadcast")
  /\ UNCHANGED <<kind, sem, status, mutex, calls>>

\* Fault: waiters are woken only when the value was 0 before, and only one.
BroadcastToOne(t) ==
  /\ At(t, "broadcast")
  /\ LET waiters == {u \in Threads : pc[u] = "blocked" /\ sem[u] = sem[t]}
     IN  IF value = 1 /\ waiters # {}
           THEN pc' = [pc EXCEPT ![t] = "unlock", ![CHOOSE u \in waiters : TRUE] = "woken"]
           ELSE Goto(t, "unlock")
  /\ UNCHANGED <<kind, sem, status, mutex, value, calls, posted>>

\* pthread_cond_broadcast wakes whoever waits on this handle's condition.
Broadcast(t) ==
  /\ At(t, "broadcast")
  /\ pc' = [u \in Threads |->
              IF u = t THEN "unlock"
              ELSE IF pc[u] = "blocked" /\ sem[u] = sem[t] THEN "woken" ELSE pc[u]]
  /\ UNCHANGED <<kind, sem, status, mutex, value, calls, posted>>

Read(t) ==
  /\ At(t, "read")
  /\ Goto(t, "unlock")
  /\ UNCHANGED <<kind, sem, status, mutex, value, calls, posted>>

\* Fault: the plain wait tests its unlock as the timed waits do.
UnlockInverted(t) ==
  /\ At(t, "unlock")
  /\ mutex' = NoThread
  /\ Becomes(t, IF kind[t] \in Waits THEN "-1" ELSE "0")
  /\ Goto(t, "idle")
  /\ UNCHANGED <<kind, sem, value, calls, posted>>

\* trywait and timedwait take a successful unlock for a failure: they have
\* decremented f_sem_value and return -1.
Unlock(t) ==
  /\ At(t, "unlock")
  /\ mutex' = NoThread
  /\ Becomes(t, IF kind[t] \in Timed THEN "-1" ELSE "0")
  /\ Goto(t, "idle")
  /\ UNCHANGED <<kind, sem, value, calls, posted>>

Step(t) ==
  \/ Lock(t) \/ Block(t) \/ BlockFails(t) \/ TimesOut(t) \/ Relock(t) \/ RelockAfterTimeout(t)
  \/ FindToken(t) \/ MissToken(t) \/ Take(t) \/ Increment(t) \/ Broadcast(t) \/ Read(t)
  \/ Unlock(t)

Next ==
  \/ \E t \in Threads, k \in Kinds, s \in Sems : Begin(t, k, s)
  \/ \E t \in Threads : Step(t) \/ SpuriousWakeup(t)

Spec == Init /\ [][Next]_vars

\* Threads are scheduled, and one that finds the mutex free again and again
\* gets it: calls are finite, so the others cannot take it for ever.
Fairness ==
  \A t \in Threads : WF_vars(Step(t)) /\ SF_vars(Lock(t) \/ Relock(t) \/ RelockAfterTimeout(t))

FairSpec == Spec /\ Fairness

-----------------------------------------------------------------------------
(* Properties.                                                               *)

Labels ==
  {"idle", "lock", "test", "blocked", "woken", "timedout", "take", "increment", "broadcast",
   "read", "unlock"}

\* Type invariant: every variable has its type, and a thread is at a label of
\* the operation it is in.
TypeOK ==
  /\ pc \in [Threads -> Labels]
  /\ kind \in [Threads -> AllKinds]
  /\ sem \in [Threads -> Sems]
  /\ status \in [Threads -> Statuses]
  /\ mutex \in Threads \cup {NoThread}
  /\ value \in Nat
  /\ calls \in Nat
  /\ posted \in SUBSET Sems
  /\ \A t \in Threads :
       /\ pc[t] \in {"test", "blocked", "woken", "timedout", "take"} => kind[t] \in Waits
       /\ pc[t] = "timedout" => kind[t] \in Timed
       /\ pc[t] \in {"increment", "broadcast"} => kind[t] = "post"

\* The statements between lock and unlock.
Holds(t) == pc[t] \in {"test", "take", "increment", "broadcast", "read", "unlock"}

\* A thread about to decrement finds a token: the value never wraps below 0,
\* whoever else was woken by the same broadcast, and whichever call leaked the
\* mutex before.
NoUnderflow ==
  \A t \in Threads :
    /\ Holds(t) => mutex = t
    /\ pc[t] = "take" => value # 0

\* A waiter never sleeps beside a token whose broadcast is past, unless the
\* token was posted through another handle, which counts in the same value
\* but wakes nobody here.
NoLostPost ==
  \A t \in Threads :
    pc[t] = "blocked" /\ value # 0 =>
      \/ \E u \in Threads : pc[u] = "broadcast" /\ sem[u] = sem[t]
      \/ posted \ {sem[t]} # {}

\* A call that returns 0 has given the mutex back, and one that keeps it, as
\* the error paths of the three waits do, reports an error.
LeaksAreReported ==
  \A t \in Threads : At(t, "idle") /\ mutex = t => status[t] # "0" /\ kind[t] \in Waits

\* How far a wait has come: only the decrement at take serves it.
StageOfWait(t) ==
  IF kind[t] \in Timed
  THEN IF pc[t] = "unlock" THEN "taken" ELSE "trying"
  ELSE IF pc[t] = "unlock" THEN "served" ELSE "waiting"

\* Where the call of a thread stands, as its caller sees it; when it has
\* returned, whether the value it returned was 0.
StateOf(t) ==
  IF pc[t] = "idle" THEN IF status[t] = "0" THEN "succeeded" ELSE "failed"
  ELSE IF kind[t] = "getvalue" THEN "asking"
  ELSE IF kind[t] = "post"
  THEN IF pc[t] \in {"lock", "increment"} THEN "posting" ELSE "posted"
  ELSE StageOfWait(t)

\* There are too few calls to post f_sem_value beyond its last value.
FewPosts == \A v \in InitValues : v + MaxCalls < Wrap

\* Whatever the mutex and the condition variables do, tokens and answers are
\* those of CountingSemaphore: a post succeeds and adds exactly one token, a
\* plain wait succeeds if it took exactly one and fails if it took none, and
\* a timed wait takes at most one but fails in either case (its caller cannot
\* tell a token it owns from none: this is not what a semaphore would answer).
Semaphore == INSTANCE CountingSemaphore WITH
  count <- value, state <- [t \in Threads |-> StateOf(t)]
ImplementsSemaphore == Semaphore!Spec

\* Under FairSpec, without the calls that keep the mutex: every call ends,
\* unless it waits and there is no token.
CallsEnd ==
  \A t \in Threads : pc[t] # "idle" ~> pc[t] = "idle" \/ (kind[t] = "wait" /\ value = 0)
===============================================================================
