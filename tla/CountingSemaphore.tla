--------------------------- MODULE CountingSemaphore ---------------------------
(***************************************************************************)
(* What sem_wrapper promises its callers, answers included: a post adds    *)
(* one token, a wait that is served removes one, and a call that gives up  *)
(* removes none.  A plain wait succeeds exactly when it took a token.  A   *)
(* wait with a time limit fails whether or not it took one: its answer     *)
(* does not tell, and this is all that can be promised of it.              *)
(***************************************************************************)
EXTENDS Naturals

CONSTANT Threads

VARIABLES
  count,  \* the tokens
  state   \* state[t]: how far the call of thread t has come, or what the last one answered

semVars == <<count, state>>

Answers == {"succeeded", "failed"}
Calls == {"waiting", "trying", "posting", "asking"}
Succeeding == {"served", "posted", "asking"}
Failing == {"waiting", "trying", "taken"}

TypeInvariant ==
  /\ count \in Nat
  /\ state \in [Threads -> Answers \cup Calls \cup Succeeding \cup Failing]

Init == count \in Nat /\ state = [t \in Threads |-> "succeeded"]

Become(t, from, to) == state[t] = from /\ state' = [state EXCEPT ![t] = to]

\* Only a served wait will succeed; one with a time limit has taken its token.
Serve(t) ==
  /\ Become(t, "waiting", "served") \/ Become(t, "trying", "taken")
  /\ count > 0
  /\ count' = count - 1

Deliver(t) == Become(t, "posting", "posted") /\ count' = count + 1

\* Calling and returning leave the tokens alone; a wait may return unserved.
CallOrReturn(t) ==
  /\ \/ \E answer \in Answers, call \in Calls : Become(t, answer, call)
     \/ \E stage \in Succeeding : Become(t, stage, "succeeded")
     \/ \E stage \in Failing : Become(t, stage, "failed")
  /\ UNCHANGED count

Next == \E t \in Threads : Serve(t) \/ Deliver(t) \/ CallOrReturn(t)

Spec == Init /\ [][Next]_semVars
===============================================================================
