---------------------------- MODULE ServerProcess ----------------------------
(***************************************************************************)
(* The server process of eLibrary.  The connection manager's thread converts *)
(* each request into its one request_data and queues a message with a        *)
(* pointer to it; the daemon turns messages into jobs; workers answer them.  *)
(* The queue and the job centre are external: both first in, first out; a    *)
(* message is copied when posted, a payload when its job is assigned.        *)
(***************************************************************************)
EXTENDS Integers, SequencesExt, FiniteSetsExt

CONSTANTS
  Workers,     \* as many as MAX_NUM_WORKERS
  Conns, NoConn,
  Kinds,       \* the retrieval types clients send
  InvalidKind, \* RETRIEVAL_TYPE_invalid
  MaxRequests  \* bound

ASSUME ServerAssumption ==
  /\ IsFiniteSet(Workers)
  /\ NoConn \notin Conns /\ InvalidKind \notin Kinds
  /\ MaxRequests \in Nat

VARIABLES
  asked,    \* history: the requests in the order they were converted
  posting,  \* whether the last of them is yet to be queued
  queue,    \* request numbers, or Termination
  over,     \* whether the daemon has ended
  centre,   \* the jobs nobody has picked
  job,      \* job[w]: what worker w handles
  sent,     \* history: the answers
  overrun   \* history: requests the next one was converted over

serverVars == <<asked, posting, queue, over, centre, job, sent, overrun>>

Termination == 0
\* JOB_MSG_DATA and the job made of it; "of" only tells which request it is.
Job(of, conn, kind, body) == [of |-> of, conn |-> conn, kind |-> kind, body |-> body]
Idle == Job(Termination, NoConn, InvalidKind, -1)
EndJob == Job(Termination, NoConn, InvalidKind, 0)

\* eLibrary_SVR_API_init
ServerInit ==
  /\ asked = <<>> /\ posting = FALSE /\ queue = <<>> /\ over = FALSE
  /\ centre = <<>> /\ job = [w \in Workers |-> Idle]
  /\ sent = <<>> /\ overrun = {}

\* thread_CNM_daemon: convertJSON2Struct fills the request_data that the
\* messages in the queue point to.  Which connection is read first is left open.
Convert(c, k) ==
  /\ ~posting /\ Len(asked) < MaxRequests
  /\ asked' = Append(asked, [conn |-> c, kind |-> k])
  /\ posting' = TRUE
  /\ overrun' = overrun \cup (ToSet(queue) \ {Termination})
  /\ UNCHANGED <<queue, over, centre, job, sent>>

\* CNM_event_listener
PostRequest ==
  /\ posting /\ posting' = FALSE
  /\ queue' = Append(queue, Len(asked))
  /\ UNCHANGED <<asked, over, centre, job, sent, overrun>>

\* eLibrary_SVR_API_term
\* Fault: the termination is posted as urgent.
PostTerminationFirst ==
  /\ Termination \notin ToSet(queue) /\ ~over
  /\ queue' = <<Termination>> \o queue
  /\ UNCHANGED <<asked, posting, over, centre, job, sent, overrun>>
PostTermination ==
  /\ Termination \notin ToSet(queue) /\ ~over
  /\ queue' = Append(queue, Termination)
  /\ UNCHANGED <<asked, posting, over, centre, job, sent, overrun>>

\* thread_SVR_daemon: the payload is whatever request_data holds by now.
\* Fault: the message is not destroyed.
AssignKept ==
  /\ ~over /\ queue # <<>> /\ Head(queue) # Termination
  /\ LET r == Head(queue) IN
       centre' = Append(centre, Job(r, asked[r].conn, asked[r].kind, Len(asked)))
  /\ UNCHANGED <<asked, posting, queue, over, job, sent, overrun>>
Assign ==
  /\ ~over /\ queue # <<>> /\ Head(queue) # Termination
  /\ LET r == Head(queue) IN
       centre' = Append(centre, Job(r, asked[r].conn, asked[r].kind, Len(asked)))
  /\ queue' = Tail(queue)
  /\ UNCHANGED <<asked, posting, over, job, sent, overrun>>

\* Jobs of type 0, one for each worker; then the daemon ends.
\* Fault: one job less.
TerminateFewer ==
  /\ ~over /\ queue # <<>> /\ Head(queue) = Termination
  /\ centre' = centre \o [i \in 1 .. Cardinality(Workers) - 1 |-> EndJob]
  /\ queue' = Tail(queue)
  /\ over' = TRUE
  /\ UNCHANGED <<asked, posting, job, sent, overrun>>
Terminate ==
  /\ ~over /\ queue # <<>> /\ Head(queue) = Termination
  /\ centre' = centre \o [i \in 1 .. Cardinality(Workers) |-> EndJob]
  /\ queue' = Tail(queue)
  /\ over' = TRUE
  /\ UNCHANGED <<asked, posting, job, sent, overrun>>

\* thread_SVR_worker: no job has the type RETRIEVAL_TYPE_WORKER_TERM, the only
\* one that ends a worker; a job of type 0 has no handler, and an answer.
Pick(w) ==
  /\ job[w] = Idle /\ centre # <<>>
  /\ job' = [job EXCEPT ![w] = Head(centre)]
  /\ centre' = Tail(centre)
  /\ UNCHANGED <<asked, posting, queue, over, sent, overrun>>

Respond(w) ==
  /\ job[w] # Idle
  /\ sent' = Append(sent, job[w])
  /\ job' = [job EXCEPT ![w] = Idle]
  /\ UNCHANGED <<asked, posting, queue, over, centre, overrun>>

Daemon == Assign \/ Terminate
Worker(w) == Pick(w) \/ Respond(w)

ServerNext ==
  \/ \E c \in Conns, k \in Kinds : Convert(c, k)
  \/ PostRequest
  \/ PostTermination
  \/ Daemon
  \/ \E w \in Workers : Worker(w)

\* Threads are scheduled.
ServerFairness ==
  /\ WF_serverVars(PostRequest)
  /\ WF_serverVars(Daemon)
  /\ \A w \in Workers : WF_serverVars(Worker(w))

ServerSpec == ServerInit /\ [][ServerNext]_serverVars /\ ServerFairness

-----------------------------------------------------------------------------
(* Properties                                                               *)

\* What is answered is a request, to the connection it came from and with its
\* kind, and with its own content unless the next request was converted before
\* the daemon took it: then with that of a later one, never of an earlier.  Nobody
\* else is answered, but for the jobs of the termination.
Fits(j) ==
  IF j.of = Termination THEN over /\ j = EndJob
  ELSE /\ j.of \in DOMAIN asked
       /\ j.conn = asked[j.of].conn /\ j.kind = asked[j.of].kind
       /\ j.body >= j.of
       /\ j.of \notin overrun => j.body = j.of

\* Every answer fits, and every request is answered at most once.
AnswersFit ==
  /\ \A i \in DOMAIN sent : Fits(sent[i])
  /\ \A i, j \in DOMAIN sent :
       sent[i].of = sent[j].of => i = j \/ sent[i].of = Termination

Answered(r) == \E i \in DOMAIN sent : sent[i].of = r
Behind(r) == \E i, j \in DOMAIN queue : i < j /\ queue[i] = Termination /\ queue[j] = r

\* A request that is queued, and not behind the termination nor after it, is
\* answered, also when the termination follows it at once.
RequestsAnswered ==
  \A r \in 1 .. MaxRequests :
    (r \in ToSet(queue) /\ ~over /\ ~Behind(r)) ~> Answered(r)

\* The termination ends no worker: each of its jobs is answered like a request,
\* to a connection that does not exist, none a second time, and the workers wait
\* for more.
WorkersOutliveServer ==
  over ~> [](/\ Quantify(DOMAIN sent, LAMBDA i : sent[i] = EndJob) = Cardinality(Workers)
             /\ centre = <<>> /\ \A w \in Workers : job[w] = Idle)
=============================================================================
