------------------------- MODULE ServerProcess_proofs -------------------------
(***************************************************************************)
(* Proof, for any number of workers, connections and requests, that every   *)
(* answer fits its request and no request is answered twice.                *)
(***************************************************************************)
EXTENDS ServerProcess, FiniteSetTheorems, TLAPS

Requests == [conn : Conns, kind : Kinds]
Jobs == [of : Nat, conn : Conns \cup {NoConn}, kind : Kinds \cup {InvalidKind}, body : Int]

ServerTyped ==
  /\ asked \in Seq(Requests) /\ posting \in BOOLEAN /\ over \in BOOLEAN
  /\ queue \in Seq(Nat)
  /\ centre \in Seq(Jobs) /\ sent \in Seq(Jobs)
  /\ job \in [Workers -> Jobs]

\* A queued request is known, and the last one converted unless it was overrun:
\* the content its job will get.
QueueFits ==
  \A i \in DOMAIN queue : queue[i] # Termination =>
    queue[i] \in DOMAIN asked /\ (queue[i] \notin overrun => queue[i] = Len(asked))

JobsFit ==
  /\ \A i \in DOMAIN centre : Fits(centre[i])
  /\ \A w \in Workers : job[w] = Idle \/ Fits(job[w])
  /\ \A i \in DOMAIN sent : Fits(sent[i])

\* A request is in the queue, in the centre, with a worker or answered, once.
Once ==
  /\ \A i, j \in DOMAIN queue : queue[i] = queue[j] => i = j \/ queue[i] = Termination
  /\ \A i, j \in DOMAIN centre :
       centre[i].of = centre[j].of => i = j \/ centre[i].of = Termination
  /\ \A v, w \in Workers : job[v].of = job[w].of => v = w \/ job[v].of = Termination
  /\ \A i, j \in DOMAIN sent : sent[i].of = sent[j].of => i = j \/ sent[i].of = Termination

Apart ==
  /\ \A i \in DOMAIN queue, j \in DOMAIN centre :
       queue[i] = centre[j].of => queue[i] = Termination
  /\ \A i \in DOMAIN queue, w \in Workers : queue[i] = job[w].of => queue[i] = Termination
  /\ \A i \in DOMAIN queue, j \in DOMAIN sent : queue[i] = sent[j].of => queue[i] = Termination
  /\ \A i \in DOMAIN centre, w \in Workers :
       centre[i].of = job[w].of => centre[i].of = Termination
  /\ \A i \in DOMAIN centre, j \in DOMAIN sent :
       centre[i].of = sent[j].of => centre[i].of = Termination
  /\ \A w \in Workers, j \in DOMAIN sent : job[w].of = sent[j].of => job[w].of = Termination

\* The request that is yet to be queued is nowhere else.
Fresh ==
  posting =>
    /\ Len(asked) > 0
    /\ \A i \in DOMAIN queue : queue[i] # Len(asked)
    /\ \A i \in DOMAIN centre : centre[i].of # Len(asked)
    /\ \A w \in Workers : job[w].of # Len(asked)
    /\ \A i \in DOMAIN sent : sent[i].of # Len(asked)

\* AnswersFit says nothing of a request before it is answered: only the whole
\* way, from the buffer to the answer, is inductive.
AnswersInv == ServerTyped /\ QueueFits /\ JobsFit /\ Once /\ Apart /\ Fresh

-----------------------------------------------------------------------------
(* Sequences.                                                                *)

\* What Tail leaves, and where it was.
LEMMA TailPlaces ==
  ASSUME NEW S, NEW s \in Seq(S), s # <<>>
  PROVE  /\ Tail(s) \in Seq(S) /\ 1 \in DOMAIN s /\ Head(s) = s[1] /\ Head(s) \in S
         /\ \A i \in DOMAIN Tail(s) : i + 1 \in DOMAIN s /\ i + 1 # 1 /\ Tail(s)[i] = s[i + 1]
         /\ \A i, j \in DOMAIN Tail(s) : i + 1 = j + 1 => i = j
OBVIOUS

\* What Append adds, and where.
LEMMA AppendPlaces ==
  ASSUME NEW S, NEW s \in Seq(S), NEW x \in S
  PROVE  /\ Append(s, x) \in Seq(S)
         /\ DOMAIN Append(s, x) = DOMAIN s \cup {Len(s) + 1}
         /\ Len(s) + 1 \notin DOMAIN s
         /\ Append(s, x)[Len(s) + 1] = x
         /\ \A i \in DOMAIN s : Append(s, x)[i] = s[i]
OBVIOUS

-----------------------------------------------------------------------------
(* The invariant.                                                            *)

\* The records the jobs are, and what tells a termination's from a request's.
LEMMA JobFields ==
  /\ Idle \in Jobs /\ EndJob \in Jobs /\ Idle # EndJob
  /\ Idle.of = Termination /\ EndJob.of = Termination /\ Termination \in Nat
  /\ \A r \in Nat, q \in Requests, b \in Int :
       LET j == Job(r, q.conn, q.kind, b) IN
         /\ j \in Jobs /\ j.of = r /\ j.conn = q.conn /\ j.kind = q.kind /\ j.body = b
BY DEF Idle, EndJob, Job, Jobs, Requests, Termination

\* Nothing is queued, assigned or answered at the start.
LEMMA ServerInitInv == ServerInit => AnswersInv
<1> SUFFICES ASSUME ServerInit PROVE AnswersInv
  OBVIOUS
<1>1. ServerTyped
  <2>1. Idle \in Jobs
    BY JobFields
  <2>2. job \in [Workers -> Jobs]
    BY <2>1 DEF ServerInit
  <2>3. \A S : <<>> \in Seq(S)
    OBVIOUS
  <2>4. /\ asked \in Seq(Requests) /\ queue \in Seq(Nat)
        /\ centre \in Seq(Jobs) /\ sent \in Seq(Jobs)
    BY <2>3 DEF ServerInit
  <2>5. QED
    BY <2>2, <2>4 DEF ServerInit, ServerTyped
<1>2. DOMAIN queue = {} /\ DOMAIN centre = {} /\ DOMAIN sent = {}
  BY DEF ServerInit
<1>3. \A w \in Workers : job[w] = Idle /\ job[w].of = Termination
  BY JobFields DEF ServerInit
<1>4. QueueFits /\ JobsFit /\ Once /\ Apart
  BY <1>2, <1>3 DEF QueueFits, JobsFit, Once, Apart
<1>5. Fresh
  BY DEF ServerInit, Fresh
<1>6. QED
  BY <1>1, <1>4, <1>5 DEF AnswersInv

\* Everything in its place has a number up to the last request converted.
LEMMA Known ==
  ASSUME AnswersInv
  PROVE  /\ \A i \in DOMAIN queue : queue[i] \in 0 .. Len(asked)
         /\ \A i \in DOMAIN centre : centre[i].of \in 0 .. Len(asked)
         /\ \A w \in Workers : job[w].of \in 0 .. Len(asked)
         /\ \A i \in DOMAIN sent : sent[i].of \in 0 .. Len(asked)
<1>1. Len(asked) \in Nat /\ DOMAIN asked = 1 .. Len(asked)
  BY DEF AnswersInv, ServerTyped
<1>2. \A j : Fits(j) => j.of \in 0 .. Len(asked)
  BY <1>1 DEF Fits, Termination
<1>3. Idle.of \in 0 .. Len(asked)
  BY <1>1, JobFields DEF Termination
<1>4. \A i \in DOMAIN queue : queue[i] \in 0 .. Len(asked)
  BY <1>1 DEF AnswersInv, QueueFits, Termination
<1>5. QED
  BY <1>2, <1>3, <1>4 DEF AnswersInv, JobsFit

\* Converting a request disturbs no number, and marks what it overruns.
LEMMA ConvertKeeps ==
  ASSUME AnswersInv, NEW c \in Conns, NEW k \in Kinds, Convert(c, k)
  PROVE  AnswersInv'
<1>1. [conn |-> c, kind |-> k] \in Requests /\ asked \in Seq(Requests)
  BY DEF Requests, AnswersInv, ServerTyped
<1>2. /\ asked' \in Seq(Requests) /\ Len(asked') = Len(asked) + 1 /\ Len(asked) \in Nat
      /\ DOMAIN asked \subseteq DOMAIN asked' /\ \A r \in DOMAIN asked : asked'[r] = asked[r]
  BY <1>1, AppendPlaces DEF Convert
<1>3. ServerTyped'
  BY <1>2 DEF Convert, AnswersInv, ServerTyped
<1>4. QueueFits'
  <2>1. \A i \in DOMAIN queue : queue[i] # Termination => queue[i] \in overrun'
    BY DEF Convert, ToSet
  <2>2. QED
    BY <1>2, <2>1 DEF Convert, AnswersInv, QueueFits
<1>5. JobsFit'
  BY <1>2 DEF Convert, AnswersInv, JobsFit, Fits
<1>6. Once' /\ Apart'
  BY DEF Convert, AnswersInv, Once, Apart
<1>7. Fresh'
  BY <1>2, Known DEF Convert, Fresh
<1>8. QED
  BY <1>3, <1>4, <1>5, <1>6, <1>7 DEF AnswersInv

\* The request that is queued is the last one converted, and new to the queue.
LEMMA PostRequestKeeps ==
  ASSUME AnswersInv, PostRequest
  PROVE  AnswersInv'
<1>1. Len(asked) \in Nat \ {0} /\ Len(asked) \in DOMAIN asked /\ queue \in Seq(Nat)
  BY DEF AnswersInv, ServerTyped, Fresh, PostRequest
<1>2. /\ queue' \in Seq(Nat) /\ DOMAIN queue' = DOMAIN queue \cup {Len(queue) + 1}
      /\ queue'[Len(queue) + 1] = Len(asked) /\ \A i \in DOMAIN queue : queue'[i] = queue[i]
  BY <1>1, AppendPlaces DEF PostRequest
<1>3. ServerTyped' /\ JobsFit' /\ Fresh'
  BY ZenonT(30), <1>2 DEF PostRequest, AnswersInv, ServerTyped, JobsFit, Fits, Fresh
<1>4. QueueFits'
  BY <1>1, <1>2 DEF PostRequest, AnswersInv, QueueFits
<1>5. Once' /\ Apart'
  BY SMTT(30), <1>2 DEF PostRequest, AnswersInv, Fresh, Once, Apart
<1>6. QED
  BY <1>3, <1>4, <1>5 DEF AnswersInv

\* A termination is no request.
LEMMA PostTerminationKeeps ==
  ASSUME AnswersInv, PostTermination
  PROVE  AnswersInv'
<1>1. Termination \in Nat /\ queue \in Seq(Nat)
  BY DEF Termination, AnswersInv, ServerTyped
<1>2. /\ queue' \in Seq(Nat) /\ DOMAIN queue' = DOMAIN queue \cup {Len(queue) + 1}
      /\ queue'[Len(queue) + 1] = Termination /\ \A i \in DOMAIN queue : queue'[i] = queue[i]
  BY <1>1, AppendPlaces DEF PostTermination
<1>3. ServerTyped' /\ JobsFit'
  BY <1>2 DEF PostTermination, AnswersInv, ServerTyped, JobsFit, Fits
<1>4. QueueFits' /\ Fresh'
  BY <1>2 DEF PostTermination, AnswersInv, QueueFits, Fresh, Termination
<1>5. Once' /\ Apart'
  BY <1>2 DEF PostTermination, AnswersInv, Once, Apart
<1>6. QED
  BY <1>3, <1>4, <1>5 DEF AnswersInv

\* The job has the number, the connection and the kind of the queued request,
\* and the content that is in the buffer.
LEMMA AssignKeeps ==
  ASSUME AnswersInv, Assign
  PROVE  AnswersInv'
<1> DEFINE r == queue[1]
           j == Job(r, asked[r].conn, asked[r].kind, Len(asked))
<1>1. /\ queue \in Seq(Nat) /\ centre \in Seq(Jobs) /\ asked \in Seq(Requests)
      /\ queue # <<>>
  BY DEF AnswersInv, ServerTyped, Assign
<1>2. /\ queue' \in Seq(Nat) /\ 1 \in DOMAIN queue /\ Head(queue) = r
      /\ \A i \in DOMAIN queue' :
           i + 1 \in DOMAIN queue /\ i + 1 # 1 /\ queue'[i] = queue[i + 1]
      /\ \A i, k \in DOMAIN queue' : i + 1 = k + 1 => i = k
  BY <1>1, TailPlaces DEF Assign
<1>3. /\ r \in Nat /\ r # Termination /\ r \in DOMAIN asked
      /\ r \notin overrun => r = Len(asked)
  BY <1>1, <1>2 DEF AnswersInv, QueueFits, Assign
<1>4. asked[r] \in Requests /\ Len(asked) \in Nat /\ r <= Len(asked)
  BY <1>1, <1>3
<1>5. /\ j \in Jobs /\ j.of = r /\ j.body = Len(asked)
      /\ j.conn = asked[r].conn /\ j.kind = asked[r].kind
  BY <1>3, <1>4, JobFields
<1>6. Fits(j)
  BY <1>3, <1>4, <1>5 DEF Fits
<1>7. /\ centre' \in Seq(Jobs) /\ DOMAIN centre' = DOMAIN centre \cup {Len(centre) + 1}
      /\ Len(centre) + 1 \notin DOMAIN centre
      /\ centre'[Len(centre) + 1] = j /\ \A i \in DOMAIN centre : centre'[i] = centre[i]
  <2>1. centre' = Append(centre, j)
    BY <1>2 DEF Assign
  <2>2. QED
    BY <1>1, <1>5, <2>1, AppendPlaces
<1> HIDE DEF r, j
<1>8. ServerTyped'
  BY <1>2, <1>7 DEF Assign, AnswersInv, ServerTyped
<1>9. QueueFits'
  BY <1>2 DEF Assign, AnswersInv, QueueFits
<1>10. JobsFit'
  <2>1. /\ job' = job /\ sent' = sent /\ asked' = asked /\ overrun' = overrun /\ over' = over
        /\ JobsFit
    BY DEF Assign, AnswersInv
  <2>2. \A i \in DOMAIN centre' : Fits(centre'[i])
    BY <1>6, <1>7, <2>1 DEF JobsFit
  <2>3. ASSUME NEW i \in DOMAIN centre' PROVE Fits(centre[i])'
    BY <2>1, <2>2 DEF Fits
  <2>4. ASSUME NEW w \in Workers, job[w] # Idle PROVE Fits(job[w])'
    BY <2>1, <2>4 DEF JobsFit, Fits
  <2>5. ASSUME NEW i \in DOMAIN sent PROVE Fits(sent[i])'
    BY <2>1 DEF JobsFit, Fits
  <2>6. QED
    BY <2>1, <2>3, <2>4, <2>5 DEF JobsFit
<1>11. Once'
  <2>1. \A i \in DOMAIN centre : centre[i].of # r
    BY <1>2, <1>3 DEF AnswersInv, Apart, r
  <2>2. QED
    BY <1>2, <1>5, <1>7, <2>1 DEF Assign, AnswersInv, Once
<1>12. Apart'
  <2>1. \A i \in DOMAIN queue' : queue'[i] = r => queue'[i] = Termination
    BY <1>2 DEF AnswersInv, Once, r
  <2>2. /\ \A w \in Workers : job[w].of # r
        /\ \A i \in DOMAIN sent : sent[i].of # r
    BY <1>2, <1>3 DEF AnswersInv, Apart, r
  <2>3. \A i \in DOMAIN queue', k \in DOMAIN centre' :
          queue'[i] = centre'[k].of => queue'[i] = Termination
    BY <1>2, <1>5, <1>7, <2>1 DEF AnswersInv, Apart
  <2>4. /\ \A i \in DOMAIN queue', w \in Workers :
             queue'[i] = job[w].of => queue'[i] = Termination
        /\ \A i \in DOMAIN queue', k \in DOMAIN sent :
             queue'[i] = sent[k].of => queue'[i] = Termination
    BY <1>2 DEF AnswersInv, Apart
  <2>5. /\ \A i \in DOMAIN centre', w \in Workers :
             centre'[i].of = job[w].of => centre'[i].of = Termination
        /\ \A i \in DOMAIN centre', k \in DOMAIN sent :
             centre'[i].of = sent[k].of => centre'[i].of = Termination
    BY <1>5, <1>7, <2>2 DEF AnswersInv, Apart
  <2>6. job' = job /\ sent' = sent
    BY DEF Assign
  <2>7. QED
    BY <2>3, <2>4, <2>5, <2>6 DEF AnswersInv, Apart
<1>13. Fresh'
  <2>1. posting => r # Len(asked)
    BY <1>2 DEF AnswersInv, Fresh, r
  <2>2. QED
    BY <1>2, <1>5, <1>7, <2>1 DEF Assign, AnswersInv, Fresh
<1>14. QED
  BY <1>8, <1>9, <1>10, <1>11, <1>12, <1>13 DEF AnswersInv

\* The jobs of the termination are no requests.
LEMMA TerminateKeeps ==
  ASSUME AnswersInv, Terminate
  PROVE  AnswersInv'
<1> DEFINE n == Cardinality(Workers)
           ends == [i \in 1 .. n |-> EndJob]
<1>1. n \in Nat
  BY ServerAssumption, FS_CardinalityType
<1>2. ends \in Seq(Jobs) /\ Len(ends) = n /\ \A i \in 1 .. n : ends[i] = EndJob
  BY <1>1, JobFields
<1>3. queue \in Seq(Nat) /\ centre \in Seq(Jobs) /\ queue # <<>>
  BY DEF AnswersInv, ServerTyped, Terminate
<1>4. /\ queue' \in Seq(Nat)
      /\ \A i \in DOMAIN queue' : i + 1 \in DOMAIN queue /\ queue'[i] = queue[i + 1]
      /\ \A i, k \in DOMAIN queue' : i + 1 = k + 1 => i = k
  BY <1>3, TailPlaces DEF Terminate
<1>5. centre' = centre \o ends
  BY DEF Terminate
<1> HIDE DEF ends, n
<1>6. /\ centre' \in Seq(Jobs)
      /\ \A i \in DOMAIN centre' :
           \/ i \in DOMAIN centre /\ centre'[i] = centre[i]
           \/ centre'[i] = EndJob
  BY <1>1, <1>2, <1>3, <1>5
<1>7. ServerTyped'
  BY <1>4, <1>6 DEF Terminate, AnswersInv, ServerTyped
<1>8. QueueFits'
  BY <1>4 DEF Terminate, AnswersInv, QueueFits
<1>9. JobsFit'
  <2>1. over' /\ UNCHANGED <<asked, job, sent, overrun>>
    BY DEF Terminate
  <2>2. \A k : Fits(k) => Fits(k)'
    BY <2>1 DEF Fits
  <2>3. Fits(EndJob)'
    BY <2>1, JobFields DEF Fits
  <2>4. QED
    BY <1>6, <2>1, <2>2, <2>3 DEF AnswersInv, JobsFit, Fits
<1>10. \A i \in DOMAIN centre' :
        \/ i \in DOMAIN centre /\ centre'[i].of = centre[i].of
        \/ centre'[i].of = Termination
  BY <1>6, JobFields
<1>11. /\ job' = job /\ sent' = sent /\ asked' = asked /\ posting' = posting
  BY DEF Terminate
<1>12. Once'
  <2>1. \A i, k \in DOMAIN queue' : queue'[i] = queue'[k] => i = k \/ queue'[i] = Termination
    BY <1>4 DEF AnswersInv, Once
  <2>2. \A i, k \in DOMAIN centre' :
          centre'[i].of = centre'[k].of => i = k \/ centre'[i].of = Termination
    BY <1>10 DEF AnswersInv, Once
  <2>3. QED
    BY <1>11, <2>1, <2>2 DEF AnswersInv, Once
<1>13. Apart'
  <2>1. \A i \in DOMAIN queue', k \in DOMAIN centre' :
          queue'[i] = centre'[k].of => queue'[i] = Termination
    BY <1>4, <1>10 DEF AnswersInv, Apart
  <2>2. /\ \A i \in DOMAIN queue', w \in Workers :
             queue'[i] = job[w].of => queue'[i] = Termination
        /\ \A i \in DOMAIN queue', k \in DOMAIN sent :
             queue'[i] = sent[k].of => queue'[i] = Termination
    BY <1>4 DEF AnswersInv, Apart
  <2>3. /\ \A i \in DOMAIN centre', w \in Workers :
             centre'[i].of = job[w].of => centre'[i].of = Termination
        /\ \A i \in DOMAIN centre', k \in DOMAIN sent :
             centre'[i].of = sent[k].of => centre'[i].of = Termination
    BY <1>10 DEF AnswersInv, Apart
  <2>4. QED
    BY <1>11, <2>1, <2>2, <2>3 DEF AnswersInv, Apart
<1>14. Fresh'
  <2> SUFFICES ASSUME posting PROVE Fresh'
    BY <1>11 DEF Fresh
  <2>1. Len(asked) > 0 /\ Len(asked) # Termination
    BY DEF AnswersInv, Fresh, Termination
  <2>2. QED
    BY <1>4, <1>10, <1>11, <2>1 DEF AnswersInv, Fresh
<1>15. QED
  BY <1>7, <1>8, <1>9, <1>12, <1>13, <1>14 DEF AnswersInv

\* A job that is picked leaves the centre.
LEMMA PickKeeps ==
  ASSUME AnswersInv, NEW w \in Workers, Pick(w)
  PROVE  AnswersInv'
<1>1. centre \in Seq(Jobs) /\ centre # <<>> /\ job \in [Workers -> Jobs]
  BY DEF AnswersInv, ServerTyped, Pick
<1>2. /\ centre' \in Seq(Jobs) /\ 1 \in DOMAIN centre /\ centre[1] \in Jobs
      /\ Head(centre) = centre[1]
      /\ \A i \in DOMAIN centre' :
           i + 1 \in DOMAIN centre /\ i + 1 # 1 /\ centre'[i] = centre[i + 1]
      /\ \A i, k \in DOMAIN centre' : i + 1 = k + 1 => i = k
  BY <1>1, TailPlaces DEF Pick
<1>3. /\ job' \in [Workers -> Jobs] /\ job'[w] = centre[1]
      /\ \A v \in Workers : v # w => job'[v] = job[v]
  BY <1>1, <1>2 DEF Pick
<1>4. ServerTyped'
  BY <1>2, <1>3 DEF Pick, AnswersInv, ServerTyped
<1>5. QueueFits'
  BY DEF Pick, AnswersInv, QueueFits
<1>6. JobsFit'
  BY <1>2, <1>3 DEF Pick, AnswersInv, JobsFit, Fits
<1>7. Once'
  <2>1. \A v \in Workers : job[v].of = centre[1].of => job[v].of = Termination
    BY <1>2 DEF AnswersInv, Apart
  <2>2. QED
    BY <1>2, <1>3, <2>1 DEF Pick, AnswersInv, Once
<1>8. Apart'
  <2>1. \A i \in DOMAIN centre' :
          centre'[i].of = centre[1].of => centre'[i].of = Termination
    BY <1>2 DEF AnswersInv, Once
  <2>2. QED
    BY <1>2, <1>3, <2>1 DEF Pick, AnswersInv, Apart
<1>9. Fresh'
  BY <1>2, <1>3 DEF Pick, AnswersInv, Fresh
<1>10. QED
  BY <1>4, <1>5, <1>6, <1>7, <1>8, <1>9 DEF AnswersInv

\* A job that is answered leaves its worker.
LEMMA RespondKeeps ==
  ASSUME AnswersInv, NEW w \in Workers, Respond(w)
  PROVE  AnswersInv'
<1>1. sent \in Seq(Jobs) /\ job \in [Workers -> Jobs] /\ job[w] \in Jobs
  BY DEF AnswersInv, ServerTyped
<1>2. /\ sent' \in Seq(Jobs) /\ DOMAIN sent' = DOMAIN sent \cup {Len(sent) + 1}
      /\ Len(sent) + 1 \notin DOMAIN sent
      /\ sent'[Len(sent) + 1] = job[w] /\ \A i \in DOMAIN sent : sent'[i] = sent[i]
  BY <1>1, AppendPlaces DEF Respond
<1>3. /\ job' \in [Workers -> Jobs] /\ job'[w] = Idle /\ job'[w].of = Termination
      /\ \A v \in Workers : v # w => job'[v] = job[v]
  BY <1>1, JobFields DEF Respond
<1>4. ServerTyped'
  BY <1>2, <1>3 DEF Respond, AnswersInv, ServerTyped
<1>5. QueueFits'
  BY DEF Respond, AnswersInv, QueueFits
<1>6. JobsFit'
  BY <1>2, <1>3 DEF Respond, AnswersInv, JobsFit, Fits
<1>7. Once'
  <2>1. \A i \in DOMAIN sent : sent[i].of = job[w].of => sent[i].of = Termination
    BY DEF AnswersInv, Apart
  <2>2. QED
    BY <1>2, <1>3, <2>1 DEF Respond, AnswersInv, Once
<1>8. Apart'
  <2>1. \A v \in Workers : v # w => (job[v].of = job[w].of => job[v].of = Termination)
    BY DEF AnswersInv, Once
  <2>2. QED
    BY <1>2, <1>3, <2>1 DEF Respond, AnswersInv, Apart
<1>9. Fresh'
  BY <1>2, <1>3, JobFields DEF Respond, AnswersInv, Fresh, Termination
<1>10. QED
  BY <1>4, <1>5, <1>6, <1>7, <1>8, <1>9 DEF AnswersInv

\* Every step of the connection manager, the daemon and the workers keeps it.
LEMMA ServerStep == AnswersInv /\ [ServerNext]_serverVars => AnswersInv'
<1> SUFFICES ASSUME AnswersInv, [ServerNext]_serverVars PROVE AnswersInv'
  OBVIOUS
<1>1. CASE \E c \in Conns, k \in Kinds : Convert(c, k)
  BY <1>1, ConvertKeeps
<1>2. CASE PostRequest
  BY <1>2, PostRequestKeeps
<1>3. CASE PostTermination
  BY <1>3, PostTerminationKeeps
<1>4. CASE Daemon
  BY <1>4, AssignKeeps, TerminateKeeps DEF Daemon
<1>5. CASE \E w \in Workers : Worker(w)
  BY <1>5, PickKeeps, RespondKeeps DEF Worker
<1>6. CASE UNCHANGED serverVars
  BY <1>6 DEF serverVars, AnswersInv, ServerTyped, QueueFits, JobsFit, Fits, Once, Apart, Fresh
<1>7. QED
  BY <1>1, <1>2, <1>3, <1>4, <1>5, <1>6 DEF ServerNext

\* Every answer goes to the connection its request came from with its kind, has
\* its own content unless it was overrun and then a later one, and no request is
\* answered twice: request_data, the queue, the job centre and the workers.
THEOREM AnswersFitRequests == ServerSpec => []AnswersFit
<1>1. ServerInit => AnswersInv
  BY ServerInitInv
<1>2. AnswersInv /\ [ServerNext]_serverVars => AnswersInv'
  BY ServerStep
<1>3. AnswersInv => AnswersFit
  BY DEF AnswersInv, JobsFit, Once, AnswersFit
<1>4. QED
  BY <1>1, <1>2, <1>3, PTL DEF ServerSpec
=============================================================================
