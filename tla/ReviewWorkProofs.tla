-------------------------- MODULE ReviewWorkProofs --------------------------
(***************************************************************************)
(* Proofs about the handlers over queue and coordinator, for any pull      *)
(* requests and any number of attempts: no attempt outlives its handler, a *)
(* retry follows its review, a review that was given up stays silent, and  *)
(* a lane keeps the order of the claims; handlers use the coordinator and  *)
(* the queue as these are specified.                                       *)
(***************************************************************************)
EXTENDS ReviewWork, ReviewWorkCoordinatorProofs

\* The scope in which the job of a is or was enqueued.
Lane(a) == ScopeOf(job[a].kind, job[a].family)

\* A job is known from its claim on, and a retry from a review that runs.
JobsAreClaimed ==
  \A a \in AttemptIds :
    /\ a >= nextAttemptId =>
         /\ job[a] = NoJob /\ body[a] = "none"
         /\ a \notin committed /\ a \notin finalized
    /\ job[a] # NoJob /\ job[a].kind # "retry" => job[a].parent = NoAttempt
    /\ job[a].kind = "retry" =>
         /\ job[a].parent \in AttemptIds
         /\ job[job[a].parent].kind = "automatic"
         /\ job[job[a].parent].family = job[a].family
         /\ body[job[a].parent] \notin {"none", "queued"}

\* What waits in a queue is queued, once, in its own lane.
QueuedOnceIn(waiting, s) ==
  \A k \in 1..Len(waiting) :
    /\ body[waiting[k]] = "queued" /\ Lane(waiting[k]) = s
    /\ \A m \in 1..Len(waiting) : waiting[k] = waiting[m] => k = m

WaitingIsQueued ==
  \A s \in DOMAIN queueScopes : QueuedOnceIn(queueScopes[s].waiting, s)

\* A body that the queue still waits for holds the slot of its lane.
RunningHoldsSlot ==
  \A a \in AttemptIds : body[a] = "running" =>
    /\ Lane(a) \in DOMAIN queueScopes
    /\ a \in queueScopes[Lane(a)].pending

\* A handler that has cleaned up has left nothing, and what was committed, or
\* is a retry that has started, runs.
LivesEnd ==
  /\ \A a \in finalized : a \notin Live
  /\ \A a \in committed \cap Live : Active(a)
  /\ \A a \in Live : job[a].kind = "retry" =>
       /\ Active(a) <=> body[a] \notin {"none", "queued"}
       /\ body[a] \in {"settled", "done"} => a \in rejected

Lanes == Families \X {"review", "interactive-review"}

QueueFacts == Queue!TypeOK /\ WaitingIsQueued /\ RunningHoldsSlot

JobTypeOK ==
  /\ job \in [AttemptIds -> [kind: Kinds, family: Families,
                             parent: AttemptIds \cup {NoAttempt}] \cup {NoJob}]
  /\ stage \in [AttemptIds -> {"gates", "working", "cleared", "scheduling"}]
  /\ committed \cup finalized \cup rejected \cup completed \subseteq AttemptIds

JobFacts == JobTypeOK /\ JobsAreClaimed /\ LivesEnd /\ RetryFollowsParent

WorkIInv == CoordinatorInv /\ QueueFacts /\ JobFacts

-----------------------------------------------------------------------------
(* The queue keeps its lanes *)

\* What the type invariant says of a PQueue.
LEMMA PQueueFacts ==
  ASSUME Queue!TypeOK, NEW s \in DOMAIN queueScopes
  PROVE  /\ s \in Lanes
         /\ queueScopes[s].waiting \in Seq(AttemptIds)
         /\ queueScopes[s].pending \in SUBSET AttemptIds
         /\ queueScopes[s] = [waiting |-> queueScopes[s].waiting,
                              pending |-> queueScopes[s].pending]
<1> QED
  BY DEF Queue!TypeOK, Queue!PQueues, Lanes

\* A new job goes to the end of its lane.
LEMMA EnqueueKeepsLanes ==
  ASSUME QueueFacts, NEW j \in AttemptIds, NEW s \in Lanes, Queue!Enqueue(j, s),
         Lane(j)' = s,
         \A a \in AttemptIds \ {j} : body[a] # "none" => Lane(a)' = Lane(a)
  PROVE  QueueFacts'
<1> PICK Q : Q = Queue!QueueOf(s)
  OBVIOUS
<1> PICK W : W = Q.waiting
  OBVIOUS
<1> PICK V : V = Append(W, j)
  OBVIOUS
<1>1. /\ body[j] = "none"
      /\ DOMAIN queueScopes' = DOMAIN queueScopes \cup {s}
      /\ queueScopes'[s] = [Q EXCEPT !.waiting = Append(@, j)]
      /\ \A t \in DOMAIN queueScopes \ {s} : queueScopes'[t] = queueScopes[t]
      /\ body' = [body EXCEPT ![j] = "queued"]
      /\ body \in [AttemptIds -> Queue!BodyStates]
  BY DEF Queue!Enqueue, QueueFacts, Queue!TypeOK
<1>2. /\ Q.waiting \in Seq(AttemptIds) /\ Q.pending \in SUBSET AttemptIds
      /\ Q = [waiting |-> Q.waiting, pending |-> Q.pending]
      /\ QueuedOnceIn(W, s)
      /\ s \in DOMAIN queueScopes => Q = queueScopes[s]
  <2>1. CASE s \in DOMAIN queueScopes
    BY <2>1, PQueueFacts DEF Queue!QueueOf, QueueFacts, WaitingIsQueued
  <2>2. CASE s \notin DOMAIN queueScopes
    BY <2>2 DEF Queue!QueueOf, Queue!IdlePQueue, QueuedOnceIn
  <2> QED
    BY <2>1, <2>2
<1>3. queueScopes'[s] = [waiting |-> V, pending |-> Q.pending]
  BY <1>1, <1>2
<1>4. /\ V \in Seq(AttemptIds) /\ Len(V) = Len(W) + 1 /\ V[Len(W) + 1] = j
      /\ \A k \in 1..Len(W) : V[k] = W[k] /\ W[k] \in AttemptIds
      /\ Len(W) \in Nat
  BY <1>2
<1>5. /\ \A a \in AttemptIds \ {j} : body'[a] = body[a]
      /\ body'[j] = "queued"
  BY <1>1
<1>6. Queue!TypeOK'
  <2>1. queueScopes'[s] \in Queue!PQueues
    BY <1>2, <1>3, <1>4 DEF Queue!PQueues
  <2>2. /\ DOMAIN queueScopes' \subseteq Lanes
        /\ \A t \in DOMAIN queueScopes' : queueScopes'[t] \in Queue!PQueues
    BY <1>1, <2>1 DEF QueueFacts, Queue!TypeOK, Lanes
  <2>3. /\ DOMAIN activeJobs' = DOMAIN activeJobs \cup {j}
        /\ \A i \in DOMAIN activeJobs' :
             activeJobs'[i] = IF i = j THEN [scope |-> s, started |-> FALSE]
                              ELSE activeJobs[i]
        /\ tracked' = tracked \cup {j}
        /\ enqueued' = [enqueued EXCEPT ![s] = Append(@, j)]
    BY DEF Queue!Enqueue
  <2>4. \A i \in DOMAIN activeJobs' :
          activeJobs'[i] \in [scope: Lanes, started: BOOLEAN]
    <3> TAKE i \in DOMAIN activeJobs'
    <3>1. CASE i = j
      <4>1. activeJobs'[i] = [scope |-> s, started |-> FALSE]
        BY <2>3, <3>1
      <4> QED
        BY <4>1
    <3>2. CASE i # j
      BY <2>3, <3>2 DEF QueueFacts, Queue!TypeOK, Lanes
    <3> QED
      BY <3>1, <3>2
  <2>5. enqueued' \in [Lanes -> Seq(AttemptIds)]
    BY <2>3 DEF QueueFacts, Queue!TypeOK, Lanes
  <2>6. body' \in [AttemptIds -> Queue!BodyStates]
    BY <1>1 DEF Queue!BodyStates
  <2> QED
    BY <2>2, <2>3, <2>4, <2>5, <2>6 DEF QueueFacts, Queue!TypeOK, Lanes
<1>7. WaitingIsQueued'
  <2>1. ASSUME NEW t \in DOMAIN queueScopes, t # s
        PROVE  QueuedOnceIn(queueScopes[t].waiting, t)'
    <3>1. queueScopes'[t] = queueScopes[t]
      BY <1>1, <2>1
    <3>2. /\ queueScopes[t].waiting \in Seq(AttemptIds)
          /\ QueuedOnceIn(queueScopes[t].waiting, t)
      BY PQueueFacts DEF QueueFacts, WaitingIsQueued
    <3>3. \A k \in 1..Len(queueScopes[t].waiting) :
            /\ queueScopes[t].waiting[k] \in AttemptIds
            /\ body[queueScopes[t].waiting[k]] = "queued"
      BY <3>2 DEF QueuedOnceIn
    <3> QED
      BY <1>1, <1>5, <3>1, <3>2, <3>3 DEF QueuedOnceIn
  <2>2. QueuedOnceIn(queueScopes[s].waiting, s)'
    <3>1. queueScopes'[s].waiting = V
      BY <1>3
    <3>2. \A k \in 1..Len(W) : W[k] \in AttemptIds \ {j} /\ body[W[k]] = "queued"
      BY <1>1, <1>2, <1>4 DEF QueuedOnceIn
    <3>3. \A k \in 1..Len(V) : body'[V[k]] = "queued" /\ Lane(V[k])' = s
      BY <1>2, <1>4, <1>5, <3>2 DEF QueuedOnceIn
    <3>4. \A k, m \in 1..Len(V) : V[k] = V[m] => k = m
      BY <1>2, <1>4, <3>2 DEF QueuedOnceIn
    <3> QED
      BY <3>1, <3>3, <3>4 DEF QueuedOnceIn
  <2> QED
    BY <1>1, <2>1, <2>2 DEF WaitingIsQueued
<1>8. RunningHoldsSlot'
  <2> SUFFICES ASSUME NEW a \in AttemptIds, body'[a] = "running"
               PROVE  Lane(a)' \in DOMAIN queueScopes' /\ a \in queueScopes'[Lane(a)'].pending
    BY DEF RunningHoldsSlot
  <2>1. a # j /\ body[a] = "running" /\ Lane(a)' = Lane(a)
    BY <1>5
  <2>2. Lane(a) \in DOMAIN queueScopes /\ a \in queueScopes[Lane(a)].pending
    BY <2>1 DEF QueueFacts, RunningHoldsSlot
  <2>3. CASE Lane(a) = s
    BY <1>1, <1>2, <1>3, <2>1, <2>2, <2>3
  <2>4. CASE Lane(a) # s
    BY <1>1, <2>1, <2>2, <2>4
  <2> QED
    BY <2>3, <2>4
<1> QED
  BY <1>6, <1>7, <1>8 DEF QueueFacts

\* The job at the head of a free lane takes its slot.
LEMMA StartKeepsLanes ==
  ASSUME QueueFacts, NEW s, Queue!Start(s), UNCHANGED job
  PROVE  /\ QueueFacts'
         /\ LET j == Head(queueScopes[s].waiting)
            IN /\ j \in AttemptIds /\ body[j] = "queued" /\ Lane(j) = s
               /\ body'[j] = "running"
               /\ \A a \in AttemptIds \ {j} : body'[a] = body[a]
               /\ s \in DOMAIN queueScopes /\ queueScopes[s].pending = {}
<1> PICK W : W = queueScopes[s].waiting
  OBVIOUS
<1> PICK V : V = Tail(W)
  OBVIOUS
<1> PICK j : j = Head(W)
  OBVIOUS
<1>1. /\ s \in DOMAIN queueScopes /\ queueScopes[s].pending = {} /\ W # << >>
      /\ queueScopes' = [queueScopes EXCEPT ![s].waiting = Tail(@), ![s].pending = {j}]
      /\ activeJobs' = [activeJobs EXCEPT ![j].started = TRUE]
      /\ body' = [body EXCEPT ![j] = "running"]
      /\ UNCHANGED <<tracked, enqueued>>
  BY DEF Queue!Start
<1>2. /\ s \in Lanes /\ W \in Seq(AttemptIds)
      /\ queueScopes[s] = [waiting |-> W, pending |-> {}]
      /\ QueuedOnceIn(W, s)
      /\ body \in [AttemptIds -> Queue!BodyStates]
  BY <1>1, PQueueFacts DEF QueueFacts, WaitingIsQueued, Queue!TypeOK
<1>3. /\ DOMAIN queueScopes' = DOMAIN queueScopes
      /\ queueScopes'[s] = [waiting |-> V, pending |-> {j}]
      /\ \A t \in DOMAIN queueScopes \ {s} : queueScopes'[t] = queueScopes[t]
  BY <1>1, <1>2
<1>4. /\ V \in Seq(AttemptIds) /\ Len(W) = Len(V) + 1 /\ Len(V) \in Nat /\ j = W[1]
      /\ \A k \in 1..Len(V) : V[k] = W[k + 1] /\ k + 1 \in 1..Len(W)
      /\ 1 \in 1..Len(W) /\ j \in AttemptIds
      /\ \A k \in 1..Len(W) : W[k] \in AttemptIds
  BY <1>1, <1>2
<1>5. body[j] = "queued" /\ Lane(j) = s
  BY <1>2, <1>4 DEF QueuedOnceIn
<1>6. body'[j] = "running" /\ \A a \in AttemptIds \ {j} : body'[a] = body[a]
  BY <1>1, <1>2, <1>4
<1>7. \A a : Lane(a)' = Lane(a)
  BY DEF Lane
<1>8. Queue!TypeOK'
  <2>1. queueScopes'[s] \in Queue!PQueues
    BY <1>3, <1>4 DEF Queue!PQueues
  <2>2. /\ DOMAIN queueScopes' \subseteq Lanes
        /\ \A t \in DOMAIN queueScopes' : queueScopes'[t] \in Queue!PQueues
    BY <1>3, <2>1 DEF QueueFacts, Queue!TypeOK, Lanes
  <2>3. /\ DOMAIN activeJobs' \subseteq AttemptIds
        /\ \A i \in DOMAIN activeJobs' :
             activeJobs'[i] \in [scope: Lanes, started: BOOLEAN]
    <3>1. /\ DOMAIN activeJobs \subseteq AttemptIds
          /\ \A i \in DOMAIN activeJobs :
               activeJobs[i] \in [scope: Lanes, started: BOOLEAN]
      BY DEF QueueFacts, Queue!TypeOK, Lanes
    <3>2. /\ DOMAIN activeJobs' = DOMAIN activeJobs
          /\ \A i \in DOMAIN activeJobs : i # j => activeJobs'[i] = activeJobs[i]
          /\ j \in DOMAIN activeJobs =>
               activeJobs'[j] = [activeJobs[j] EXCEPT !.started = TRUE]
      BY <1>1
    <3>3. ASSUME j \in DOMAIN activeJobs
          PROVE  activeJobs'[j] \in [scope: Lanes, started: BOOLEAN]
      BY <3>1, <3>2, <3>3
    <3> QED
      BY <3>1, <3>2, <3>3
  <2>4. body' \in [AttemptIds -> Queue!BodyStates]
    BY <1>1, <1>2 DEF Queue!BodyStates
  <2> QED
    BY <1>1, <2>2, <2>3, <2>4 DEF QueueFacts, Queue!TypeOK, Lanes
<1>9. WaitingIsQueued'
  <2>1. ASSUME NEW t \in DOMAIN queueScopes, t # s
        PROVE  QueuedOnceIn(queueScopes[t].waiting, t)'
    <3>1. queueScopes'[t] = queueScopes[t]
      BY <1>3, <2>1
    <3>2. /\ queueScopes[t].waiting \in Seq(AttemptIds)
          /\ QueuedOnceIn(queueScopes[t].waiting, t)
      BY PQueueFacts DEF QueueFacts, WaitingIsQueued
    <3>3. \A k \in 1..Len(queueScopes[t].waiting) :
            queueScopes[t].waiting[k] \in AttemptIds \ {j}
      BY <1>5, <2>1, <3>2 DEF QueuedOnceIn
    <3> QED
      BY <1>6, <1>7, <3>1, <3>2, <3>3 DEF QueuedOnceIn
  <2>2. QueuedOnceIn(queueScopes[s].waiting, s)'
    <3>1. queueScopes'[s].waiting = V
      BY <1>3
    <3>2. \A k \in 1..Len(V) : V[k] \in AttemptIds \ {j}
      BY <1>2, <1>4 DEF QueuedOnceIn
    <3>3. \A k \in 1..Len(V) : body'[V[k]] = "queued" /\ Lane(V[k])' = s
      BY <1>2, <1>4, <1>6, <1>7, <3>2 DEF QueuedOnceIn
    <3>4. \A k, m \in 1..Len(V) : V[k] = V[m] => k = m
      BY <1>2, <1>4 DEF QueuedOnceIn
    <3> QED
      BY <3>1, <3>3, <3>4 DEF QueuedOnceIn
  <2> QED
    BY <1>3, <2>1, <2>2 DEF WaitingIsQueued
<1>10. RunningHoldsSlot'
  <2> SUFFICES ASSUME NEW a \in AttemptIds, body'[a] = "running"
               PROVE  Lane(a) \in DOMAIN queueScopes' /\ a \in queueScopes'[Lane(a)].pending
    BY <1>7 DEF RunningHoldsSlot
  <2>1. CASE a = j
    BY <1>1, <1>3, <1>5, <2>1
  <2>2. CASE a # j
    <3>1. Lane(a) \in DOMAIN queueScopes /\ a \in queueScopes[Lane(a)].pending
      BY <1>6, <2>2 DEF QueueFacts, RunningHoldsSlot
    <3>2. Lane(a) # s
      BY <1>1, <3>1
    <3> QED
      BY <1>3, <3>1, <3>2
  <2> QED
    BY <2>1, <2>2
<1> QED
  BY <1>1, <1>4, <1>5, <1>6, <1>8, <1>9, <1>10 DEF QueueFacts

\* A job that leaves its slot leaves the others where they are.
LEMMA FreeKeepsLanes ==
  ASSUME QueueFacts, NEW j \in AttemptIds, body[j] = "running",
         NEW x \in {"settled", "abandoned"}, body' = [body EXCEPT ![j] = x],
         Queue!FreeSlot(j), UNCHANGED <<activeJobs, tracked, enqueued, job>>
  PROVE  QueueFacts'
<1>1. /\ DOMAIN queueScopes' = DOMAIN queueScopes
      /\ \A s \in DOMAIN queueScopes :
           /\ queueScopes[s].waiting \in Seq(AttemptIds)
           /\ queueScopes'[s] = [waiting |-> queueScopes[s].waiting,
                                 pending |-> queueScopes[s].pending \ {j}]
           /\ queueScopes'[s] \in Queue!PQueues
  <2>1. queueScopes' = [s \in DOMAIN queueScopes |->
                          [queueScopes[s] EXCEPT !.pending = @ \ {j}]]
    BY DEF Queue!FreeSlot
  <2>2. ASSUME NEW s \in DOMAIN queueScopes
        PROVE  /\ queueScopes[s].waiting \in Seq(AttemptIds)
               /\ queueScopes'[s] = [waiting |-> queueScopes[s].waiting,
                                     pending |-> queueScopes[s].pending \ {j}]
               /\ queueScopes'[s] \in Queue!PQueues
    <3>1. /\ queueScopes[s].waiting \in Seq(AttemptIds)
          /\ queueScopes[s].pending \in SUBSET AttemptIds
          /\ queueScopes[s] = [waiting |-> queueScopes[s].waiting,
                               pending |-> queueScopes[s].pending]
      BY PQueueFacts DEF QueueFacts
    <3>2. queueScopes'[s] = [queueScopes[s] EXCEPT !.pending = @ \ {j}]
      BY <2>1
    <3>3. queueScopes'[s] = [waiting |-> queueScopes[s].waiting,
                             pending |-> queueScopes[s].pending \ {j}]
      BY <3>1, <3>2
    <3> QED
      BY <3>1, <3>3 DEF Queue!PQueues
  <2> QED
    BY <2>1, <2>2
<1>2. /\ body \in [AttemptIds -> Queue!BodyStates]
      /\ body'[j] = x /\ \A a \in AttemptIds \ {j} : body'[a] = body[a]
      /\ body' \in [AttemptIds -> Queue!BodyStates]
  BY DEF QueueFacts, Queue!TypeOK, Queue!BodyStates
<1>3. \A a : Lane(a)' = Lane(a)
  BY DEF Lane
<1>4. Queue!TypeOK'
  BY <1>1, <1>2 DEF QueueFacts, Queue!TypeOK
<1>5. WaitingIsQueued'
  <2> SUFFICES ASSUME NEW s \in DOMAIN queueScopes
               PROVE  QueuedOnceIn(queueScopes[s].waiting, s)'
    BY <1>1 DEF WaitingIsQueued
  <2>1. /\ queueScopes'[s].waiting = queueScopes[s].waiting
        /\ queueScopes[s].waiting \in Seq(AttemptIds)
        /\ QueuedOnceIn(queueScopes[s].waiting, s)
    BY <1>1 DEF QueueFacts, WaitingIsQueued
  <2>2. \A k \in 1..Len(queueScopes[s].waiting) :
          queueScopes[s].waiting[k] \in AttemptIds \ {j}
    BY <2>1 DEF QueuedOnceIn
  <2> QED
    BY <1>2, <1>3, <2>1, <2>2 DEF QueuedOnceIn
<1>6. RunningHoldsSlot'
  BY <1>1, <1>2, <1>3 DEF QueueFacts, RunningHoldsSlot
<1> QED
  BY <1>4, <1>5, <1>6 DEF QueueFacts

\* The finally block of enqueue prunes a scope without jobs, if at all.
LEMMA CloseKeepsLanes ==
  ASSUME QueueFacts, NEW j \in AttemptIds, Queue!Close(j), UNCHANGED job
  PROVE  QueueFacts'
<1>1. /\ body[j] \in {"settled", "abandoned"}
      /\ body \in [AttemptIds -> Queue!BodyStates]
      /\ body'[j] = IF body[j] = "settled" THEN "done" ELSE "abandoned-closed"
      /\ \A a \in AttemptIds \ {j} : body'[a] = body[a]
      /\ body' \in [AttemptIds -> Queue!BodyStates]
  <2>1. /\ body[j] \in {"settled", "abandoned"}
        /\ body \in [AttemptIds -> Queue!BodyStates]
        /\ body' = [body EXCEPT ![j] = IF @ = "settled" THEN "done"
                                       ELSE "abandoned-closed"]
    BY DEF Queue!Close, QueueFacts, Queue!TypeOK
  <2>2. "done" \in Queue!BodyStates /\ "abandoned-closed" \in Queue!BodyStates
    BY DEF Queue!BodyStates
  <2> QED
    BY <2>1, <2>2
<1>2. /\ DOMAIN queueScopes' \subseteq DOMAIN queueScopes
      /\ \A s \in DOMAIN queueScopes' : queueScopes'[s] = queueScopes[s]
      /\ \A s \in DOMAIN queueScopes : queueScopes[s].pending # {} => s \in DOMAIN queueScopes'
  <2> PICK t : t = activeJobs[j].scope
    OBVIOUS
  <2>1. queueScopes' = Queue!Pruned(t)
    BY DEF Queue!Close
  <2>2. CASE t \in DOMAIN queueScopes /\ queueScopes[t] = Queue!IdlePQueue
    <3>1. queueScopes' = [s \in DOMAIN queueScopes \ {t} |-> queueScopes[s]]
      BY <2>1, <2>2 DEF Queue!Pruned, Queue!ScopesWithout
    <3> QED
      BY <2>2, <3>1 DEF Queue!IdlePQueue
  <2>3. CASE ~(t \in DOMAIN queueScopes /\ queueScopes[t] = Queue!IdlePQueue)
    <3>1. queueScopes' = queueScopes
      BY <2>1, <2>3 DEF Queue!Pruned
    <3> QED
      BY <3>1
  <2> QED
    BY <2>2, <2>3
<1>3. \A a : Lane(a)' = Lane(a)
  BY DEF Lane
<1>4. Queue!TypeOK'
  <2>1. /\ DOMAIN activeJobs' = DOMAIN activeJobs \ {j}
        /\ \A i \in DOMAIN activeJobs' : activeJobs'[i] = activeJobs[i]
        /\ tracked' \subseteq tracked /\ enqueued' = enqueued
    BY DEF Queue!Close
  <2> QED
    BY <1>1, <1>2, <2>1 DEF QueueFacts, Queue!TypeOK
<1>5. WaitingIsQueued'
  <2> SUFFICES ASSUME NEW s \in DOMAIN queueScopes'
               PROVE  QueuedOnceIn(queueScopes[s].waiting, s)'
    BY DEF WaitingIsQueued
  <2>1. /\ queueScopes'[s].waiting = queueScopes[s].waiting
        /\ queueScopes[s].waiting \in Seq(AttemptIds)
        /\ QueuedOnceIn(queueScopes[s].waiting, s)
    BY <1>2, PQueueFacts DEF QueueFacts, WaitingIsQueued
  <2>2. \A k \in 1..Len(queueScopes[s].waiting) :
          queueScopes[s].waiting[k] \in AttemptIds \ {j}
    BY <1>1, <2>1 DEF QueuedOnceIn
  <2> QED
    BY <1>1, <1>3, <2>1, <2>2 DEF QueuedOnceIn
<1>6. RunningHoldsSlot'
  <2> SUFFICES ASSUME NEW a \in AttemptIds, body'[a] = "running"
               PROVE  Lane(a) \in DOMAIN queueScopes' /\ a \in queueScopes'[Lane(a)].pending
    BY <1>3 DEF RunningHoldsSlot
  <2>1. Lane(a) \in DOMAIN queueScopes /\ a \in queueScopes[Lane(a)].pending
    BY <1>1 DEF QueueFacts, RunningHoldsSlot
  <2> QED
    BY <1>2, <2>1
<1> QED
  BY <1>4, <1>5, <1>6 DEF QueueFacts

\* What leaves the queue alone leaves its lanes, whatever is claimed.
LEMMA QuietKeepsLanes ==
  ASSUME QueueFacts, UNCHANGED <<queueScopes, activeJobs, tracked, enqueued>>,
         body' \in [AttemptIds -> Queue!BodyStates],
         \A a \in AttemptIds :
           /\ body'[a] = body[a] \/ {body[a], body'[a]} = {"abandoned-closed", "done"}
           /\ body[a] # "none" => Lane(a)' = Lane(a)
  PROVE  QueueFacts'
<1>1. Queue!TypeOK'
  BY DEF QueueFacts, Queue!TypeOK
<1>2. WaitingIsQueued'
  <2> SUFFICES ASSUME NEW s \in DOMAIN queueScopes
               PROVE  QueuedOnceIn(queueScopes[s].waiting, s)'
    BY DEF WaitingIsQueued
  <2>1. /\ queueScopes[s].waiting \in Seq(AttemptIds)
        /\ QueuedOnceIn(queueScopes[s].waiting, s)
    BY PQueueFacts DEF QueueFacts, WaitingIsQueued
  <2>2. \A k \in 1..Len(queueScopes[s].waiting) :
          /\ queueScopes[s].waiting[k] \in AttemptIds
          /\ body[queueScopes[s].waiting[k]] = "queued"
    BY <2>1 DEF QueuedOnceIn
  <2>3. \A a \in AttemptIds : body[a] = "queued" =>
          body'[a] = "queued" /\ Lane(a)' = Lane(a)
    OBVIOUS
  <2> QED
    BY <2>1, <2>2, <2>3 DEF QueuedOnceIn
<1>3. RunningHoldsSlot'
  <2>1. \A a \in AttemptIds : body'[a] = "running" =>
          body[a] = "running" /\ Lane(a)' = Lane(a)
    OBVIOUS
  <2> QED
    BY <2>1 DEF QueueFacts, RunningHoldsSlot
<1> QED
  BY <1>1, <1>2, <1>3 DEF QueueFacts

-----------------------------------------------------------------------------
(* Who is live, and who is running *)

LEMMA ClaimLives ==
  ASSUME CoordinatorInv, NEW a, NEW f \in Families, Claim(a, f, "claimed")
  PROVE  /\ CoordinatorInv'
         /\ a = nextAttemptId /\ a \in AttemptIds /\ nextAttemptId' = nextAttemptId + 1
         /\ a \notin Live
         /\ Live' = Live \cup {a}
         /\ \A b : b # a => (Active(b)' <=> Active(b))
         /\ ~Active(a)'
<1>1. /\ a = nextAttemptId /\ a \in AttemptIds /\ nextAttemptId' = nextAttemptId + 1
      /\ a \notin Live
      /\ Live' = Live \cup {a}
      /\ \A b \in Live : attempts'[b] = attempts[b]
  BY ClaimEffect
<1>2. attempts'[a].lifecycle = "pending"
  BY DEF Claim
<1> QED
  BY <1>1, <1>2, ClaimInv DEF Active

LEMMA SetPhaseLives ==
  ASSUME CoordinatorInv, NEW a, SetPhase(a)
  PROVE  /\ CoordinatorInv'
         /\ nextAttemptId' = nextAttemptId
         /\ Live' = Live
         /\ \A b : b # a => (Active(b)' <=> Active(b))
         /\ Active(a)' <=> a \in Live
<1>1. CASE ~(a \in Live /\ ~Active(a))
  <2>1. UNCHANGED coordinatorVars
    BY <1>1 DEF SetPhase, coordinatorVars
  <2> QED
    BY <1>1, <2>1, UnchangedInv DEF coordinatorVars, Live, Active
<1>2. CASE a \in Live /\ ~Active(a)
  <2>1. /\ Live' = Live /\ nextAttemptId' = nextAttemptId
        /\ attempts'[a].lifecycle = "active"
        /\ \A b \in Live \ {a} : attempts'[b] = attempts[b]
    BY <1>2, SetPhaseEffect
  <2> QED
    BY <1>2, <2>1, SetPhaseInv DEF Active
<1> QED
  BY <1>1, <1>2

\* release takes the attempt out; complete does so with a running one.
LEMMA RemovalLives ==
  ASSUME CoordinatorInv, NEW a, Release(a) \/ Complete(a)
  PROVE  /\ CoordinatorInv'
         /\ nextAttemptId' = nextAttemptId
         /\ Live' \subseteq Live /\ Live \ {a} \subseteq Live'
         /\ \A b \in Live' : Active(b)' <=> Active(b)
         /\ Release(a) \/ Active(a) => a \notin Live'
<1>1. CASE a \in Live /\ (Release(a) \/ (Active(a) /\ Complete(a)))
  <2>1. /\ Live' = Live \ {a} /\ nextAttemptId' = nextAttemptId
        /\ \A b \in Live \ {a} : attempts'[b] = attempts[b]
    BY <1>1, RemovalEffect
  <2> QED
    BY <1>1, <2>1, RemovalInv DEF Active
<1>2. CASE ~(a \in Live /\ (Release(a) \/ (Active(a) /\ Complete(a))))
  <2>1. a \notin Live \/ (~Release(a) /\ Complete(a) /\ ~Active(a))
    BY <1>2
  <2>2. Active(a) => a \in Live
    BY DEF Active
  <2>3. ASSUME a \notin Live PROVE UNCHANGED coordinatorVars
    BY <2>2, <2>3 DEF Release, Complete, coordinatorVars
  <2>4. ASSUME Complete(a), ~Active(a) PROVE UNCHANGED coordinatorVars
    BY <2>4 DEF Complete, coordinatorVars
  <2>5. UNCHANGED coordinatorVars
    BY <2>1, <2>3, <2>4
  <2>6. /\ Live' = Live /\ nextAttemptId' = nextAttemptId
        /\ \A b : Active(b)' <=> Active(b)
    BY <2>5 DEF coordinatorVars, Live, Active
  <2>7. CoordinatorInv'
    BY <2>5, UnchangedInv
  <2> QED
    BY <2>1, <2>2, <2>6, <2>7
<1> QED
  BY <1>1, <1>2

-----------------------------------------------------------------------------
(* The jobs and their lives *)

\* A step that claims an attempt n for the job r.
LEMMA NewJobStep ==
  ASSUME JobFacts, Live \subseteq AttemptIds, NEW n \in AttemptIds, n = nextAttemptId, nextAttemptId' = n + 1,
         NEW r \in [kind: Kinds, family: Families, parent: AttemptIds \cup {NoAttempt}],
         job' = [job EXCEPT ![n] = r],
         stage' \in [AttemptIds -> {"gates", "working", "cleared", "scheduling"}],
         UNCHANGED <<committed, finalized, rejected, completed>>,
         Live' = Live \cup {n}, ~Active(n)',
         \A b : b # n => (Active(b)' <=> Active(b)),
         body'[n] \in {"none", "queued"},
         \A b \in AttemptIds \ {n} : body'[b] = body[b],
         r.kind # "retry" => r.parent = NoAttempt,
         r.kind = "retry" => /\ r.parent \in AttemptIds
                             /\ job[r.parent].kind = "automatic"
                             /\ job[r.parent].family = r.family
                             /\ body[r.parent] \notin {"none", "queued"}
  PROVE  JobFacts'
<1>1. /\ job'[n] = r /\ job[n] = NoJob
      /\ \A b \in AttemptIds \ {n} : job'[b] = job[b]
      /\ n \notin committed /\ n \notin finalized
  BY DEF JobFacts, JobTypeOK, JobsAreClaimed, AttemptIds
<1>2. JobTypeOK'
  BY DEF JobFacts, JobTypeOK
<1>3. \A b \in AttemptIds : job[b].kind = "retry" =>
        job[b].parent \in AttemptIds \ {n} /\ b # n
  BY <1>1 DEF JobFacts, JobsAreClaimed, NoJob
<1>4. JobsAreClaimed'
  <2> SUFFICES ASSUME NEW b \in AttemptIds
               PROVE  /\ b >= n + 1 =>
                           /\ job'[b] = NoJob /\ body'[b] = "none"
                           /\ b \notin committed /\ b \notin finalized
                      /\ job'[b] # NoJob /\ job'[b].kind # "retry" =>
                           job'[b].parent = NoAttempt
                      /\ job'[b].kind = "retry" =>
                           /\ job'[b].parent \in AttemptIds
                           /\ job'[job'[b].parent].kind = "automatic"
                           /\ job'[job'[b].parent].family = job'[b].family
                           /\ body'[job'[b].parent] \notin {"none", "queued"}
    BY DEF JobsAreClaimed
  <2>1. CASE b = n
    <3>1. r.kind = "retry" => r.parent # n
      BY <1>1 DEF NoJob
    <3> QED
      BY <1>1, <2>1, <3>1 DEF AttemptIds
  <2>2. CASE b # n
    BY <1>1, <1>3, <2>2 DEF JobFacts, JobsAreClaimed, AttemptIds
  <2> QED
    BY <2>1, <2>2
<1>5. LivesEnd'
  <2>1. \A b \in finalized' : b \notin Live'
    BY <1>1 DEF JobFacts, LivesEnd
  <2>2. \A b \in committed' \cap Live' : Active(b)'
    BY <1>1 DEF JobFacts, LivesEnd
  <2>3. \A b \in Live' : job'[b].kind = "retry" =>
          /\ Active(b)' <=> body'[b] \notin {"none", "queued"}
          /\ body'[b] \in {"settled", "done"} => b \in rejected'
    <3> TAKE b \in Live'
    <3>1. CASE b = n
      BY <3>1
    <3>2. CASE b # n
      BY <1>1, <3>2 DEF JobFacts, LivesEnd
    <3> QED
      BY <3>1, <3>2
  <2> QED
    BY <2>1, <2>2, <2>3 DEF LivesEnd
<1>6. RetryFollowsParent'
  <2> SUFFICES ASSUME NEW b \in Live', job'[b].kind = "retry", Active(b)'
               PROVE  body'[job'[b].parent] # "running"
    BY DEF RetryFollowsParent
  <2>1. b # n /\ b \in Live /\ Active(b)
    OBVIOUS
  <2> QED
    BY <1>1, <1>3, <2>1 DEF JobFacts, RetryFollowsParent
<1> QED
  BY <1>2, <1>4, <1>5, <1>6 DEF JobFacts

\* A step of the job a, by which no attempt is claimed.
LEMMA JobStep ==
  ASSUME JobFacts, Live \subseteq AttemptIds, NEW a \in AttemptIds,
         job[a] # NoJob \/ body[a] # "none",
         UNCHANGED <<nextAttemptId, job>>, JobTypeOK',
         Live' \subseteq Live,
         \A b \in Live' : b # a => (Active(b)' <=> Active(b)),
         \A b \in AttemptIds \ {a} : body'[b] = body[b],
         committed' \subseteq committed \cup {a},
         finalized' \subseteq finalized \cup {a},
         rejected \subseteq rejected',
         body[a] \notin {"none", "queued"} => body'[a] \notin {"none", "queued"},
         body'[a] = "running" => body[a] \in {"queued", "running"},
         a \in committed' /\ a \in Live' => Active(a)',
         a \in finalized' => a \notin Live',
         a \in Live' /\ job[a].kind = "retry" =>
           /\ Active(a)' <=> body'[a] \notin {"none", "queued"}
           /\ body'[a] \in {"settled", "done"} => a \in rejected'
           /\ Active(a)' /\ ~Active(a) => body[job[a].parent] # "running"
  PROVE  JobFacts'
<1>1. JobsAreClaimed'
  <2>1. \A b \in AttemptIds : b >= nextAttemptId =>
          /\ job[b] = NoJob /\ body'[b] = "none"
          /\ b \notin committed' /\ b \notin finalized'
    <3>1. \A b \in AttemptIds : b >= nextAttemptId => b # a
      BY DEF JobFacts, JobsAreClaimed
    <3> QED
      BY <3>1 DEF JobFacts, JobsAreClaimed
  <2>2. \A b \in AttemptIds : body[b] \notin {"none", "queued"} =>
          body'[b] \notin {"none", "queued"}
    OBVIOUS
  <2> QED
    BY <2>1, <2>2 DEF JobFacts, JobsAreClaimed
<1>2. LivesEnd'
  <2>1. \A b \in finalized' : b \notin Live'
    BY DEF JobFacts, LivesEnd
  <2>2. \A b \in committed' \cap Live' : Active(b)'
    BY DEF JobFacts, LivesEnd
  <2>3. \A b \in Live' : job'[b].kind = "retry" =>
          /\ Active(b)' <=> body'[b] \notin {"none", "queued"}
          /\ body'[b] \in {"settled", "done"} => b \in rejected'
    <3> TAKE b \in Live'
    <3>1. CASE b = a
      BY <3>1
    <3>2. CASE b # a
      BY <3>2 DEF JobFacts, LivesEnd
    <3> QED
      BY <3>1, <3>2
  <2> QED
    BY <2>1, <2>2, <2>3 DEF LivesEnd
<1>3. RetryFollowsParent'
  <2> SUFFICES ASSUME NEW b \in Live', job[b].kind = "retry", Active(b)'
               PROVE  body'[job[b].parent] # "running"
    BY DEF RetryFollowsParent
  <2> PICK p : p = job[b].parent
    OBVIOUS
  <2>1. /\ b \in Live /\ b \in AttemptIds /\ p \in AttemptIds
        /\ job[p].kind = "automatic"
        /\ body[p] \notin {"none", "queued"}
    BY DEF JobFacts, JobsAreClaimed
  <2>2. p # b
    BY <2>1
  <2>3. body[p] # "running"
    <3>1. CASE Active(b)
      BY <2>1, <3>1 DEF JobFacts, RetryFollowsParent
    <3>2. CASE ~Active(b)
      BY <2>1, <3>2
    <3> QED
      BY <3>1, <3>2
  <2> QED
    BY <2>1, <2>3
<1> QED
  BY <1>1, <1>2, <1>3 DEF JobFacts

\* The same of a step that changes neither the coordinator nor the queue.
LEMMA StageStep ==
  ASSUME WorkIInv, NEW b \in AttemptIds,
         NEW x \in {"gates", "working", "cleared", "scheduling"},
         stage' = [stage EXCEPT ![b] = x],
         UNCHANGED <<coordinatorVars, queueVars, job, committed, finalized, rejected, completed>>
  PROVE  WorkIInv'
<1>1. CoordinatorInv'
  BY UnchangedInv DEF WorkIInv
<1>2. QueueFacts'
  BY DEF WorkIInv, queueVars, QueueFacts, Queue!TypeOK, WaitingIsQueued, QueuedOnceIn,
         RunningHoldsSlot, Lane
<1>3. /\ Live' = Live /\ nextAttemptId' = nextAttemptId
      /\ \A a : Active(a)' <=> Active(a)
  BY DEF coordinatorVars, Live, Active
<1>4. JobFacts'
  BY <1>3 DEF WorkIInv, queueVars, JobFacts, JobTypeOK, JobsAreClaimed, LivesEnd,
             RetryFollowsParent
<1> QED
  BY <1>1, <1>2, <1>4 DEF WorkIInv

-----------------------------------------------------------------------------
(* Every action keeps the invariant *)

\* What the types say about the lane of a job.
LEMMA LaneFacts ==
  ASSUME JobFacts, NEW a \in AttemptIds
  PROVE  /\ job[a].kind = "retry" =>
              /\ job[a].family \in Families
              /\ Lane(a) = <<job[a].family, "review">>
              /\ Lane(a) = Lane(job[a].parent)
              /\ Lane(a) = ScopeOf("retry", job[a].family)
              /\ Lane(a) \in Lanes
         /\ \A kind, f : ScopeOf(kind, f) \in {<<f, "review">>, <<f, "interactive-review">>}
<1> QED
  BY DEF JobFacts, JobTypeOK, JobsAreClaimed, Lane, ScopeOf, LaneOf, Lanes, NoJob

LEMMA LiveAreIds ==
  ASSUME CoordinatorInv
  PROVE  Live \subseteq AttemptIds
<1> QED
  BY DEF CoordinatorInv, TypeOK, Live

LEMMA ReceiveKeeps ==
  ASSUME WorkIInv, NEW kind \in {"automatic", "explicit"}, NEW f \in Families,
         ReceiveEvent(kind, f)
  PROVE  WorkIInv'
<1> PICK n : n = nextAttemptId
  OBVIOUS
<1> PICK r : r = [kind |-> kind, family |-> f, parent |-> NoAttempt]
  OBVIOUS
<1> PICK s : s = ScopeOf(kind, f)
  OBVIOUS
<1>1. /\ Claim(n, f, "claimed") /\ Queue!Enqueue(n, s)
      /\ job' = [job EXCEPT ![n] = r]
      /\ UNCHANGED <<stage, committed, finalized, rejected, completed>>
  BY DEF ReceiveEvent, NewJob
<1>2. /\ CoordinatorInv'
      /\ n \in AttemptIds /\ nextAttemptId' = n + 1
      /\ n \notin Live /\ Live' = Live \cup {n}
      /\ \A b : b # n => (Active(b)' <=> Active(b))
      /\ ~Active(n)'
  BY <1>1, ClaimLives DEF WorkIInv
<1>3. /\ s \in Lanes
      /\ r \in [kind: Kinds, family: Families, parent: AttemptIds \cup {NoAttempt}]
      /\ r.kind = kind /\ r.family = f /\ r.parent = NoAttempt
      /\ job \in [AttemptIds -> [kind: Kinds, family: Families,
                                 parent: AttemptIds \cup {NoAttempt}] \cup {NoJob}]
  BY <1>2, LaneFacts DEF Lanes, Kinds, WorkIInv, JobFacts, JobTypeOK
<1>4. job'[n] = r /\ \A b \in AttemptIds \ {n} : job'[b] = job[b]
  BY <1>1, <1>2, <1>3
<1>5. QueueFacts'
  <2>1. Lane(n)' = s /\ \A b \in AttemptIds \ {n} : Lane(b)' = Lane(b)
    BY <1>3, <1>4 DEF Lane
  <2> QED
    BY <1>1, <1>2, <1>3, <2>1, EnqueueKeepsLanes DEF WorkIInv
<1>6. /\ body'[n] = "queued" /\ \A b \in AttemptIds \ {n} : body'[b] = body[b]
  BY <1>1, <1>2 DEF Queue!Enqueue, WorkIInv, QueueFacts, Queue!TypeOK
<1>7. stage' \in [AttemptIds -> {"gates", "working", "cleared", "scheduling"}]
  BY <1>1 DEF WorkIInv, JobFacts, JobTypeOK
<1>8. JobFacts'
  BY <1>1, <1>2, <1>3, <1>6, <1>7, LiveAreIds, NewJobStep DEF WorkIInv
<1> QED
  BY <1>2, <1>5, <1>8 DEF WorkIInv

LEMMA ClaimRetryKeeps ==
  ASSUME WorkIInv, NEW p \in AttemptIds, ClaimRetry(p)
  PROVE  WorkIInv'
<1> PICK n : n = nextAttemptId
  OBVIOUS
<1> PICK f : f = job[p].family
  OBVIOUS
<1> PICK r : r = [kind |-> "retry", family |-> f, parent |-> p]
  OBVIOUS
<1>1. /\ body[p] \in {"running", "abandoned", "abandoned-closed"}
      /\ job[p].kind = "automatic"
      /\ Claim(n, f, "claimed")
      /\ job' = [job EXCEPT ![n] = r]
      /\ stage' = [stage EXCEPT ![p] = "scheduling"]
      /\ UNCHANGED <<queueVars, committed, finalized, rejected, completed>>
  BY DEF ClaimRetry, NewJob, Executing, Queue!Executing
<1>2. /\ job \in [AttemptIds -> [kind: Kinds, family: Families,
                                 parent: AttemptIds \cup {NoAttempt}] \cup {NoJob}]
      /\ stage' \in [AttemptIds -> {"gates", "working", "cleared", "scheduling"}]
  BY <1>1 DEF WorkIInv, JobFacts, JobTypeOK
<1>3. /\ f \in Families
      /\ r \in [kind: Kinds, family: Families, parent: AttemptIds \cup {NoAttempt}]
      /\ r.kind = "retry" /\ r.family = f /\ r.parent = p
  BY <1>1, <1>2 DEF Kinds, NoJob
<1>4. /\ CoordinatorInv'
      /\ n \in AttemptIds /\ nextAttemptId' = n + 1
      /\ n \notin Live /\ Live' = Live \cup {n}
      /\ \A b : b # n => (Active(b)' <=> Active(b))
      /\ ~Active(n)'
  BY <1>1, <1>3, ClaimLives DEF WorkIInv
<1>5. body[n] = "none" /\ body' = body
  BY <1>1, <1>4 DEF WorkIInv, JobFacts, JobsAreClaimed, queueVars, AttemptIds
<1>6. \A b \in AttemptIds \ {n} : Lane(b)' = Lane(b)
  BY <1>1, <1>2, <1>4 DEF Lane
<1>7. QueueFacts'
  <2>1. UNCHANGED <<queueScopes, activeJobs, tracked, enqueued>>
    BY <1>1 DEF queueVars
  <2>2. body' \in [AttemptIds -> Queue!BodyStates]
    BY <1>5 DEF WorkIInv, QueueFacts, Queue!TypeOK
  <2> QED
    BY <1>5, <1>6, <2>1, <2>2, QuietKeepsLanes DEF WorkIInv
<1>8. JobFacts'
  BY <1>1, <1>2, <1>3, <1>4, <1>5, LiveAreIds, NewJobStep DEF WorkIInv
<1> QED
  BY <1>4, <1>7, <1>8 DEF WorkIInv

LEMMA StartBodyKeeps ==
  ASSUME WorkIInv, NEW s \in Lanes, StartBody(s)
  PROVE  WorkIInv'
<1> PICK a : a = Head(queueScopes[s].waiting)
  OBVIOUS
<1>1. /\ Queue!Start(s)
      /\ UNCHANGED <<job, committed, finalized, rejected, completed>>
      /\ job[a].kind = "retry" =>
           SetPhase(a) /\ stage' = [stage EXCEPT ![a] = "working"]
      /\ job[a].kind # "retry" => UNCHANGED <<coordinatorVars, stage>>
  BY DEF StartBody
<1>2. /\ QueueFacts'
      /\ a \in AttemptIds /\ body[a] = "queued" /\ Lane(a) = s
      /\ body'[a] = "running"
      /\ \A b \in AttemptIds \ {a} : body'[b] = body[b]
      /\ queueScopes[s].pending = {}
  BY <1>1, StartKeepsLanes DEF WorkIInv
<1>3. JobTypeOK'
  BY <1>1, <1>2 DEF WorkIInv, JobFacts, JobTypeOK, coordinatorVars
<1>4. /\ CoordinatorInv'
      /\ nextAttemptId' = nextAttemptId /\ Live' = Live
      /\ \A b : b # a => (Active(b)' <=> Active(b))
      /\ Active(a) => Active(a)'
      /\ job[a].kind = "retry" /\ a \in Live => Active(a)'
  <2>1. CASE job[a].kind = "retry"
    <3>1. Active(a) => a \in Live
      BY DEF Active
    <3> QED
      BY <1>1, <2>1, <3>1, SetPhaseLives DEF WorkIInv
  <2>2. CASE job[a].kind # "retry"
    <3>1. UNCHANGED coordinatorVars
      BY <1>1, <2>2
    <3> QED
      BY <2>2, <3>1, UnchangedInv DEF WorkIInv, coordinatorVars, Live, Active
  <2> QED
    BY <2>1, <2>2
<1>5. a \in committed /\ a \in Live => Active(a)'
  BY <1>4 DEF WorkIInv, JobFacts, LivesEnd
<1>6. a \notin finalized \/ a \notin Live
  BY DEF WorkIInv, JobFacts, LivesEnd
<1>7. job[a].kind = "retry" => body[job[a].parent] # "running"
  <2> SUFFICES ASSUME job[a].kind = "retry", body[job[a].parent] = "running"
               PROVE  FALSE
    OBVIOUS
  <2>1. job[a].parent \in AttemptIds /\ Lane(job[a].parent) = s
    BY <1>2, LaneFacts DEF WorkIInv, JobFacts, JobsAreClaimed
  <2>2. job[a].parent \in queueScopes[s].pending
    BY <2>1 DEF WorkIInv, QueueFacts, RunningHoldsSlot
  <2> QED
    BY <1>2, <2>2
<1>8. JobFacts'
  BY <1>1, <1>2, <1>3, <1>4, <1>5, <1>6, <1>7, LiveAreIds, JobStep DEF WorkIInv
<1> QED
  BY <1>2, <1>4, <1>8 DEF WorkIInv

LEMMA BeginWorkKeeps ==
  ASSUME WorkIInv, NEW a \in AttemptIds, BeginWork(a)
  PROVE  WorkIInv'
<1>1. /\ body[a] \in {"running", "abandoned", "abandoned-closed"}
      /\ SetPhase(a)
      /\ stage' = [stage EXCEPT ![a] = "working"]
      /\ committed' = committed \cup {a}
      /\ UNCHANGED <<queueVars, job, finalized, rejected, completed>>
  BY DEF BeginWork, Executing, Queue!Executing
<1>2. /\ CoordinatorInv'
      /\ nextAttemptId' = nextAttemptId /\ Live' = Live
      /\ \A b : b # a => (Active(b)' <=> Active(b))
      /\ Active(a)' <=> a \in Live
  BY <1>1, SetPhaseLives DEF WorkIInv
<1>3. QueueFacts'
  BY <1>1 DEF WorkIInv, queueVars, QueueFacts, Queue!TypeOK, WaitingIsQueued, QueuedOnceIn,
              RunningHoldsSlot, Lane
<1>4. JobTypeOK' /\ body' = body
  BY <1>1 DEF WorkIInv, JobFacts, JobTypeOK, queueVars
<1>5. a \in finalized => a \notin Live
  BY DEF WorkIInv, JobFacts, LivesEnd
<1>6. a \in Live /\ job[a].kind = "retry" => Active(a)
  BY <1>1 DEF WorkIInv, JobFacts, LivesEnd
<1>7. JobFacts'
  BY <1>1, <1>2, <1>4, <1>5, <1>6, LiveAreIds, JobStep DEF WorkIInv
<1> QED
  BY <1>2, <1>3, <1>7 DEF WorkIInv

LEMMA EnqueueRetryKeeps ==
  ASSUME WorkIInv, NEW a \in AttemptIds, EnqueueRetry(a)
  PROVE  WorkIInv'
<1> PICK s : s = ScopeOf("retry", job[a].family)
  OBVIOUS
<1>1. /\ job[a].kind = "retry"
      /\ Queue!Enqueue(a, s)
      /\ stage' = [stage EXCEPT ![job[a].parent] = "working"]
      /\ UNCHANGED <<coordinatorVars, job, committed, finalized, rejected, completed>>
  BY DEF EnqueueRetry
<1>2. /\ s \in Lanes /\ Lane(a) = s /\ job[a] # NoJob
      /\ \A b : Lane(b)' = Lane(b)
  BY <1>1, LaneFacts DEF WorkIInv, Lane, NoJob
<1>3. QueueFacts'
  BY <1>1, <1>2, EnqueueKeepsLanes DEF WorkIInv
<1>4. /\ body[a] = "none" /\ body'[a] = "queued"
      /\ \A b \in AttemptIds \ {a} : body'[b] = body[b]
  BY <1>1 DEF Queue!Enqueue, WorkIInv, QueueFacts, Queue!TypeOK
<1>5. JobTypeOK'
  BY <1>1 DEF WorkIInv, JobFacts, JobTypeOK
<1>6. CoordinatorInv'
  BY <1>1, UnchangedInv DEF WorkIInv
<1>7. /\ nextAttemptId' = nextAttemptId /\ Live' = Live
      /\ \A b : Active(b)' <=> Active(b)
  BY <1>1 DEF coordinatorVars, Live, Active
<1>8. /\ a \in finalized => a \notin Live
      /\ a \in committed /\ a \in Live => Active(a)
      /\ a \in Live => ~Active(a)
  BY <1>1, <1>4 DEF WorkIInv, JobFacts, LivesEnd
<1>9. JobFacts'
  BY <1>1, <1>2, <1>4, <1>5, <1>7, <1>8, LiveAreIds, JobStep DEF WorkIInv
<1> QED
  BY <1>3, <1>6, <1>9 DEF WorkIInv

LEMMA StageKeeps ==
  ASSUME WorkIInv, NEW a \in AttemptIds,
         PassGate(a) \/ PostReturns(a) \/ SchedulingFails(a)
  PROVE  WorkIInv'
<1>1. CASE PassGate(a)
  BY <1>1, StageStep DEF PassGate
<1>2. CASE PostReturns(a)
  BY <1>2, StageStep DEF PostReturns
<1>3. CASE SchedulingFails(a)
  <2>1. job[a].parent \in AttemptIds
    BY <1>3 DEF SchedulingFails, WorkIInv, JobFacts, JobsAreClaimed
  <2> QED
    BY <1>3, <2>1, StageStep DEF SchedulingFails
<1> QED
  BY <1>1, <1>2, <1>3

\* A step of the queue alone that ends the wait for a body, or closes a job.
LEMMA QueueAloneKeeps ==
  ASSUME WorkIInv, NEW a \in AttemptIds, HardTimeout(a) \/ CloseJob(a)
  PROVE  WorkIInv'
<1>1. UNCHANGED <<coordinatorVars, jobVars>>
  BY DEF HardTimeout, CloseJob
<1>2. CoordinatorInv'
  BY <1>1, UnchangedInv DEF WorkIInv
<1>3. /\ QueueFacts'
      /\ body[a] \in {"running", "settled", "abandoned"}
      /\ body'[a] \in {"abandoned", "done", "abandoned-closed"}
      /\ body'[a] = "done" => body[a] = "settled"
      /\ \A b \in AttemptIds \ {a} : body'[b] = body[b]
  <2>1. CASE HardTimeout(a)
    <3>1. /\ body[a] = "running" /\ Queue!FreeSlot(a)
          /\ body' = [body EXCEPT ![a] = "abandoned"]
          /\ UNCHANGED <<activeJobs, tracked, enqueued, job>>
      BY <1>1, <2>1 DEF HardTimeout, Queue!HardTimeout, jobVars
    <3>2. QueueFacts'
      BY <3>1, FreeKeepsLanes DEF WorkIInv
    <3> QED
      BY <3>1, <3>2 DEF WorkIInv, QueueFacts, Queue!TypeOK
  <2>2. CASE CloseJob(a)
    <3>1. Queue!Close(a) /\ UNCHANGED job
      BY <1>1, <2>2 DEF CloseJob, jobVars
    <3>2. QueueFacts'
      BY <3>1, CloseKeepsLanes DEF WorkIInv
    <3>3. /\ body[a] \in {"settled", "abandoned"}
          /\ body'[a] = IF body[a] = "settled" THEN "done" ELSE "abandoned-closed"
          /\ \A b \in AttemptIds \ {a} : body'[b] = body[b]
      BY <3>1 DEF Queue!Close, WorkIInv, QueueFacts, Queue!TypeOK
    <3> QED
      BY <3>2, <3>3
  <2> QED
    BY <2>1, <2>2
<1>4. JobTypeOK' /\ UNCHANGED <<job, committed, finalized, rejected>>
  BY <1>1 DEF WorkIInv, JobFacts, JobTypeOK, jobVars
<1>5. /\ nextAttemptId' = nextAttemptId /\ Live' = Live
      /\ \A b : Active(b)' <=> Active(b)
  BY <1>1 DEF coordinatorVars, Live, Active
<1>6. /\ a \in finalized => a \notin Live
      /\ a \in committed /\ a \in Live => Active(a)
      /\ a \in Live /\ job[a].kind = "retry" =>
           /\ Active(a)
           /\ body[a] = "settled" => a \in rejected
  BY <1>3 DEF WorkIInv, JobFacts, LivesEnd
<1>7. JobFacts'
  BY <1>3, <1>4, <1>5, <1>6, LiveAreIds, JobStep DEF WorkIInv
<1> QED
  BY <1>2, <1>3, <1>7 DEF WorkIInv

\* The clean-up of a retry takes it out of the coordinator, or is a rejection.
LEMMA BodyIsOverKeeps ==
  ASSUME WorkIInv, NEW a \in AttemptIds, BodyEnds(a) \/ AbandonedBodyEnds(a)
  PROVE  WorkIInv'
<1>1. /\ job[a].kind = "retry" => RetryCleansUp(a)
      /\ job[a].kind # "retry" => UNCHANGED <<coordinatorVars, rejected, completed>>
      /\ UNCHANGED <<job, stage, committed, finalized>>
  BY DEF BodyEnds, AbandonedBodyEnds
<1>2. /\ QueueFacts'
      /\ body[a] \in {"running", "abandoned-closed"}
      /\ body'[a] \in {"settled", "done"}
      /\ \A b \in AttemptIds \ {a} : body'[b] = body[b]
  <2>1. CASE BodyEnds(a)
    <3>1. /\ body[a] = "running" /\ Queue!FreeSlot(a)
          /\ body' = [body EXCEPT ![a] = "settled"]
          /\ UNCHANGED <<activeJobs, tracked, enqueued, job>>
      BY <1>1, <2>1 DEF BodyEnds, Queue!BodySettles
    <3>2. QueueFacts'
      BY <3>1, FreeKeepsLanes DEF WorkIInv
    <3> QED
      BY <3>1, <3>2 DEF WorkIInv, QueueFacts, Queue!TypeOK
  <2>2. CASE AbandonedBodyEnds(a)
    <3>1. /\ body[a] = "abandoned-closed"
          /\ body' = [body EXCEPT ![a] = "done"]
          /\ body \in [AttemptIds -> Queue!BodyStates]
          /\ UNCHANGED <<queueScopes, activeJobs, tracked, enqueued>>
      BY <2>2 DEF AbandonedBodyEnds, Queue!AbandonedBodyEnds, WorkIInv, QueueFacts,
                  Queue!TypeOK
    <3>2. /\ body'[a] = "done" /\ \A b \in AttemptIds \ {a} : body'[b] = body[b]
          /\ body' \in [AttemptIds -> Queue!BodyStates]
      BY <3>1 DEF Queue!BodyStates
    <3>3. \A b \in AttemptIds : Lane(b)' = Lane(b)
      BY <1>1 DEF Lane
    <3>4. \A b \in AttemptIds :
            \/ body'[b] = body[b]
            \/ {body[b], body'[b]} = {"abandoned-closed", "done"}
      BY <3>1, <3>2
    <3>5. QueueFacts'
      BY <3>1, <3>2, <3>3, <3>4, QuietKeepsLanes DEF WorkIInv
    <3> QED
      BY <3>1, <3>2, <3>5
  <2> QED
    BY <2>1, <2>2
<1>3. /\ a \in finalized => a \notin Live
      /\ a \in committed /\ a \in Live => Active(a)
      /\ a \in Live /\ job[a].kind = "retry" => Active(a)
  BY <1>2 DEF WorkIInv, JobFacts, LivesEnd
<1>4. /\ CoordinatorInv'
      /\ nextAttemptId' = nextAttemptId
      /\ Live' \subseteq Live
      /\ \A b \in Live' : Active(b)' <=> Active(b)
      /\ rejected \subseteq rejected' /\ rejected' \subseteq rejected \cup {a}
      /\ completed' \subseteq completed \cup {a}
      /\ job[a].kind = "retry" /\ a \in Live' => a \in rejected'
  <2>1. CASE job[a].kind # "retry" \/ UNCHANGED <<coordinatorVars, completed>>
    <3>1. UNCHANGED <<coordinatorVars, completed>>
      BY <1>1, <2>1
    <3>2. /\ nextAttemptId' = nextAttemptId /\ Live' = Live
          /\ \A b : Active(b)' <=> Active(b)
      BY <3>1 DEF coordinatorVars, Live, Active
    <3>3. CoordinatorInv'
      BY <3>1, UnchangedInv DEF WorkIInv
    <3>4. CASE job[a].kind # "retry"
      BY <1>1, <3>1, <3>2, <3>3, <3>4
    <3>5. CASE job[a].kind = "retry" /\ rejected' = rejected \cup {a}
      BY <3>1, <3>2, <3>3, <3>5
    <3>6. CASE job[a].kind = "retry" /\ Complete(a) /\ rejected' = rejected
      <4>1. Active(a) => a \notin Live'
        BY <3>6, RemovalLives DEF WorkIInv
      <4> QED
        BY <1>3, <3>1, <3>2, <3>3, <3>6, <4>1
    <3> QED
      BY <1>1, <3>4, <3>5, <3>6 DEF RetryCleansUp
  <2>2. CASE job[a].kind = "retry" /\ ~UNCHANGED <<coordinatorVars, completed>>
    <3>1. /\ Complete(a) /\ rejected' = rejected
          /\ completed' \subseteq completed \cup {a}
      BY <1>1, <2>2 DEF RetryCleansUp
    <3>2. /\ CoordinatorInv'
          /\ nextAttemptId' = nextAttemptId
          /\ Live' \subseteq Live
          /\ \A b \in Live' : Active(b)' <=> Active(b)
          /\ Active(a) => a \notin Live'
      BY <3>1, RemovalLives DEF WorkIInv
    <3> QED
      BY <1>3, <3>1, <3>2
  <2> QED
    BY <2>1, <2>2
<1>5. JobTypeOK'
  BY <1>1, <1>4 DEF WorkIInv, JobFacts, JobTypeOK
<1>6. JobFacts'
  BY <1>1, <1>2, <1>3, <1>4, <1>5, LiveAreIds, JobStep DEF WorkIInv
<1> QED
  BY <1>2, <1>4, <1>6 DEF WorkIInv

\* finalize, and the release behind a retry's enqueue, leave nothing behind.
LEMMA FinalizeKeeps ==
  ASSUME WorkIInv, NEW a \in AttemptIds, Finalize(a) \/ ReleaseRetry(a)
  PROVE  WorkIInv'
<1>1. /\ body[a] \in {"done", "abandoned-closed"}
      /\ finalized' = finalized \cup {a}
      /\ UNCHANGED <<queueVars, job, stage, committed, rejected>>
      /\ completed' \subseteq completed \cup {a}
      /\ Release(a) \/ (a \in committed /\ Complete(a))
  BY DEF Finalize, ReleaseRetry
<1>2. a \in committed /\ a \in Live => Active(a)
  BY DEF WorkIInv, JobFacts, LivesEnd
<1>3. /\ CoordinatorInv'
      /\ nextAttemptId' = nextAttemptId
      /\ Live' \subseteq Live /\ a \notin Live'
      /\ \A b \in Live' : Active(b)' <=> Active(b)
  <2>1. /\ CoordinatorInv'
        /\ nextAttemptId' = nextAttemptId
        /\ Live' \subseteq Live
        /\ \A b \in Live' : Active(b)' <=> Active(b)
        /\ Release(a) \/ Active(a) => a \notin Live'
    BY <1>1, RemovalLives DEF WorkIInv
  <2> QED
    BY <1>1, <1>2, <2>1
<1>4. QueueFacts'
  BY <1>1 DEF WorkIInv, queueVars, QueueFacts, Queue!TypeOK, WaitingIsQueued, QueuedOnceIn,
              RunningHoldsSlot, Lane
<1>5. JobTypeOK' /\ body' = body
  BY <1>1 DEF WorkIInv, JobFacts, JobTypeOK, queueVars
<1>6. JobFacts'
  BY <1>1, <1>3, <1>5, LiveAreIds, JobStep DEF WorkIInv
<1> QED
  BY <1>3, <1>4, <1>6 DEF WorkIInv

LEMMA StutterKeeps ==
  ASSUME WorkIInv, UNCHANGED vars
  PROVE  WorkIInv'
<1>1. /\ UNCHANGED <<coordinatorVars, queueVars, jobVars>>
      /\ UNCHANGED <<queueScopes, activeJobs, tracked, body, enqueued, job, stage, committed,
                     finalized, rejected, completed>>
  BY DEF vars, queueVars, jobVars
<1>2. /\ CoordinatorInv'
      /\ nextAttemptId' = nextAttemptId /\ Live' = Live
      /\ \A b : Active(b)' <=> Active(b)
  BY <1>1, UnchangedInv DEF WorkIInv, coordinatorVars, Live, Active
<1>3. QueueFacts'
  BY <1>1 DEF WorkIInv, QueueFacts, Queue!TypeOK, WaitingIsQueued, QueuedOnceIn,
              RunningHoldsSlot, Lane
<1>4. JobFacts'
  BY <1>1, <1>2 DEF WorkIInv, JobFacts, JobTypeOK, JobsAreClaimed, LivesEnd,
                    RetryFollowsParent
<1> QED
  BY <1>2, <1>3, <1>4 DEF WorkIInv

LEMMA WorkInit == Init => WorkIInv
<1> SUFFICES ASSUME Init PROVE WorkIInv
  OBVIOUS
<1>1. CoordinatorInv /\ Live = {}
  BY InitInv DEF Init, CoordinatorInit, Live
<1>2. /\ DOMAIN queueScopes = {} /\ DOMAIN activeJobs = {} /\ tracked = {}
      /\ body = [a \in AttemptIds |-> "none"]
      /\ enqueued = [s \in Lanes |-> << >>]
  BY DEF Init, Queue!QueueInit, Lanes
<1>3. QueueFacts
  BY <1>2 DEF QueueFacts, Queue!TypeOK, WaitingIsQueued, RunningHoldsSlot, Queue!BodyStates,
              Lanes
<1>4. JobTypeOK
  BY DEF Init, JobTypeOK
<1>5. JobsAreClaimed
  BY <1>2 DEF Init, JobsAreClaimed, NoJob
<1> QED
  BY <1>1, <1>3, <1>4, <1>5 DEF Init, WorkIInv, JobFacts, LivesEnd, RetryFollowsParent

LEMMA WorkStep == WorkIInv /\ [Next]_vars => WorkIInv'
<1> SUFFICES ASSUME WorkIInv, [Next]_vars PROVE WorkIInv'
  OBVIOUS
<1>1. ASSUME NEW kind \in {"automatic", "explicit"}, NEW f \in Families,
             ReceiveEvent(kind, f)
      PROVE  WorkIInv'
  BY <1>1, ReceiveKeeps
<1>2. ASSUME NEW s \in Families \X {"review", "interactive-review"}, StartBody(s)
      PROVE  WorkIInv'
  BY <1>2, StartBodyKeeps DEF Lanes
<1>3. ASSUME NEW a \in AttemptIds, BeginWork(a)
      PROVE  WorkIInv'
  BY <1>3, BeginWorkKeeps
<1>4. ASSUME NEW a \in AttemptIds, PassGate(a) \/ PostReturns(a) \/ SchedulingFails(a)
      PROVE  WorkIInv'
  BY <1>4, StageKeeps
<1>5. ASSUME NEW a \in AttemptIds, ClaimRetry(a)
      PROVE  WorkIInv'
  BY <1>5, ClaimRetryKeeps
<1>6. ASSUME NEW a \in AttemptIds, EnqueueRetry(a)
      PROVE  WorkIInv'
  BY <1>6, EnqueueRetryKeeps
<1>7. ASSUME NEW a \in AttemptIds, BodyEnds(a) \/ AbandonedBodyEnds(a)
      PROVE  WorkIInv'
  BY <1>7, BodyIsOverKeeps
<1>8. ASSUME NEW a \in AttemptIds, HardTimeout(a) \/ CloseJob(a)
      PROVE  WorkIInv'
  BY <1>8, QueueAloneKeeps
<1>9. ASSUME NEW a \in AttemptIds, Finalize(a) \/ ReleaseRetry(a)
      PROVE  WorkIInv'
  BY <1>9, FinalizeKeeps
<1> QED
  BY <1>1, <1>2, <1>3, <1>4, <1>5, <1>6, <1>7, <1>8, <1>9, StutterKeeps DEF Next

LEMMA WorkHolds == Spec => []WorkIInv
<1> QED
  BY WorkInit, WorkStep, PTL DEF Spec

-----------------------------------------------------------------------------
(* The theorems *)

\* The parts hold values of their types, and what is left in the coordinator
\* belongs to a handler that still runs its finally block or its catch, or to a
\* retry that was never enqueued: claim, setPhase, complete and release leak no
\* attempt, whatever times out, throws or comes to its end late.
THEOREM NothingOutlivesItsHandler == Spec => []WorkInv
<1>1. WorkIInv => WorkInv
  <2> SUFFICES ASSUME WorkIInv PROVE WorkInv
    OBVIOUS
  <2>1. WorkTypeOK
    BY DEF WorkIInv, QueueFacts, JobFacts, JobTypeOK, WorkTypeOK, CoordinatorInv
  <2>2. NoAttemptLeaks
    <3> SUFFICES ASSUME NEW a \in Live, ~(job[a].kind = "retry" /\ body[a] = "none")
                 PROVE  HandlerOwes(a)
      BY DEF NoAttemptLeaks
    <3>1. a \in AttemptIds /\ a \notin finalized /\ body[a] \in Queue!BodyStates
      BY LiveAreIds DEF WorkIInv, JobFacts, LivesEnd, QueueFacts, Queue!TypeOK
    <3>2. CASE job[a].kind # "retry"
      BY <3>1, <3>2 DEF HandlerOwes
    <3>3. CASE job[a].kind = "retry"
      <4>1. body[a] = "done" => a \in rejected
        BY <3>3 DEF WorkIInv, JobFacts, LivesEnd
      <4> QED
        BY <3>1, <3>3, <4>1 DEF HandlerOwes, Queue!Open, Queue!BodyStates
    <3> QED
      BY <3>2, <3>3
  <2> QED
    BY <2>1, <2>2 DEF WorkInv
<1> QED
  BY <1>1, WorkHolds, PTL

\* A retry runs only when the queue no longer waits for the review that
\* scheduled it, because both go through one lane: while the handler of the
\* review listens, its retry takes no publish right from it.
THEOREM RetriesWait == Spec => []RetryFollowsParent
<1>1. WorkIInv => RetryFollowsParent
  BY DEF WorkIInv, JobFacts
<1> QED
  BY <1>1, WorkHolds, PTL

\* Once finalize has run for a review that the hard timeout gave up, its body
\* passes no gate in front of an output any more, however long it lives on.
THEOREM GivenUpStaysSilent == Spec => AbandonedStaysSilent
<1> DEFINE Silent == \A a \in AttemptIds :
                       (stage[a] = "working" /\ stage'[a] = "cleared") => a \notin finalized
<1>1. WorkIInv /\ [Next]_vars => [Silent]_vars
  <2> SUFFICES ASSUME WorkIInv, Next, NEW a \in AttemptIds,
                      stage[a] = "working", stage'[a] = "cleared"
               PROVE  a \notin finalized
    OBVIOUS
  <2>1. \E b \in AttemptIds : PassGate(b)
    <3> SUFFICES ASSUME \A b \in AttemptIds : ~PassGate(b) PROVE FALSE
      OBVIOUS
    <3>1. \/ stage' = stage
          \/ \E b : stage' = [stage EXCEPT ![b] = "working"]
          \/ \E b : stage' = [stage EXCEPT ![b] = "scheduling"]
      BY DEF Next, ReceiveEvent, StartBody, BeginWork, PostReturns, ClaimRetry, EnqueueRetry,
             SchedulingFails, BodyEnds, AbandonedBodyEnds, HardTimeout, CloseJob, Finalize,
             ReleaseRetry, jobVars
    <3> QED
      BY <3>1 DEF WorkIInv, JobFacts, JobTypeOK
  <2>2. PICK b \in AttemptIds : PassGate(b)
    BY <2>1
  <2>3. a = b
    BY <2>2 DEF PassGate, WorkIInv, JobFacts, JobTypeOK
  <2>4. a \in Live
    BY <2>2, <2>3 DEF PassGate, CanPublish, Active
  <2> QED
    BY <2>4 DEF WorkIInv, JobFacts, LivesEnd
<1> QED
  BY <1>1, WorkHolds, PTL DEF Spec, AbandonedStaysSilent

-----------------------------------------------------------------------------
(* The order of a lane *)

\* Whoever starts while the queue still has a review to start or to wait for,
\* and is newer, came through the other lane of the pull request: in its own
\* lane a review is followed by newer ones, never overtaken.  (A retry may be:
\* it is claimed before the side effects that precede its enqueue.)
AwaitedYieldsToOtherLane ==
  \A a, b \in Live :
    /\ job[a].kind # "retry" /\ body[a] \in {"queued", "running"}
    /\ Active(b) /\ job[b].family = job[a].family /\ a < b
    => Lane(b) # Lane(a)

HasStarted(a) == body[a] \notin {"none", "queued"}

\* A queued job sits in the PQueue of its lane, ...
QueuedIsWaiting ==
  \A a \in AttemptIds : body[a] = "queued" =>
    /\ Lane(a) \in DOMAIN queueScopes
    /\ \E k \in 1..Len(queueScopes[Lane(a)].waiting) :
         queueScopes[Lane(a)].waiting[k] = a

\* ... behind none that is newer, unless it is a retry, ...
OlderAhead(waiting) ==
  \A k \in 1..Len(waiting) : job[waiting[k]].kind # "retry" =>
    \A m \in 1..Len(waiting) : m < k => waiting[m] < waiting[k]

OlderWaitsAhead == \A s \in DOMAIN queueScopes : OlderAhead(queueScopes[s].waiting)

\* ... and none that is newer starts before it has, or beside it.
NewerStartsLater ==
  \A a, b \in AttemptIds :
    job[a].kind # "retry" /\ a < b /\ Lane(a) = Lane(b) /\ HasStarted(b)
      => body[a] \notin {"queued", "running"}

LaneOrder == QueuedIsWaiting /\ OlderWaitsAhead /\ NewerStartsLater

\* Only a body that has started marks its attempt.
OnlyStartedRun == \A a \in Live : Active(a) => HasStarted(a)

\* A step that starts and enqueues nothing leaves the order of the lanes, also
\* when it claims a retry.
LEMMA OrderStays ==
  ASSUME QueueFacts, LaneOrder,
         \A a \in AttemptIds :
           /\ body'[a] = "queued" <=> body[a] = "queued"
           /\ body'[a] = "none" <=> body[a] = "none"
           /\ body'[a] = "running" => body[a] = "running"
           /\ \/ job'[a] = job[a]
              \/ body[a] = "none" /\ job'[a].kind = "retry",
         \A s \in DOMAIN queueScopes' :
           s \in DOMAIN queueScopes /\ queueScopes'[s].waiting = queueScopes[s].waiting,
         \A s \in DOMAIN queueScopes :
           queueScopes[s].waiting # << >> => s \in DOMAIN queueScopes'
  PROVE  LaneOrder'
<1>1. \A a \in AttemptIds : body[a] # "none" => job'[a] = job[a] /\ Lane(a)' = Lane(a)
  BY DEF Lane
<1>2. QueuedIsWaiting'
  <2> SUFFICES ASSUME NEW a \in AttemptIds, body[a] = "queued"
               PROVE  /\ Lane(a)' \in DOMAIN queueScopes'
                      /\ \E k \in 1..Len(queueScopes'[Lane(a)'].waiting) :
                           queueScopes'[Lane(a)'].waiting[k] = a
    BY DEF QueuedIsWaiting
  <2> PICK s : s = Lane(a)
    OBVIOUS
  <2>1. /\ s \in DOMAIN queueScopes
        /\ \E k \in 1..Len(queueScopes[s].waiting) : queueScopes[s].waiting[k] = a
    BY DEF LaneOrder, QueuedIsWaiting
  <2>2. queueScopes[s].waiting # << >>
    BY <2>1
  <2>3. s \in DOMAIN queueScopes' /\ queueScopes'[s].waiting = queueScopes[s].waiting
    BY <2>1, <2>2
  <2> QED
    BY <1>1, <2>1, <2>3
<1>3. OlderWaitsAhead'
  <2> SUFFICES ASSUME NEW s \in DOMAIN queueScopes'
               PROVE  OlderAhead(queueScopes[s].waiting)'
    BY DEF OlderWaitsAhead
  <2> PICK W : W = queueScopes[s].waiting
    OBVIOUS
  <2>1. /\ s \in DOMAIN queueScopes /\ queueScopes'[s].waiting = W
        /\ W \in Seq(AttemptIds) /\ QueuedOnceIn(W, s) /\ OlderAhead(W)
    BY PQueueFacts DEF QueueFacts, WaitingIsQueued, LaneOrder, OlderWaitsAhead
  <2>2. \A k \in 1..Len(W) : job'[W[k]] = job[W[k]]
    BY <1>1, <2>1 DEF QueuedOnceIn
  <2> QED
    BY <2>1, <2>2 DEF OlderAhead
<1>4. NewerStartsLater'
  <2> SUFFICES ASSUME NEW a \in AttemptIds, NEW b \in AttemptIds,
                      job'[a].kind # "retry", a < b, Lane(a)' = Lane(b)', HasStarted(b)',
                      body'[a] \in {"queued", "running"}
               PROVE  FALSE
    BY DEF NewerStartsLater
  <2>1. body[a] \in {"queued", "running"} /\ HasStarted(b)
    BY DEF HasStarted
  <2>2. job[a].kind # "retry" /\ Lane(a) = Lane(b)
    BY <1>1, <2>1 DEF HasStarted
  <2> QED
    BY <2>1, <2>2 DEF LaneOrder, NewerStartsLater
<1> QED
  BY <1>2, <1>3, <1>4 DEF LaneOrder

\* A new job keeps the order at the end of its lane, if it is a retry or newer
\* than all that have come to a queue.
LEMMA EnqueueOrders ==
  ASSUME QueueFacts, LaneOrder, NEW j \in AttemptIds, NEW s \in Lanes, Queue!Enqueue(j, s),
         Lane(j)' = s,
         \A a \in AttemptIds \ {j} : job'[a] = job[a],
         job'[j].kind # "retry" => \A a \in AttemptIds : body[a] # "none" => a < j
  PROVE  LaneOrder'
<1> PICK W : W = Queue!QueueOf(s).waiting
  OBVIOUS
<1> PICK V : V = Append(W, j)
  OBVIOUS
<1>1. /\ body[j] = "none" /\ body'[j] = "queued"
      /\ \A a \in AttemptIds \ {j} : body'[a] = body[a]
      /\ DOMAIN queueScopes' = DOMAIN queueScopes \cup {s}
      /\ queueScopes'[s] = [Queue!QueueOf(s) EXCEPT !.waiting = Append(@, j)]
      /\ \A t \in DOMAIN queueScopes \ {s} : queueScopes'[t] = queueScopes[t]
  BY DEF Queue!Enqueue, QueueFacts, Queue!TypeOK
<1>2. /\ W \in Seq(AttemptIds) /\ QueuedOnceIn(W, s) /\ OlderAhead(W)
      /\ s \in DOMAIN queueScopes => W = queueScopes[s].waiting
      /\ queueScopes'[s].waiting = V
  <2>1. CASE s \in DOMAIN queueScopes
    <3>1. Queue!QueueOf(s) = queueScopes[s]
      BY <2>1 DEF Queue!QueueOf
    <3>2. queueScopes[s] = [waiting |-> W, pending |-> queueScopes[s].pending]
      BY <2>1, <3>1, PQueueFacts DEF QueueFacts
    <3> QED
      BY <1>1, <2>1, <3>1, <3>2, PQueueFacts
         DEF QueueFacts, WaitingIsQueued, LaneOrder, OlderWaitsAhead
  <2>2. CASE s \notin DOMAIN queueScopes
    BY <1>1, <2>2 DEF Queue!QueueOf, Queue!IdlePQueue, QueuedOnceIn, OlderAhead
  <2> QED
    BY <2>1, <2>2
<1>3. PICK n \in Nat :
        /\ n = Len(W) /\ Len(V) = n + 1 /\ V[n + 1] = j
        /\ \A k \in 1..n : V[k] = W[k] /\ W[k] \in AttemptIds \ {j} /\ body[W[k]] = "queued"
  BY <1>1, <1>2 DEF QueuedOnceIn
<1>4. \A a \in AttemptIds \ {j} : Lane(a)' = Lane(a)
  BY DEF Lane
<1>5. QueuedIsWaiting'
  <2> SUFFICES ASSUME NEW a \in AttemptIds, body'[a] = "queued"
               PROVE  /\ Lane(a)' \in DOMAIN queueScopes'
                      /\ \E k \in 1..Len(queueScopes'[Lane(a)'].waiting) :
                           queueScopes'[Lane(a)'].waiting[k] = a
    BY DEF QueuedIsWaiting
  <2>1. CASE a = j
    <3>1. n + 1 \in 1..Len(queueScopes'[s].waiting) /\ queueScopes'[s].waiting[n + 1] = j
      BY <1>2, <1>3
    <3>2. Lane(a)' = s /\ s \in DOMAIN queueScopes'
      BY <1>1, <2>1
    <3> QED
      BY <2>1, <3>1, <3>2
  <2>2. CASE a # j
    <3> PICK t : t = Lane(a)
      OBVIOUS
    <3>1. /\ Lane(a)' = t /\ t \in DOMAIN queueScopes
          /\ \E k \in 1..Len(queueScopes[t].waiting) : queueScopes[t].waiting[k] = a
      BY <1>1, <1>4, <2>2 DEF LaneOrder, QueuedIsWaiting
    <3>2. CASE t = s
      <4>1. PICK k \in 1..n : W[k] = a
        BY <1>2, <1>3, <3>1, <3>2
      <4>2. k \in 1..Len(queueScopes'[s].waiting) /\ queueScopes'[s].waiting[k] = a
        BY <1>2, <1>3, <4>1
      <4> QED
        BY <1>1, <3>1, <3>2, <4>2
    <3>3. CASE t # s
      BY <1>1, <3>1, <3>3
    <3> QED
      BY <3>2, <3>3
  <2> QED
    BY <2>1, <2>2
<1>6. OlderWaitsAhead'
  <2>1. ASSUME NEW t \in DOMAIN queueScopes, t # s
        PROVE  OlderAhead(queueScopes[t].waiting)'
    <3> PICK U : U = queueScopes[t].waiting
      OBVIOUS
    <3>1. /\ queueScopes'[t].waiting = U
          /\ U \in Seq(AttemptIds) /\ QueuedOnceIn(U, t) /\ OlderAhead(U)
      BY <1>1, <2>1, PQueueFacts DEF QueueFacts, WaitingIsQueued, LaneOrder, OlderWaitsAhead
    <3>2. \A k \in 1..Len(U) : job'[U[k]] = job[U[k]]
      BY <1>1, <3>1 DEF QueuedOnceIn
    <3> QED
      BY <3>1, <3>2 DEF OlderAhead
  <2>2. OlderAhead(queueScopes[s].waiting)'
    <3>0. queueScopes'[s].waiting = V /\ Len(V) = n + 1
      BY <1>2, <1>3
    <3> SUFFICES ASSUME NEW k \in 1..(n + 1), job'[V[k]].kind # "retry",
                        NEW m \in 1..(n + 1), m < k
                 PROVE  V[m] < V[k]
      BY <3>0 DEF OlderAhead
    <3>1. m \in 1..n /\ V[m] = W[m] /\ W[m] \in AttemptIds /\ body[W[m]] = "queued"
      BY <1>3
    <3>2. CASE k = n + 1
      BY <1>3, <3>1, <3>2
    <3>3. CASE k \in 1..n
      <4>1. V[k] = W[k] /\ job'[W[k]] = job[W[k]]
        BY <1>3, <3>3
      <4>2. job[W[k]].kind # "retry"
        BY <4>1
      <4>3. k \in 1..Len(W) /\ m \in 1..Len(W)
        BY <1>3, <3>1, <3>3
      <4>4. W[m] < W[k]
        BY <1>2, <4>2, <4>3 DEF OlderAhead
      <4> QED
        BY <3>1, <4>1, <4>4
    <3> QED
      BY <1>3, <3>2, <3>3
  <2> QED
    BY <1>1, <2>1, <2>2 DEF OlderWaitsAhead
<1>7. NewerStartsLater'
  <2> SUFFICES ASSUME NEW a \in AttemptIds, NEW b \in AttemptIds,
                      job'[a].kind # "retry", a < b, Lane(a)' = Lane(b)', HasStarted(b)'
               PROVE  body'[a] \notin {"queued", "running"}
    BY DEF NewerStartsLater
  <2>1. b # j /\ HasStarted(b)
    BY <1>1 DEF HasStarted
  <2>2. a # j
    BY <2>1 DEF HasStarted, AttemptIds
  <2> QED
    BY <1>1, <1>4, <2>1, <2>2 DEF LaneOrder, NewerStartsLater
<1> QED
  BY <1>5, <1>6, <1>7 DEF LaneOrder

\* The job that starts is older than the reviews that wait behind it, and no
\* body runs beside it.
LEMMA StartOrders ==
  ASSUME QueueFacts, LaneOrder, NEW s, Queue!Start(s), UNCHANGED job
  PROVE  LaneOrder'
<1> PICK W : W = queueScopes[s].waiting
  OBVIOUS
<1> PICK V : V = Tail(W)
  OBVIOUS
<1> PICK j : j = Head(W)
  OBVIOUS
<1>1. /\ s \in DOMAIN queueScopes /\ queueScopes[s].pending = {} /\ W # << >>
      /\ queueScopes' = [queueScopes EXCEPT ![s].waiting = Tail(@), ![s].pending = {j}]
      /\ j \in AttemptIds /\ body[j] = "queued" /\ Lane(j) = s /\ body'[j] = "running"
      /\ \A a \in AttemptIds \ {j} : body'[a] = body[a]
  BY StartKeepsLanes DEF Queue!Start
<1>2. /\ W \in Seq(AttemptIds) /\ QueuedOnceIn(W, s) /\ OlderAhead(W)
      /\ queueScopes[s] = [waiting |-> W, pending |-> {}]
  BY <1>1, PQueueFacts DEF QueueFacts, WaitingIsQueued, LaneOrder, OlderWaitsAhead
<1>3. /\ DOMAIN queueScopes' = DOMAIN queueScopes /\ queueScopes'[s].waiting = V
      /\ \A t \in DOMAIN queueScopes \ {s} : queueScopes'[t] = queueScopes[t]
  BY <1>1, <1>2
<1>4. PICK n \in Nat :
        /\ n = Len(V) /\ Len(W) = n + 1 /\ W[1] = j
        /\ \A k \in 1..n : V[k] = W[k + 1]
        /\ \A k \in 1..(n + 1) : W[k] \in AttemptIds
  BY <1>1, <1>2
<1>5. \A a : Lane(a)' = Lane(a)
  BY DEF Lane
<1>6. QueuedIsWaiting'
  <2> SUFFICES ASSUME NEW a \in AttemptIds, body'[a] = "queued"
               PROVE  /\ Lane(a) \in DOMAIN queueScopes'
                      /\ \E k \in 1..Len(queueScopes'[Lane(a)].waiting) :
                           queueScopes'[Lane(a)].waiting[k] = a
    BY <1>5 DEF QueuedIsWaiting
  <2> PICK t : t = Lane(a)
    OBVIOUS
  <2>1. /\ a # j /\ t \in DOMAIN queueScopes
        /\ \E k \in 1..Len(queueScopes[t].waiting) : queueScopes[t].waiting[k] = a
    BY <1>1 DEF LaneOrder, QueuedIsWaiting
  <2>2. CASE t = s
    <3>1. PICK k \in 1..(n + 1) : W[k] = a
      BY <1>4, <2>1, <2>2
    <3>2. k - 1 \in 1..n /\ V[k - 1] = a
      BY <1>4, <2>1, <3>1
    <3> QED
      BY <1>3, <1>4, <2>1, <2>2, <3>2
  <2>3. CASE t # s
    BY <1>3, <2>1, <2>3
  <2> QED
    BY <2>2, <2>3
<1>7. OlderWaitsAhead'
  <2>1. ASSUME NEW t \in DOMAIN queueScopes, t # s
        PROVE  OlderAhead(queueScopes[t].waiting)'
    BY <1>3, <2>1 DEF LaneOrder, OlderWaitsAhead, OlderAhead
  <2>2. OlderAhead(queueScopes[s].waiting)'
    <3> SUFFICES ASSUME NEW k \in 1..n, job[V[k]].kind # "retry", NEW m \in 1..n, m < k
                 PROVE  V[m] < V[k]
      BY <1>3, <1>4 DEF OlderAhead
    <3>1. /\ V[k] = W[k + 1] /\ V[m] = W[m + 1]
          /\ k + 1 \in 1..Len(W) /\ m + 1 \in 1..Len(W) /\ m + 1 < k + 1
      BY <1>4
    <3> QED
      BY <1>2, <3>1 DEF OlderAhead
  <2> QED
    BY <1>3, <2>1, <2>2 DEF OlderWaitsAhead
<1>8. NewerStartsLater'
  <2> SUFFICES ASSUME NEW a \in AttemptIds, NEW b \in AttemptIds,
                      job[a].kind # "retry", a < b, Lane(a) = Lane(b), HasStarted(b)'
               PROVE  body'[a] \notin {"queued", "running"}
    BY <1>5 DEF NewerStartsLater
  <2>1. CASE b # j
    <3>1. body[a] \notin {"queued", "running"}
      BY <1>1, <2>1 DEF HasStarted, LaneOrder, NewerStartsLater
    <3> QED
      BY <1>1, <3>1
  <2>2. CASE b = j
    <3>1. a # j /\ Lane(a) = s /\ body'[a] = body[a]
      BY <1>1, <2>2 DEF AttemptIds
    <3>2. body[a] # "running"
      BY <1>1, <3>1 DEF QueueFacts, RunningHoldsSlot
    <3>3. ASSUME body[a] = "queued" PROVE FALSE
      <4>1. PICK k \in 1..(n + 1) : W[k] = a
        BY <1>4, <3>1, <3>3 DEF LaneOrder, QueuedIsWaiting
      <4>2. 1 < k
        BY <1>4, <3>1, <4>1
      <4>3. W[1] < W[k]
        BY <1>2, <1>4, <4>1, <4>2 DEF OlderAhead
      <4> QED
        BY <1>4, <2>2, <4>1, <4>3 DEF AttemptIds
    <3> QED
      BY <3>1, <3>2, <3>3
  <2> QED
    BY <2>1, <2>2
<1> QED
  BY <1>6, <1>7, <1>8 DEF LaneOrder

\* What the queue does beside that moves no job that waits.
LEMMA WaitingStays ==
  ASSUME QueueFacts, NEW j \in AttemptIds,
         \/ Queue!BodySettles(j) \/ Queue!HardTimeout(j)
         \/ Queue!Close(j) \/ Queue!AbandonedBodyEnds(j)
  PROVE  /\ \A a \in AttemptIds :
              /\ body'[a] = "queued" <=> body[a] = "queued"
              /\ body'[a] = "none" <=> body[a] = "none"
              /\ body'[a] = "running" => body[a] = "running"
         /\ \A s \in DOMAIN queueScopes' :
              s \in DOMAIN queueScopes /\ queueScopes'[s].waiting = queueScopes[s].waiting
         /\ \A s \in DOMAIN queueScopes :
              queueScopes[s].waiting # << >> => s \in DOMAIN queueScopes'
<1>1. /\ body[j] \notin {"none", "queued"}
      /\ body'[j] \notin {"none", "queued", "running"}
      /\ \A a \in AttemptIds \ {j} : body'[a] = body[a]
  <2>1. \E x \in {"settled", "abandoned", "done", "abandoned-closed"} :
          body[j] \notin {"none", "queued"} /\ body' = [body EXCEPT ![j] = x]
    BY DEF Queue!BodySettles, Queue!HardTimeout, Queue!Close, Queue!AbandonedBodyEnds
  <2> QED
    BY <2>1 DEF QueueFacts, Queue!TypeOK
<1>2. CASE Queue!FreeSlot(j)
  <2>1. /\ DOMAIN queueScopes' = DOMAIN queueScopes
        /\ \A s \in DOMAIN queueScopes :
             queueScopes'[s] = [queueScopes[s] EXCEPT !.pending = @ \ {j}]
    BY <1>2 DEF Queue!FreeSlot
  <2>2. \A s \in DOMAIN queueScopes : queueScopes'[s].waiting = queueScopes[s].waiting
    <3> TAKE s \in DOMAIN queueScopes
    <3>1. queueScopes[s] = [waiting |-> queueScopes[s].waiting,
                            pending |-> queueScopes[s].pending]
      BY PQueueFacts DEF QueueFacts
    <3> QED
      BY <2>1, <3>1
  <2> QED
    BY <1>1, <2>1, <2>2
<1>3. CASE Queue!Close(j)
  <2> PICK t : t = activeJobs[j].scope
    OBVIOUS
  <2>1. queueScopes' = Queue!Pruned(t)
    BY <1>3 DEF Queue!Close
  <2>2. CASE t \in DOMAIN queueScopes /\ queueScopes[t] = Queue!IdlePQueue
    <3>1. queueScopes' = [s \in DOMAIN queueScopes \ {t} |-> queueScopes[s]]
      BY <2>1, <2>2 DEF Queue!Pruned, Queue!ScopesWithout
    <3>2. queueScopes[t].waiting = << >>
      BY <2>2 DEF Queue!IdlePQueue
    <3> QED
      BY <1>1, <3>1, <3>2
  <2>3. CASE ~(t \in DOMAIN queueScopes /\ queueScopes[t] = Queue!IdlePQueue)
    <3>1. queueScopes' = queueScopes
      BY <2>1, <2>3 DEF Queue!Pruned
    <3> QED
      BY <1>1, <3>1
  <2> QED
    BY <2>2, <2>3
<1>4. CASE queueScopes' = queueScopes
  BY <1>1, <1>4
<1> QED
  BY <1>2, <1>3, <1>4 DEF Queue!BodySettles, Queue!HardTimeout, Queue!AbandonedBodyEnds

LEMMA StepKeepsOrder ==
  ASSUME WorkIInv, LaneOrder, [Next]_vars
  PROVE  LaneOrder'
<1>0. QueueFacts
  BY DEF WorkIInv
<1>1. ASSUME NEW kind \in {"automatic", "explicit"}, NEW f \in Families,
             ReceiveEvent(kind, f)
      PROVE  LaneOrder'
  <2> PICK n : n = nextAttemptId
    OBVIOUS
  <2> PICK r : r = [kind |-> kind, family |-> f, parent |-> NoAttempt]
    OBVIOUS
  <2>1. /\ n \in AttemptIds /\ Queue!Enqueue(n, ScopeOf(kind, f))
        /\ job' = [job EXCEPT ![n] = r]
    BY <1>1 DEF ReceiveEvent, Claim, NewJob
  <2>2. /\ job'[n] = r /\ r.kind = kind /\ r.family = f
        /\ \A a \in AttemptIds \ {n} : job'[a] = job[a]
    BY <2>1 DEF WorkIInv, JobFacts, JobTypeOK
  <2>3. Lane(n)' = ScopeOf(kind, f) /\ ScopeOf(kind, f) \in Lanes
    BY <2>2 DEF Lane, ScopeOf, LaneOf, Lanes
  <2>4. \A a \in AttemptIds : body[a] # "none" => a < n
    BY <2>1 DEF WorkIInv, JobFacts, JobsAreClaimed, AttemptIds
  <2> QED
    BY <1>0, <2>1, <2>2, <2>3, <2>4, EnqueueOrders
<1>2. ASSUME NEW s \in Lanes, StartBody(s)
      PROVE  LaneOrder'
  BY <1>0, <1>2, StartOrders DEF StartBody
<1>3. ASSUME NEW a \in AttemptIds, EnqueueRetry(a)
      PROVE  LaneOrder'
  <2>1. /\ job[a].kind = "retry" /\ job' = job
        /\ Queue!Enqueue(a, Lane(a)) /\ Lane(a) \in Lanes
    BY <1>3, LaneFacts DEF EnqueueRetry, WorkIInv
  <2>2. Lane(a)' = Lane(a)
    BY <2>1 DEF Lane
  <2> QED
    BY <1>0, <2>1, <2>2, EnqueueOrders
<1>4. ASSUME NEW p \in AttemptIds, ClaimRetry(p)
      PROVE  LaneOrder'
  <2> PICK n : n = nextAttemptId
    OBVIOUS
  <2> PICK r : r = [kind |-> "retry", family |-> job[p].family, parent |-> p]
    OBVIOUS
  <2>1. /\ n \in AttemptIds /\ UNCHANGED <<queueScopes, body>>
        /\ job' = [job EXCEPT ![n] = r] /\ r.kind = "retry"
    BY <1>4 DEF ClaimRetry, Claim, NewJob, queueVars
  <2>2. body[n] = "none"
    BY <2>1 DEF WorkIInv, JobFacts, JobsAreClaimed, AttemptIds
  <2>3. \A a \in AttemptIds :
          job'[a] = job[a] \/ (body[a] = "none" /\ job'[a].kind = "retry")
    BY <2>1, <2>2 DEF WorkIInv, JobFacts, JobTypeOK
  <2> QED
    BY <1>0, <2>1, <2>3, OrderStays
<1>5. ASSUME NEW a \in AttemptIds,
             BodyEnds(a) \/ AbandonedBodyEnds(a) \/ HardTimeout(a) \/ CloseJob(a)
      PROVE  LaneOrder'
  <2>1. /\ \/ Queue!BodySettles(a) \/ Queue!HardTimeout(a)
           \/ Queue!Close(a) \/ Queue!AbandonedBodyEnds(a)
        /\ job' = job
    BY <1>5 DEF BodyEnds, AbandonedBodyEnds, HardTimeout, CloseJob, jobVars
  <2> QED
    BY <1>0, <2>1, WaitingStays, OrderStays
<1>6. ASSUME NEW a \in AttemptIds,
             \/ BeginWork(a) \/ PassGate(a) \/ PostReturns(a) \/ SchedulingFails(a)
             \/ Finalize(a) \/ ReleaseRetry(a)
      PROVE  UNCHANGED <<queueScopes, body, job>>
  BY <1>6 DEF BeginWork, PassGate, PostReturns, SchedulingFails, Finalize, ReleaseRetry,
              queueVars
<1>7. CASE UNCHANGED <<queueScopes, body, job>>
  BY <1>0, <1>7, OrderStays
<1>8. CASE UNCHANGED vars
  BY <1>7, <1>8 DEF vars, queueVars, jobVars
<1> QED
  BY <1>1, <1>2, <1>3, <1>4, <1>5, <1>6, <1>7, <1>8 DEF Next, Lanes

\* A body that has started has started for good.
LEMMA StartedForGood ==
  ASSUME WorkIInv, [Next]_vars, NEW a \in AttemptIds, HasStarted(a)
  PROVE  HasStarted(a)'
<1>0. QueueFacts
  BY DEF WorkIInv
<1>1. ASSUME NEW j \in AttemptIds, NEW s, Queue!Enqueue(j, s)
      PROVE  HasStarted(a)'
  <2>1. body[j] = "none" /\ \A b \in AttemptIds \ {j} : body'[b] = body[b]
    BY <1>0, <1>1 DEF Queue!Enqueue, QueueFacts, Queue!TypeOK
  <2> QED
    BY <2>1 DEF HasStarted
<1>2. ASSUME NEW kind, NEW f, ReceiveEvent(kind, f)
      PROVE  HasStarted(a)'
  BY <1>1, <1>2 DEF ReceiveEvent, Claim
<1>3. ASSUME NEW j \in AttemptIds, EnqueueRetry(j)
      PROVE  HasStarted(a)'
  BY <1>1, <1>3 DEF EnqueueRetry
<1>4. ASSUME NEW s, StartBody(s)
      PROVE  HasStarted(a)'
  <2> PICK j : j = Head(queueScopes[s].waiting)
    OBVIOUS
  <2>1. body[j] = "queued" /\ \A b \in AttemptIds \ {j} : body'[b] = body[b]
    BY <1>0, <1>4, StartKeepsLanes DEF StartBody
  <2> QED
    BY <2>1 DEF HasStarted
<1>5. ASSUME NEW j \in AttemptIds,
             BodyEnds(j) \/ AbandonedBodyEnds(j) \/ HardTimeout(j) \/ CloseJob(j)
      PROVE  HasStarted(a)'
  <2>1. \/ Queue!BodySettles(j) \/ Queue!HardTimeout(j)
        \/ Queue!Close(j) \/ Queue!AbandonedBodyEnds(j)
    BY <1>5 DEF BodyEnds, AbandonedBodyEnds, HardTimeout, CloseJob
  <2> QED
    BY <1>0, <2>1, WaitingStays DEF HasStarted
<1>6. ASSUME NEW j \in AttemptIds,
             \/ BeginWork(j) \/ PassGate(j) \/ PostReturns(j) \/ ClaimRetry(j)
             \/ SchedulingFails(j) \/ Finalize(j) \/ ReleaseRetry(j)
      PROVE  UNCHANGED body
  BY <1>6 DEF BeginWork, PassGate, PostReturns, ClaimRetry, SchedulingFails, Finalize,
              ReleaseRetry, queueVars
<1>7. UNCHANGED vars \/ UNCHANGED body => HasStarted(a)'
  BY DEF vars, queueVars, HasStarted
<1> QED
  BY <1>2, <1>3, <1>4, <1>5, <1>6, <1>7 DEF Next

\* An attempt is marked by its own body and by nobody else.
LEMMA StepMarksStarted ==
  ASSUME WorkIInv, OnlyStartedRun, [Next]_vars
  PROVE  OnlyStartedRun'
<1> DEFINE Old(b) == b \in Live /\ Active(b)
<1>0. CoordinatorInv
  BY DEF WorkIInv
<1>1. ASSUME NEW f \in Families, Claim(nextAttemptId, f, "claimed"),
             NEW b \in Live', Active(b)'
      PROVE  Old(b)
  BY <1>0, <1>1, ClaimLives
<1>2. ASSUME NEW kind \in {"automatic", "explicit"}, NEW f \in Families,
             ReceiveEvent(kind, f), NEW b \in Live', Active(b)'
      PROVE  Old(b)
  BY <1>1, <1>2 DEF ReceiveEvent
<1>3. ASSUME NEW p \in AttemptIds, ClaimRetry(p), NEW b \in Live', Active(b)'
      PROVE  Old(b)
  <2>1. job[p].family \in Families
    BY <1>3 DEF ClaimRetry, WorkIInv, JobFacts, JobTypeOK, NoJob
  <2> QED
    BY <1>1, <1>3, <2>1 DEF ClaimRetry
<1>4. ASSUME UNCHANGED coordinatorVars, NEW b \in Live', Active(b)'
      PROVE  Old(b)
  BY <1>4 DEF coordinatorVars, Live, Active
<1>5. ASSUME NEW a, SetPhase(a), NEW b \in Live', Active(b)'
      PROVE  Old(b) \/ b = a
  BY <1>0, <1>5, SetPhaseLives
<1>6. ASSUME NEW s, StartBody(s), NEW b \in Live', Active(b)'
      PROVE  Old(b) \/ HasStarted(b)'
  <2> PICK a : a = Head(queueScopes[s].waiting)
    OBVIOUS
  <2>1. body'[a] = "running"
    BY <1>6, StartKeepsLanes DEF StartBody, WorkIInv
  <2>2. SetPhase(a) \/ UNCHANGED coordinatorVars
    BY <1>6 DEF StartBody
  <2>3. Old(b) \/ b = a
    BY <1>4, <1>5, <1>6, <2>2
  <2> QED
    BY <2>1, <2>3 DEF HasStarted
<1>7. ASSUME NEW a \in AttemptIds, BeginWork(a), NEW b \in Live', Active(b)'
      PROVE  Old(b) \/ HasStarted(b)'
  <2>1. HasStarted(a)'
    BY <1>7 DEF BeginWork, Executing, Queue!Executing, queueVars, HasStarted
  <2>2. Old(b) \/ b = a
    BY <1>5, <1>7 DEF BeginWork
  <2> QED
    BY <2>1, <2>2
<1>8. ASSUME NEW a \in AttemptIds,
             BodyEnds(a) \/ AbandonedBodyEnds(a) \/ Finalize(a) \/ ReleaseRetry(a),
             NEW b \in Live', Active(b)'
      PROVE  Old(b)
  <2>1. Release(a) \/ Complete(a) \/ UNCHANGED coordinatorVars
    BY <1>8 DEF BodyEnds, AbandonedBodyEnds, RetryCleansUp, Finalize, ReleaseRetry
  <2>2. CASE Release(a) \/ Complete(a)
    BY <1>0, <1>8, <2>2, RemovalLives
  <2> QED
    BY <1>4, <1>8, <2>1, <2>2
<1>9. ASSUME NEW a \in AttemptIds,
             \/ PassGate(a) \/ PostReturns(a) \/ EnqueueRetry(a) \/ SchedulingFails(a)
             \/ HardTimeout(a) \/ CloseJob(a)
      PROVE  UNCHANGED coordinatorVars
  BY <1>9 DEF PassGate, PostReturns, EnqueueRetry, SchedulingFails, HardTimeout, CloseJob
<1>10. UNCHANGED vars => UNCHANGED coordinatorVars
  BY DEF vars
<1> HIDE DEF Old
<1>11. ASSUME NEW b \in Live', Active(b)'
       PROVE  Old(b) \/ HasStarted(b)'
  <2>1. CASE UNCHANGED coordinatorVars
    BY <1>4, <1>11, <2>1
  <2>2. CASE Next /\ ~UNCHANGED coordinatorVars
    BY <1>2, <1>3, <1>6, <1>7, <1>8, <1>9, <1>11, <2>2 DEF Next
  <2> QED
    BY <1>10, <2>1, <2>2
<1>12. ASSUME NEW b, Old(b)
       PROVE  HasStarted(b)'
  <2>1. b \in AttemptIds /\ HasStarted(b)
    BY <1>0, <1>12, LiveAreIds DEF Old, OnlyStartedRun
  <2> QED
    BY <2>1, StartedForGood
<1> QED
  BY <1>11, <1>12 DEF OnlyStartedRun

\* While the queue has a review to start or waits for its body, a newer one
\* runs only if it came through the other lane of the pull request: automatic
\* and explicit reviews may overtake each other, but never their own kind, nor
\* does a retry overtake an automatic review that it is newer than, however often
\* the PQueue of the lane is thrown away and whatever is given up.
THEOREM LanesKeepTheOrder == Spec => []AwaitedYieldsToOtherLane
<1> DEFINE Inv == WorkIInv /\ LaneOrder /\ OnlyStartedRun
<1>1. Init => Inv
  <2> SUFFICES ASSUME Init PROVE LaneOrder /\ OnlyStartedRun
    BY WorkInit
  <2>1. /\ DOMAIN queueScopes = {} /\ Live = {}
        /\ \A a \in AttemptIds : body[a] = "none"
    BY DEF Init, Queue!QueueInit, CoordinatorInit, Live
  <2> QED
    BY <2>1 DEF LaneOrder, QueuedIsWaiting, OlderWaitsAhead, NewerStartsLater, HasStarted,
                OnlyStartedRun
<1>2. Inv /\ [Next]_vars => Inv'
  BY WorkStep, StepKeepsOrder, StepMarksStarted
<1>3. Inv => AwaitedYieldsToOtherLane
  <2> SUFFICES ASSUME Inv, NEW a \in Live, NEW b \in Live,
                      job[a].kind # "retry", body[a] \in {"queued", "running"},
                      Active(b), a < b, Lane(b) = Lane(a)
               PROVE  FALSE
    BY DEF AwaitedYieldsToOtherLane
  <2>1. a \in AttemptIds /\ b \in AttemptIds /\ HasStarted(b)
    BY LiveAreIds DEF WorkIInv, OnlyStartedRun
  <2> QED
    BY <2>1 DEF LaneOrder, NewerStartsLater
<1> QED
  BY <1>1, <1>2, <1>3, PTL DEF Spec

-----------------------------------------------------------------------------
(* The handlers stay within what queue and coordinator promise *)

\* Whatever a handler does is one call of the coordinator at most, with the id
\* of an attempt.
LEMMA HandlersCall ==
  ASSUME WorkIInv, [Next]_vars
  PROVE  [CoordinatorNext]_coordinatorVars
<1>1. ASSUME NEW f \in Families, Claim(nextAttemptId, f, "claimed")
      PROVE  CoordinatorNext
  BY <1>1 DEF CoordinatorNext, ClaimAny
<1>2. ASSUME NEW kind \in {"automatic", "explicit"}, NEW f \in Families,
             ReceiveEvent(kind, f)
      PROVE  CoordinatorNext
  BY <1>1, <1>2 DEF ReceiveEvent
<1>3. ASSUME NEW s \in Lanes, StartBody(s)
      PROVE  CoordinatorNext \/ UNCHANGED coordinatorVars
  <2>1. Head(queueScopes[s].waiting) \in AttemptIds
    BY <1>3, StartKeepsLanes DEF StartBody, WorkIInv
  <2> QED
    BY <1>3, <2>1 DEF StartBody, CoordinatorNext
<1>4. ASSUME NEW p \in AttemptIds, ClaimRetry(p)
      PROVE  CoordinatorNext
  <2>1. job[p].family \in Families
    BY <1>4 DEF ClaimRetry, WorkIInv, JobFacts, JobTypeOK, NoJob
  <2> QED
    BY <1>1, <1>4, <2>1 DEF ClaimRetry
<1>5. ASSUME NEW a \in AttemptIds,
             BodyEnds(a) \/ AbandonedBodyEnds(a) \/ Finalize(a) \/ ReleaseRetry(a)
      PROVE  CoordinatorNext \/ UNCHANGED coordinatorVars
  BY <1>5 DEF BodyEnds, AbandonedBodyEnds, RetryCleansUp, Finalize, ReleaseRetry,
              CoordinatorNext
<1>6. ASSUME NEW a \in AttemptIds, BeginWork(a)
      PROVE  CoordinatorNext
  BY <1>6 DEF BeginWork, CoordinatorNext
<1>7. ASSUME NEW a \in AttemptIds,
             \/ PassGate(a) \/ PostReturns(a) \/ EnqueueRetry(a) \/ SchedulingFails(a)
             \/ HardTimeout(a) \/ CloseJob(a)
      PROVE  UNCHANGED coordinatorVars
  BY <1>7 DEF PassGate, PostReturns, EnqueueRetry, SchedulingFails, HardTimeout, CloseJob
<1>8. CASE UNCHANGED vars
  BY <1>8 DEF vars
<1> QED
  BY <1>2, <1>3, <1>4, <1>5, <1>6, <1>7, <1>8 DEF Next, Lanes

\* It is one step of the queue at most, of a job and a lane the queue knows.
LEMMA HandlersQueue ==
  ASSUME WorkIInv, [Next]_vars
  PROVE  [Queue!QueueNext]_(Queue!queueVars)
<1>1. ASSUME NEW kind \in {"automatic", "explicit"}, NEW f \in Families,
             ReceiveEvent(kind, f)
      PROVE  Queue!QueueNext
  <2>1. nextAttemptId \in AttemptIds
    BY <1>1 DEF ReceiveEvent, Claim
  <2>2. ScopeOf(kind, f) \in Lanes
    BY DEF ScopeOf, LaneOf, Lanes
  <2> QED
    BY <1>1, <2>1, <2>2 DEF ReceiveEvent, Queue!QueueNext, Lanes
<1>2. ASSUME NEW s \in Lanes, StartBody(s)
      PROVE  Queue!QueueNext
  BY <1>2 DEF StartBody, Queue!QueueNext, Lanes
<1>3. ASSUME NEW a \in AttemptIds, EnqueueRetry(a)
      PROVE  Queue!QueueNext
  <2>1. ScopeOf("retry", job[a].family) \in Lanes
    BY <1>3, LaneFacts DEF EnqueueRetry, WorkIInv
  <2> QED
    BY <1>3, <2>1 DEF EnqueueRetry, Queue!QueueNext, Lanes
<1>4. ASSUME NEW a \in AttemptIds,
             BodyEnds(a) \/ AbandonedBodyEnds(a) \/ HardTimeout(a) \/ CloseJob(a)
      PROVE  Queue!QueueNext
  BY <1>4 DEF BodyEnds, AbandonedBodyEnds, HardTimeout, CloseJob, Queue!QueueNext
<1>5. ASSUME NEW a \in AttemptIds,
             \/ BeginWork(a) \/ PassGate(a) \/ PostReturns(a) \/ ClaimRetry(a)
             \/ SchedulingFails(a) \/ Finalize(a) \/ ReleaseRetry(a)
      PROVE  UNCHANGED queueVars
  BY <1>5 DEF BeginWork, PassGate, PostReturns, ClaimRetry, SchedulingFails, Finalize,
              ReleaseRetry
<1>6. UNCHANGED vars \/ UNCHANGED queueVars => UNCHANGED Queue!queueVars
  BY DEF vars, queueVars, Queue!queueVars
<1> QED
  BY <1>1, <1>2, <1>3, <1>4, <1>5, <1>6 DEF Next, Lanes

\* Seen from the coordinator, the handlers are one of the callers it is made
\* for: retries, time-outs and late clean-ups included, they call it with ids
\* it has handed out and in steps it knows.
THEOREM HandlersUseTheCoordinator == Spec => CoordinatorSpec
<1>1. Init => CoordinatorInit
  BY DEF Init
<1>2. WorkIInv /\ [Next]_vars => [CoordinatorNext]_coordinatorVars
  BY HandlersCall
<1> QED
  BY <1>1, <1>2, WorkHolds, PTL DEF Spec, CoordinatorSpec

\* What the coordinator promises therefore holds among the handlers: the rights
\* to publish go as PublishRights says, through every lane, retry and time-out.
THEOREM RightsAmongHandlers == Spec => ImplementsPublishRights
<1> QED
  BY HandlersUseTheCoordinator, CoordinatorImplementsRights, PTL

\* Of the handlers of one pull request at most one may publish, be its body
\* waited for or given up.
THEOREM OnePublisherAmongHandlers == Spec => []AtMostOnePublisher
<1> QED
  BY HandlersUseTheCoordinator, PublisherIsUnique, PTL

\* Seen from the queue, handlers, retries and catches are callers of enqueue
\* and bodies: they never enqueue an attempt twice or touch a lane by hand.
THEOREM HandlersUseTheQueue == Spec => Queue!QueueSpec
<1>1. Init => Queue!QueueInit
  BY DEF Init
<1>2. WorkIInv /\ [Next]_vars => [Queue!QueueNext]_(Queue!queueVars)
  BY HandlersQueue
<1> QED
  BY <1>1, <1>2, WorkHolds, PTL DEF Spec, Queue!QueueSpec
=============================================================================
