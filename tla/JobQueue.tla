------------------------------ MODULE JobQueue ------------------------------
(***************************************************************************)
(* The job queue of src/jobs/queue.ts: one PQueue of concurrency 1 per     *)
(* scope (installation, lane and key), created on demand and pruned when   *)
(* idle; a snapshot and a tracker slot per job from enqueue until the      *)
(* promise of enqueue settles; and the hard timeout that stops waiting for *)
(* a body without stopping the body.                                       *)
(*                                                                         *)
(* Every await of the code separates two actions: the body of a job runs   *)
(* between Start and BodySettles, and the finally block of enqueue runs    *)
(* some time after the PQueue has moved on to its next job.                *)
(***************************************************************************)
EXTENDS Naturals, Sequences, FiniteSets, SequencesExt

CONSTANTS Jobs,     \* the calls of enqueue, one job id each
          Scopes    \* installation + "lane::key"

VARIABLES queueScopes,  \* the PQueues, by scope: jobs waiting, jobs running
          activeJobs,   \* job -> snapshot: its scope and whether it started
          tracked,      \* jobs counted by RequestTracker.trackJob
          body,         \* job -> where its function fn is
          enqueued      \* scope -> every job ever enqueued there, in order

queueVars == <<queueScopes, activeJobs, tracked, body, enqueued>>

\* Where the code of a job is.  "settled": fn is over, or was given up, and
\* enqueue has yet to run its finally block; an abandoned fn still executes.
BodyStates == {"none", "queued", "running", "settled",
               "abandoned", "abandoned-closed", "done"}

PQueues == [waiting: Seq(Jobs), pending: SUBSET Jobs]
IdlePQueue == [waiting |-> << >>, pending |-> {}]

\* getOrCreateQueue, without storing it.
QueueOf(s) == IF s \in DOMAIN queueScopes THEN queueScopes[s] ELSE IdlePQueue

\* Jobs whose enqueue promise is open.
Open == {j \in Jobs : body[j] \in {"queued", "running", "settled", "abandoned"}}

\* Jobs whose code executes, waited for or not.
Executing == {j \in Jobs : body[j] \in {"running", "abandoned", "abandoned-closed"}}

ScopesWithout(s) == [t \in DOMAIN queueScopes \ {s} |-> queueScopes[t]]

\* Seeded fault for Pruned: it looks at the running jobs only.
PrunedIgnoringWaiting(s) ==
  IF s \in DOMAIN queueScopes /\ queueScopes[s].pending = {}
  THEN ScopesWithout(s)
  ELSE queueScopes

\* The scopes after pruneQueueScope(s): an idle queue goes.
Pruned(s) ==
  IF s \in DOMAIN queueScopes /\ queueScopes[s] = IdlePQueue
  THEN ScopesWithout(s)
  ELSE queueScopes

-----------------------------------------------------------------------------
\* enqueue up to the await of queue.add.
Enqueue(j, s) ==
  /\ body[j] = "none"
  /\ queueScopes' = [t \in DOMAIN queueScopes \cup {s} |->
                       IF t = s
                       THEN [QueueOf(s) EXCEPT !.waiting = Append(@, j)]
                       ELSE queueScopes[t]]
  /\ activeJobs' = [i \in DOMAIN activeJobs \cup {j} |->
                      IF i = j THEN [scope |-> s, started |-> FALSE]
                      ELSE activeJobs[i]]
  /\ tracked' = tracked \cup {j}
  /\ body' = [body EXCEPT ![j] = "queued"]
  /\ enqueued' = [enqueued EXCEPT ![s] = Append(@, j)]

\* Seeded fault for Start: the last job in goes first.
StartNewest(s) ==
  /\ s \in DOMAIN queueScopes
  /\ queueScopes[s].pending = {}
  /\ queueScopes[s].waiting # << >>
  /\ LET j == Last(queueScopes[s].waiting)
     IN /\ queueScopes' = [queueScopes EXCEPT ![s].waiting = Front(@),
                                              ![s].pending = {j}]
        /\ activeJobs' = [activeJobs EXCEPT ![j].started = TRUE]
        /\ body' = [body EXCEPT ![j] = "running"]
  /\ UNCHANGED <<tracked, enqueued>>

\* A PQueue with a free slot starts the job at its head.
Start(s) ==
  /\ s \in DOMAIN queueScopes
  /\ queueScopes[s].pending = {}
  /\ queueScopes[s].waiting # << >>
  /\ LET j == Head(queueScopes[s].waiting)
     IN /\ queueScopes' = [queueScopes EXCEPT ![s].waiting = Tail(@),
                                              ![s].pending = {j}]
        /\ activeJobs' = [activeJobs EXCEPT ![j].started = TRUE]
        /\ body' = [body EXCEPT ![j] = "running"]
  /\ UNCHANGED <<tracked, enqueued>>

\* Job j gives its slot back to the PQueue it runs in, if that is still the
\* one stored under its scope.
FreeSlot(j) ==
  queueScopes' = [s \in DOMAIN queueScopes |->
                    [queueScopes[s] EXCEPT !.pending = @ \ {j}]]

\* fn resolves or rejects within the hard timeout.
BodySettles(j) ==
  /\ body[j] = "running"
  /\ body' = [body EXCEPT ![j] = "settled"]
  /\ FreeSlot(j)
  /\ UNCHANGED <<activeJobs, tracked, enqueued>>

\* Seeded fault for HardTimeout: the lane stays occupied.
HardTimeoutKeepingSlot(j) ==
  /\ body[j] = "running"
  /\ body' = [body EXCEPT ![j] = "abandoned"]
  /\ UNCHANGED <<queueScopes, activeJobs, tracked, enqueued>>

\* rejectWithTimeout rejects first; fn goes on unheard.
HardTimeout(j) ==
  /\ body[j] = "running"
  /\ body' = [body EXCEPT ![j] = "abandoned"]
  /\ FreeSlot(j)
  /\ UNCHANGED <<activeJobs, tracked, enqueued>>

\* The finally block of enqueue: the caller sees the outcome after it.
Close(j) ==
  /\ body[j] \in {"settled", "abandoned"}
  /\ body' = [body EXCEPT ![j] = IF @ = "settled" THEN "done"
                                 ELSE "abandoned-closed"]
  /\ tracked' = tracked \ {j}
  /\ activeJobs' = [i \in DOMAIN activeJobs \ {j} |-> activeJobs[i]]
  /\ queueScopes' = Pruned(activeJobs[j].scope)
  /\ UNCHANGED enqueued

\* An abandoned body comes to its end after all; nobody is listening.
AbandonedBodyEnds(j) ==
  /\ body[j] = "abandoned-closed"
  /\ body' = [body EXCEPT ![j] = "done"]
  /\ UNCHANGED <<queueScopes, activeJobs, tracked, enqueued>>

QueueInit ==
  /\ queueScopes = << >>
  /\ activeJobs = << >>
  /\ tracked = {}
  /\ body = [j \in Jobs |-> "none"]
  /\ enqueued = [s \in Scopes |-> << >>]

QueueNext ==
  \/ \E j \in Jobs, s \in Scopes : Enqueue(j, s)
  \/ \E s \in Scopes : Start(s)
  \/ \E j \in Jobs : BodySettles(j)
  \/ \E j \in Jobs : HardTimeout(j)
  \/ \E j \in Jobs : Close(j)
  \/ \E j \in Jobs : AbandonedBodyEnds(j)

QueueSpec == QueueInit /\ [][QueueNext]_queueVars

-----------------------------------------------------------------------------
(* Properties *)

TypeOK ==
  /\ DOMAIN queueScopes \subseteq Scopes
  /\ \A s \in DOMAIN queueScopes : queueScopes[s] \in PQueues
  /\ DOMAIN activeJobs \subseteq Jobs
  /\ \A j \in DOMAIN activeJobs :
       activeJobs[j] \in [scope: Scopes, started: BOOLEAN]
  /\ tracked \subseteq Jobs
  /\ body \in [Jobs -> BodyStates]
  /\ enqueued \in [Scopes -> Seq(Jobs)]

\* "Jobs in the same lane remain serialized" (queue.ts, createJobQueue): of
\* one scope at most one job runs that enqueue still waits for, although the
\* PQueue of the scope is thrown away and made again between jobs.
Serialized ==
  \A s \in Scopes :
    Cardinality({j \in DOMAIN activeJobs :
                   activeJobs[j].scope = s /\ body[j] = "running"}) <= 1

\* A queued job sits in the PQueue stored under its scope and nowhere else,
\* so pruning an idle scope never takes a waiting job with it.
NoJobForgotten ==
  \A j \in Jobs : body[j] = "queued" =>
    {s \in DOMAIN queueScopes : j \in ToSet(queueScopes[s].waiting)}
      = {activeJobs[j].scope}

\* Drain accounting and job snapshots cover exactly the jobs whose enqueue
\* promise is open: a job that is waiting counts, one that was abandoned does
\* not.
AccountedFor == tracked = Open /\ DOMAIN activeJobs = Open

\* A scope is kept only while one of its jobs is open: the map does not grow
\* with every pull request ever reviewed.
ScopesAreInUse ==
  \A s \in DOMAIN queueScopes :
    \E j \in DOMAIN activeJobs : activeJobs[j].scope = s

\* The slot of a scope is taken by the job that runs there and by no other:
\* neither a timeout nor a prune gives a slot away twice.
SlotsAreHeld ==
  \A s \in Scopes :
    /\ QueueOf(s).pending =
         {j \in DOMAIN activeJobs : body[j] = "running" /\ activeJobs[j].scope = s}
    /\ \A i, j \in QueueOf(s).pending : i = j

\* waiting is what is left of all when its first jobs have started; at says
\* where each job is.
LeftOf(waiting, all, at) ==
  LET gone == Len(all) - Len(waiting)
  IN /\ gone >= 0
     /\ \A k \in 1..Len(waiting) : waiting[k] = all[gone + k]
     /\ \A m \in 1..Len(all) : at[all[m]] = "queued" <=> m > gone

\* What waits in a scope is the tail of what was enqueued there, namely the
\* jobs that have not started.
WaitingIsTail ==
  \A s \in Scopes : LeftOf(QueueOf(s).waiting, enqueued[s], body)

\* A job is enqueued once, in the scope of its snapshot.
EnqueuedOnce ==
  /\ \A s \in Scopes : \A m \in 1..Len(enqueued[s]) :
       LET j == enqueued[s][m]
       IN /\ body[j] # "none"
          /\ j \in DOMAIN activeJobs => activeJobs[j].scope = s
          /\ \A t \in Scopes : \A k \in 1..Len(enqueued[t]) :
               enqueued[t][k] = j => t = s /\ k = m
  /\ \A j \in DOMAIN activeJobs :
       \E m \in 1..Len(enqueued[activeJobs[j].scope]) :
         enqueued[activeJobs[j].scope][m] = j

\* The bookkeeping of the queue: what it stores about its jobs is what becomes
\* of them, through prunes, timeouts and late finally blocks.
QueueInv ==
  /\ TypeOK
  /\ Serialized
  /\ NoJobForgotten
  /\ AccountedFor
  /\ ScopesAreInUse
  /\ SlotsAreHeld
  /\ WaitingIsTail
  /\ EnqueuedOnce

\* Jobs of one scope start in the order of their enqueue calls.
StartsInOrder ==
  \A s \in Scopes : \A i, k \in 1..Len(enqueued[s]) :
    i < k /\ body[enqueued[s][i]] = "queued"
      => body[enqueued[s][k]] = "queued"
=============================================================================
