----------------------------- MODULE ReviewWork -----------------------------
(***************************************************************************)
(* Reviews of pull requests from claim to finalize: the handlers of        *)
(* src/handlers/review.ts (automatic review), mention.ts (explicit review) *)
(* and review-timeout-retry-*.ts (one retry of an automatic review that    *)
(* timed out), over the job queue and the review-work coordinator.         *)
(*                                                                         *)
(* A handler claims an attempt and enqueues its body.  The body is a       *)
(* sequence of awaits, so the steps of bodies in different lanes, and of   *)
(* bodies given up by the hard timeout, interleave: it moves the attempt   *)
(* out of "claimed", asks canPublish before each output, and posts some    *)
(* time after the answer.                                                  *)
(***************************************************************************)
EXTENDS ReviewWorkCoordinator, Sequences

VARIABLES
  queueScopes, activeJobs, tracked, body, enqueued,   \* see JobQueue
  job,        \* job[a]: kind, family and, for a retry, the attempt it retries
  stage,      \* stage[a]: where the body of a is
  committed,  \* attempts whose runtime called setPhase (review-work-runtime.ts)
  finalized,  \* attempts whose handler ran finalize, or the retry's release
  rejected,   \* retries whose body ends in an exception
  completed   \* history: attempts that left through complete

jobVars == <<job, stage, committed, finalized, rejected, completed>>
queueVars == <<queueScopes, activeJobs, tracked, body, enqueued>>
vars == <<coordinatorVars, queueVars, jobVars>>

Kinds == {"automatic", "explicit", "retry"}

\* Seeded fault for LaneOf: a retry jumps into the interactive lane.
LaneOfRetryInteractive(kind) ==
  IF kind = "automatic" THEN "review" ELSE "interactive-review"

\* buildReviewJobQueueContext, buildReviewRetryJobQueueContext and
\* buildMentionJobQueueContext.
LaneOf(kind) == IF kind = "explicit" THEN "interactive-review" ELSE "review"

Queue == INSTANCE JobQueue WITH
  Jobs   <- AttemptIds,
  Scopes <- Families \X {"review", "interactive-review"}

NoJob == [kind |-> "none", family |-> "none", parent |-> NoAttempt]

ScopeOf(kind, f) == <<f, LaneOf(kind)>>

Executing(a) == a \in Queue!Executing

NewJob(a, kind, f, parent) ==
  job' = [job EXCEPT ![a] = [kind |-> kind, family |-> f, parent |-> parent]]

-----------------------------------------------------------------------------
\* The claim at the end of resolveReviewEventRuntime, or of
\* claimMentionReviewWorkAttempt, and the enqueue that follows it.
ReceiveEvent(kind, f) ==
  /\ Claim(nextAttemptId, f, "claimed")
  /\ Queue!Enqueue(nextAttemptId, ScopeOf(kind, f))
  /\ NewJob(nextAttemptId, kind, f, NoAttempt)
  /\ UNCHANGED <<stage, committed, finalized, rejected, completed>>

\* The queue starts a body.  A retry marks its attempt at once; the others
\* pass gates first.
StartBody(s) ==
  /\ Queue!Start(s)
  /\ LET a == Head(queueScopes[s].waiting)
     IN IF job[a].kind = "retry"
        THEN /\ SetPhase(a)
             /\ stage' = [stage EXCEPT ![a] = "working"]
        ELSE UNCHANGED <<coordinatorVars, stage>>
  /\ UNCHANGED <<job, committed, finalized, rejected, completed>>

\* The first setPhase of an automatic or explicit review.
BeginWork(a) ==
  /\ Executing(a)
  /\ stage[a] = "gates"
  /\ SetPhase(a)
  /\ stage' = [stage EXCEPT ![a] = "working"]
  /\ committed' = committed \cup {a}
  /\ UNCHANGED <<queueVars, job, finalized, rejected, completed>>

\* canPublishVisibleOutput, canPublishExplicitReviewOutput or
\* canPublishReviewWorkOutput answers yes; the post is the next await.
PassGate(a) ==
  /\ Executing(a)
  /\ stage[a] = "working"
  /\ CanPublish(a)
  /\ stage' = [stage EXCEPT ![a] = "cleared"]
  /\ UNCHANGED <<coordinatorVars, queueVars, job, committed, finalized, rejected, completed>>

\* The GitHub call behind the gate succeeds or fails.
PostReturns(a) ==
  /\ Executing(a)
  /\ stage[a] = "cleared"
  /\ stage' = [stage EXCEPT ![a] = "working"]
  /\ UNCHANGED <<coordinatorVars, queueVars, job, committed, finalized, rejected, completed>>

\* scheduleReviewTimeoutRetryContinuation up to its first await.  A review
\* plans at most one retry.
ClaimRetry(p) ==
  /\ Executing(p)
  /\ job[p].kind = "automatic"
  /\ stage[p] = "working"
  /\ \A a \in AttemptIds : job[a].parent # p
  /\ Claim(nextAttemptId, job[p].family, "claimed")
  /\ NewJob(nextAttemptId, "retry", job[p].family, p)
  /\ stage' = [stage EXCEPT ![p] = "scheduling"]
  /\ UNCHANGED <<queueVars, committed, finalized, rejected, completed>>

\* The side effects before the enqueue succeeded: fire and forget the retry.
EnqueueRetry(a) ==
  /\ job[a].kind = "retry"
  /\ stage[job[a].parent] = "scheduling"
  /\ Queue!Enqueue(a, ScopeOf("retry", job[a].family))
  /\ stage' = [stage EXCEPT ![job[a].parent] = "working"]
  /\ UNCHANGED <<coordinatorVars, job, committed, finalized, rejected, completed>>

\* saveCheckpoint throws: the parent's handler recovers, nobody releases the
\* attempt claimed for the retry.
SchedulingFails(a) ==
  /\ job[a].kind = "retry"
  /\ stage[job[a].parent] = "scheduling"
  /\ stage' = [stage EXCEPT ![job[a].parent] = "working"]
  /\ UNCHANGED <<coordinatorVars, queueVars, job, committed, finalized, rejected, completed>>

\* finalizeRetryJobAttempt: complete, unless the workspace clean-up before it
\* throws.
RetryCleansUp(a) ==
  \/ /\ Complete(a)
     /\ completed' = IF Active(a) THEN completed \cup {a} ELSE completed
     /\ UNCHANGED rejected
  \/ /\ rejected' = rejected \cup {a}
     /\ UNCHANGED <<coordinatorVars, completed>>

\* A body ends within the hard timeout, early return or not.
BodyEnds(a) ==
  /\ stage[a] \in {"gates", "working"}
  /\ Queue!BodySettles(a)
  /\ IF job[a].kind = "retry"
     THEN RetryCleansUp(a)
     ELSE UNCHANGED <<coordinatorVars, rejected, completed>>
  /\ UNCHANGED <<job, stage, committed, finalized>>

\* A body that was given up ends; a retry cleans up even then.
AbandonedBodyEnds(a) ==
  /\ stage[a] \in {"gates", "working"}
  /\ Queue!AbandonedBodyEnds(a)
  /\ IF job[a].kind = "retry"
     THEN RetryCleansUp(a)
     ELSE UNCHANGED <<coordinatorVars, rejected, completed>>
  /\ UNCHANGED <<job, stage, committed, finalized>>

HardTimeout(a) ==
  /\ Queue!HardTimeout(a)
  /\ UNCHANGED <<coordinatorVars, jobVars>>

CloseJob(a) ==
  /\ Queue!Close(a)
  /\ UNCHANGED <<coordinatorVars, jobVars>>

\* Seeded fault for Finalize: complete whether or not the work was committed.
FinalizeByCompleting(a) ==
  /\ job[a].kind \in {"automatic", "explicit"}
  /\ body[a] \in {"done", "abandoned-closed"}
  /\ a \notin finalized
  /\ finalized' = finalized \cup {a}
  /\ Complete(a)
  /\ completed' = IF Active(a) THEN completed \cup {a} ELSE completed
  /\ UNCHANGED <<queueVars, job, stage, committed, rejected>>

\* The finally block around enqueue in both handlers: reviewWorkRuntime.finalize.
Finalize(a) ==
  /\ job[a].kind \in {"automatic", "explicit"}
  /\ body[a] \in {"done", "abandoned-closed"}
  /\ a \notin finalized
  /\ finalized' = finalized \cup {a}
  /\ IF a \in committed
     THEN /\ Complete(a)
          /\ completed' = IF Active(a) THEN completed \cup {a} ELSE completed
     ELSE /\ Release(a)
          /\ UNCHANGED completed
  /\ UNCHANGED <<queueVars, job, stage, committed, rejected>>

\* Seeded fault for ReleaseRetry: the failed enqueue is only logged.
ReleaseRetryLoggedOnly(a) ==
  /\ job[a].kind = "retry"
  /\ \/ body[a] = "abandoned-closed"
     \/ body[a] = "done" /\ a \in rejected
  /\ a \notin finalized
  /\ finalized' = finalized \cup {a}
  /\ UNCHANGED <<coordinatorVars, queueVars, job, stage, committed, rejected, completed>>

\* The catch behind a retry's enqueue: handleRetryEnqueueFailure.
ReleaseRetry(a) ==
  /\ job[a].kind = "retry"
  /\ \/ body[a] = "abandoned-closed"
     \/ body[a] = "done" /\ a \in rejected
  /\ a \notin finalized
  /\ finalized' = finalized \cup {a}
  /\ Release(a)
  /\ UNCHANGED <<queueVars, job, stage, committed, rejected, completed>>

Init ==
  /\ CoordinatorInit
  /\ Queue!QueueInit
  /\ job = [a \in AttemptIds |-> NoJob]
  /\ stage = [a \in AttemptIds |-> "gates"]
  /\ committed = {}
  /\ finalized = {}
  /\ rejected = {}
  /\ completed = {}

Next ==
  \/ \E kind \in {"automatic", "explicit"}, f \in Families : ReceiveEvent(kind, f)
  \/ \E s \in Families \X {"review", "interactive-review"} : StartBody(s)
  \/ \E a \in AttemptIds : BeginWork(a)
  \/ \E a \in AttemptIds : PassGate(a)
  \/ \E a \in AttemptIds : PostReturns(a)
  \/ \E a \in AttemptIds : ClaimRetry(a)
  \/ \E a \in AttemptIds : EnqueueRetry(a)
  \/ \E a \in AttemptIds : SchedulingFails(a)
  \/ \E a \in AttemptIds : BodyEnds(a)
  \/ \E a \in AttemptIds : AbandonedBodyEnds(a)
  \/ \E a \in AttemptIds : HardTimeout(a)
  \/ \E a \in AttemptIds : CloseJob(a)
  \/ \E a \in AttemptIds : Finalize(a)
  \/ \E a \in AttemptIds : ReleaseRetry(a)

\* The queue, its timers and the finally blocks run; bodies may hang anywhere.
Fairness ==
  /\ \A s \in Families \X {"review", "interactive-review"} : WF_vars(StartBody(s))
  /\ \A a \in AttemptIds : /\ WF_vars(HardTimeout(a))
                           /\ WF_vars(CloseJob(a))
                           /\ WF_vars(Finalize(a))
                           /\ WF_vars(ReleaseRetry(a))

Spec == Init /\ [][Next]_vars /\ Fairness

-----------------------------------------------------------------------------
(* Properties *)

WorkTypeOK ==
  /\ TypeOK
  /\ Queue!TypeOK
  /\ job \in [AttemptIds -> [kind: Kinds, family: Families,
                             parent: AttemptIds \cup {NoAttempt}] \cup {NoJob}]
  /\ stage \in [AttemptIds -> {"gates", "working", "cleared", "scheduling"}]
  /\ committed \cup finalized \cup rejected \cup completed \subseteq AttemptIds

\* A review whose job was given up by the hard timeout and whose handler has
\* finalized passes no publish gate any more, however long its body lives on.
AbandonedStaysSilent ==
  [][\A a \in AttemptIds : (stage[a] = "working" /\ stage'[a] = "cleared")
        => a \notin finalized]_vars

\* The handler of a still has to run its finally block, or its catch.
HandlerOwes(a) ==
  \/ a \in Queue!Open
  \/ a \notin finalized /\ (\/ job[a].kind # "retry"
                            \/ body[a] = "abandoned-closed"
                            \/ a \in rejected)

NoAttemptLeaks ==
  \A a \in Live : HandlerOwes(a) \/ (job[a].kind = "retry" /\ body[a] = "none")

\* The variables of all three parts hold values of their types, and no attempt
\* outlives its handler: what stays in the coordinator belongs to a handler that
\* still cleans up, or to a retry that was never enqueued.
WorkInv == WorkTypeOK /\ NoAttemptLeaks

\* A retry never takes the publish right from the review that scheduled it
\* while the queue still waits for that review: both share a lane.
RetryFollowsParent ==
  \A a \in Live :
    job[a].kind = "retry" /\ Active(a) => body[job[a].parent] # "running"

\* Every attempt that was enqueued leaves the coordinator, even when its body
\* never returns.
EnqueuedAttemptsEnd ==
  \A a \in AttemptIds : (a \in Live /\ body[a] # "none") ~> (a \notin Live)

\* "newer explicit review stays authoritative after it starts and completes
\* before the older automatic review" (review-work-coordinator.test.ts): once a
\* review completed, no older review of its pull request that still runs may
\* publish.
CompletedStaysAuthoritative ==
  \A b \in completed : \A a \in Live :
    (job[a].family = job[b].family /\ a < b /\ body[a] = "running")
      => ~CanPublish(a)
=============================================================================
