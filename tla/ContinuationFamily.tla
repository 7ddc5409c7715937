------------------------- MODULE ContinuationFamily -------------------------
(***************************************************************************)
(* The durable record of how the review of one delivery continued after it *)
(* timed out: the row of continuation_family_state that                    *)
(* src/review-orchestration/review-continuation-family-state.ts writes     *)
(* through upsertContinuationFamilyState of src/knowledge/store.ts.        *)
(*                                                                         *)
(* One review (base), the retry it schedules, and other reviews of the     *)
(* same pull request share the coordinator.  A write is in flight from its *)
(* call until the database has answered; its caller awaits it, except for  *)
(* the write of a closed publish gate, which nobody awaits.  An attempt id *)
(* "review-work-N" is N, also where parseAttemptOrdinal reads the ordinal  *)
(* back from it, and a new process starts again at 1.                      *)
(***************************************************************************)
EXTENDS ReviewWorkCoordinator

CONSTANTS MaxProcesses,   \* bound on the lifetimes of the process
          NoRow           \* the row does not exist

ASSUME MaxProcessesAssumption == MaxProcesses \in Nat \ {0}
ASSUME FamilyAssumption == Families # {}

VARIABLES
  process,    \* number of the running process
  row,        \* the row, with the process that wrote it (history)
  writes,     \* upserts in flight
  base,       \* attempt of the delivery's review in this process
  retry,      \* attempt of its retry
  pc,         \* where the bodies of base and retry and the retry's catch are
  abandoned,  \* bodies given up by the hard timeout
  newest,     \* history: newest attempt this process has issued a write for
  lost,       \* history: the database refused a write of this process
  posted      \* history: what the retry of this process put on the pull request:
              \* "canonical", the merged review; "degraded", a comment with
              \* the Review Details alone

recordVars == <<row, writes, newest, lost>>
bodyVars   == <<base, retry, pc, abandoned, posted>>
vars == <<coordinatorVars, process, recordVars, bodyVars>>

Family == CHOOSE f \in Families : TRUE

Outcomes    == {"blocked", "continuation-pending", "merged", "quiet-settled", "superseded"}
Projections == {"canonical", "degraded", "pending"}
Callers     == {"base", "retry", "catch", "gate"}
Row   == [attempt: AttemptIds, outcome: Outcomes, projection: Projections,
          process: 1..MaxProcesses]
ASSUME NoRowAssumption == NoRow \notin Row

Write == [by: Callers, attempt: AttemptIds, outcome: Outcomes, projection: Projections]

Stages == [base: {"idle", "gates", "working", "blocking", "scheduling", "done"},
           retry: {"none", "queued", "working", "merging", "posting", "fallback",
                   "details", "settling", "failing", "cleaning", "done", "rejected"},
           catch: {"idle", "finalizing", "released"}]

Superseder(a) == IF a \in Live THEN SupersedingAttemptId(a) ELSE NoAttempt

-----------------------------------------------------------------------------
(* Writing the row *)

\* persistContinuationFamilyState, up to the await of the upsert.
Issue(ws) ==
  /\ writes' = writes \cup ws
  /\ newest' = LET asked == {newest} \cup {w.attempt : w \in ws}
               IN CHOOSE n \in asked : \A m \in asked : m <= n

\* Seeded fault for Wins: the upsert has no ordinal guard.
WinsAlways(w) == TRUE

\* The WHERE clause of ON CONFLICT DO UPDATE.  The ordinal is read from the
\* id, so equal ordinals are equal ids.
Wins(w) == row = NoRow \/ w.attempt >= row.attempt

\* The upsert is done.
Land(w) ==
  /\ w \in writes
  /\ writes' = writes \ {w}
  /\ row' = IF Wins(w)
            THEN [attempt |-> w.attempt, outcome |-> w.outcome,
                  projection |-> w.projection, process |-> process]
            ELSE row
  /\ UNCHANGED <<coordinatorVars, process, bodyVars, newest, lost>>

\* The upsert fails: the error is caught and logged.
Fail(w) ==
  /\ w \in writes
  /\ writes' = writes \ {w}
  /\ lost' = TRUE
  /\ UNCHANGED <<coordinatorVars, process, bodyVars, row, newest>>

Answered(caller) == \A w \in writes : w.by # caller

WriteOf(caller, a, outcome, projection) ==
  [by |-> caller, attempt |-> a, outcome |-> outcome, projection |-> projection]

\* Seeded fault for GateWrites: nobody looks whether there is a newer review.
GateWritesUnasked(a) == {WriteOf("gate", Superseder(a), "superseded", "canonical")}

\* What a publish gate that is closed to a writes, without waiting for it.
GateWrites(a) ==
  IF Superseder(a) = NoAttempt THEN {}
  ELSE {WriteOf("gate", Superseder(a), "superseded", "canonical")}

\* finalizeContinuationAttempt for the retry.
FinalWrite(caller) ==
  IF Superseder(retry) # NoAttempt
  THEN WriteOf(caller, Superseder(retry), "superseded", "canonical")
  ELSE WriteOf(caller, retry, "blocked", "canonical")

-----------------------------------------------------------------------------
(* The review of the delivery *)

\* The delivery, or its redelivery to a later process, claims an attempt.
ReceiveDelivery ==
  /\ pc.base = "idle"
  /\ Claim(nextAttemptId, Family, "claimed")
  /\ base' = nextAttemptId
  /\ pc' = [pc EXCEPT !.base = "gates"]
  /\ UNCHANGED <<process, recordVars, retry, abandoned, posted>>

BeginWork ==
  /\ pc.base = "gates"
  /\ SetPhase(base)
  /\ pc' = [pc EXCEPT !.base = "working"]
  /\ UNCHANGED <<process, recordVars, base, retry, abandoned, posted>>

\* canPublishReviewWorkOutput of the review answers no.
BaseGateCloses ==
  /\ pc.base = "working"
  /\ ~CanPublish(base)
  /\ Issue(GateWrites(base))
  /\ UNCHANGED <<coordinatorVars, process, row, lost, bodyVars>>

\* The review timed out and no retry is planned.
TimesOutForGood ==
  /\ pc.base = "working"
  /\ retry = NoAttempt
  /\ \E projection \in {"canonical", "degraded"} :
       Issue({WriteOf("base", base, "blocked", projection)})
  /\ pc' = [pc EXCEPT !.base = "blocking"]
  /\ UNCHANGED <<coordinatorVars, process, row, lost, base, retry, abandoned, posted>>

\* The review timed out: claim the retry and record that it is awaited.
TimesOutWithRetry ==
  /\ pc.base = "working"
  /\ retry = NoAttempt
  /\ Claim(nextAttemptId, Family, "claimed")
  /\ retry' = nextAttemptId
  /\ \/ /\ Issue({WriteOf("base", nextAttemptId, "continuation-pending", "pending")})
        /\ pc' = [pc EXCEPT !.base = "scheduling"]
     \/ \* saveCheckpoint throws before
        /\ pc' = pc
        /\ UNCHANGED <<writes, newest>>
  /\ UNCHANGED <<process, row, lost, base, abandoned, posted>>

EnqueueRetry ==
  /\ pc.base = "scheduling"
  /\ Answered("base")
  /\ pc' = [pc EXCEPT !.base = "working", !.retry = "queued"]
  /\ UNCHANGED <<coordinatorVars, process, recordVars, base, retry, abandoned, posted>>

\* The body of the review returns, and its handler finalizes at once.
BaseEnds ==
  /\ \/ pc.base \in {"gates", "working"}
     \/ pc.base = "blocking" /\ Answered("base")
  /\ pc' = [pc EXCEPT !.base = "done"]
  /\ IF pc.base = "gates" THEN Release(base) ELSE Complete(base)
  /\ UNCHANGED <<process, recordVars, base, retry, abandoned, posted>>

\* The hard timeout gives the body up: the handler finalizes, the body goes on.
BaseIsAbandoned ==
  /\ pc.base \in {"gates", "working", "blocking", "scheduling"}
  /\ "base" \notin abandoned
  /\ abandoned' = abandoned \cup {"base"}
  /\ IF pc.base = "gates" THEN Release(base) ELSE Complete(base)
  /\ UNCHANGED <<process, recordVars, base, retry, pc, posted>>

-----------------------------------------------------------------------------
(* The retry *)

\* The lane is free: the body of the review has ended or was given up.
RetryStarts ==
  /\ pc.retry = "queued"
  /\ pc.base = "done" \/ "base" \in abandoned
  /\ SetPhase(retry)
  /\ pc' = [pc EXCEPT !.retry = "working"]
  /\ UNCHANGED <<process, recordVars, base, retry, abandoned, posted>>

\* settleRetryContinuationResults without a merge.  The fallback comment asks
\* the gate; only a retry that came to results is recorded.
RetrySettlesQuietly ==
  /\ pc.retry = "working"
  /\ \E asked \in BOOLEAN, recorded \in BOOLEAN :
       /\ Issue(   (IF asked /\ ~CanPublish(retry) THEN GateWrites(retry) ELSE {})
              \cup (IF recorded
                    THEN {WriteOf("retry", retry, "quiet-settled", "canonical")}
                    ELSE {}))
       /\ pc' = [pc EXCEPT !.retry = IF recorded THEN "settling" ELSE "cleaning"]
  /\ UNCHANGED <<coordinatorVars, process, row, lost, base, retry, abandoned, posted>>

\* publishRetryMergeContinuationResults, up to the gate and the update of
\* the review comment.
RetryMerges ==
  /\ pc.retry = "working"
  /\ IF CanPublish(retry)
     THEN pc' = [pc EXCEPT !.retry = "merging"] /\ UNCHANGED <<writes, newest>>
     ELSE pc' = [pc EXCEPT !.retry = "cleaning"] /\ Issue(GateWrites(retry))
  /\ UNCHANGED <<coordinatorVars, process, row, lost, base, retry, abandoned, posted>>

\* Seeded fault for MergeChecks: nobody looks whether the surface was updated.
MergeChecksForgotten ==
  /\ pc.retry = "merging"
  /\ \/ /\ CanPublish(retry)
        /\ pc' = [pc EXCEPT !.retry = "posting"]
        /\ UNCHANGED <<writes, newest>>
     \/ /\ ~CanPublish(retry)
        /\ Issue({WriteOf("retry", retry, "merged", "canonical")} \cup GateWrites(retry))
        /\ pc' = [pc EXCEPT !.retry = "settling"]
     \/ /\ pc' = [pc EXCEPT !.retry = "fallback"]
        /\ UNCHANGED <<writes, newest>>
  /\ UNCHANGED <<coordinatorVars, process, row, lost, base, retry, abandoned, posted>>

\* publishRetryReviewDetailsMerge: upsertCanonicalReviewSurface looks for the
\* surface, which may throw, and then asks again for the right to update it.
MergeChecks ==
  /\ pc.retry = "merging"
  /\ \/ /\ CanPublish(retry)
        /\ pc' = [pc EXCEPT !.retry = "posting"]
        /\ UNCHANGED <<writes, newest>>
     \/ /\ ~CanPublish(retry)
        /\ Issue({WriteOf("retry", retry, "quiet-settled", "canonical")} \cup GateWrites(retry))
        /\ pc' = [pc EXCEPT !.retry = "settling"]
     \/ /\ pc' = [pc EXCEPT !.retry = "fallback"]
        /\ UNCHANGED <<writes, newest>>
  /\ UNCHANGED <<coordinatorVars, process, row, lost, base, retry, abandoned, posted>>

\* The update of the surface returns; or it throws, be the merged review on the
\* pull request or not.
MergeReturns ==
  /\ pc.retry = "posting"
  /\ \/ /\ posted' = posted \cup {"canonical"}
        /\ Issue({WriteOf("retry", retry, "merged", "canonical")})
        /\ pc' = [pc EXCEPT !.retry = "settling"]
     \/ /\ posted' \in {posted, posted \cup {"canonical"}}
        /\ pc' = [pc EXCEPT !.retry = "fallback"]
        /\ UNCHANGED <<writes, newest>>
  /\ UNCHANGED <<coordinatorVars, process, row, lost, base, retry, abandoned>>

\* publishDegradedReviewDetailsFallbackFailOpen asks before it looks for a
\* comment and before it writes one.
FallbackChecks ==
  /\ pc.retry = "fallback"
  /\ IF CanPublish(retry)
     THEN pc' = [pc EXCEPT !.retry = "details"] /\ UNCHANGED <<writes, newest>>
     ELSE /\ Issue({WriteOf("retry", retry, "merged", "pending")} \cup GateWrites(retry))
          /\ pc' = [pc EXCEPT !.retry = "settling"]
  /\ UNCHANGED <<coordinatorVars, process, row, lost, base, retry, abandoned, posted>>

\* The comment with the Review Details is written, or the look-up or the call
\* throws; the merged review itself is not tried again.
FallbackReturns ==
  /\ pc.retry = "details"
  /\ \/ /\ posted' = posted \cup {"degraded"}
        /\ Issue({WriteOf("retry", retry, "merged", "degraded")})
     \/ /\ posted' \in {posted, posted \cup {"degraded"}}
        /\ Issue({WriteOf("retry", retry, "merged", "pending")})
  /\ pc' = [pc EXCEPT !.retry = "settling"]
  /\ UNCHANGED <<coordinatorVars, process, row, lost, base, retry, abandoned>>

\* An await of the body throws, before a merge, which catches what it throws:
\* handleRetryJobFailure.
RetryThrows ==
  /\ pc.retry = "working"
  /\ Issue({FinalWrite("retry")})
  /\ pc' = [pc EXCEPT !.retry = "failing"]
  /\ UNCHANGED <<coordinatorVars, process, row, lost, base, retry, abandoned, posted>>

RetryRecorded ==
  /\ pc.retry = "settling"
  /\ Answered("retry")
  /\ pc' = [pc EXCEPT !.retry = "cleaning"]
  /\ UNCHANGED <<coordinatorVars, process, recordVars, base, retry, abandoned, posted>>

\* finalizeRetryJobAttempt: complete, unless the clean-up of the workspace
\* throws.  A body that threw has no workspace to clean.
RetryEnds ==
  /\ \/ pc.retry = "cleaning"
     \/ pc.retry = "failing" /\ Answered("retry")
  /\ \/ Complete(retry) /\ pc' = [pc EXCEPT !.retry = "done"]
     \/ /\ pc.retry = "cleaning"
        /\ pc' = [pc EXCEPT !.retry = "rejected"]
        /\ UNCHANGED coordinatorVars
  /\ UNCHANGED <<process, recordVars, base, retry, abandoned, posted>>

\* Seeded fault for RetryRejects: the failed enqueue is not recorded.
RetryRejectsUnrecorded ==
  /\ pc.catch = "idle"
  /\ pc.retry \in {"working", "merging", "posting", "fallback", "details", "settling",
                  "failing", "cleaning", "rejected"}
  /\ abandoned' = IF pc.retry = "rejected" THEN abandoned ELSE abandoned \cup {"retry"}
  /\ pc' = [pc EXCEPT !.catch = "finalizing"]
  /\ UNCHANGED <<coordinatorVars, process, recordVars, base, retry, posted>>

\* The retry's job rejects, by its hard timeout or by its body: the catch of
\* enqueueReviewTimeoutRetryJob calls handleRetryEnqueueFailure.
RetryRejects ==
  /\ pc.catch = "idle"
  /\ pc.retry \in {"working", "merging", "posting", "fallback", "details", "settling",
                  "failing", "cleaning", "rejected"}
  /\ abandoned' = IF pc.retry = "rejected" THEN abandoned ELSE abandoned \cup {"retry"}
  /\ Issue({FinalWrite("catch")})
  /\ pc' = [pc EXCEPT !.catch = "finalizing"]
  /\ UNCHANGED <<coordinatorVars, process, row, lost, base, retry, posted>>

CatchReleases ==
  /\ pc.catch = "finalizing"
  /\ Answered("catch")
  /\ Release(retry)
  /\ pc' = [pc EXCEPT !.catch = "released"]
  /\ UNCHANGED <<process, recordVars, base, retry, abandoned, posted>>

-----------------------------------------------------------------------------
(* The other reviews of the pull request, and the end of the process *)

Others == {a \in 1..(nextAttemptId - 1) : a \notin {base, retry}}

OtherReview ==
  /\ \/ Claim(nextAttemptId, Family, "claimed")
     \/ \E a \in Others \cap Live : SetPhase(a) \/ Complete(a) \/ Release(a)
  /\ UNCHANGED <<process, recordVars, bodyVars>>

\* The process dies and another one starts; only the row stays.
Restart ==
  /\ process < MaxProcesses
  /\ process' = process + 1
  /\ attempts' = << >> /\ families' = << >> /\ nextAttemptId' = 1
  /\ writes' = {} /\ newest' = NoAttempt /\ lost' = FALSE
  /\ base' = NoAttempt /\ retry' = NoAttempt
  /\ pc' = [base |-> "idle", retry |-> "none", catch |-> "idle"]
  /\ abandoned' = {} /\ posted' = {}
  /\ UNCHANGED row

Init ==
  /\ CoordinatorInit
  /\ process = 1
  /\ row = NoRow
  /\ writes = {} /\ newest = NoAttempt /\ lost = FALSE
  /\ base = NoAttempt /\ retry = NoAttempt
  /\ pc = [base |-> "idle", retry |-> "none", catch |-> "idle"]
  /\ abandoned = {} /\ posted = {}

Next ==
  \/ \E w \in writes : Land(w)
  \/ \E w \in writes : Fail(w)
  \/ ReceiveDelivery \/ BeginWork \/ BaseGateCloses
  \/ TimesOutForGood \/ TimesOutWithRetry \/ EnqueueRetry
  \/ BaseEnds \/ BaseIsAbandoned
  \/ RetryStarts \/ RetrySettlesQuietly \/ RetryMerges
  \/ MergeChecks \/ MergeReturns \/ FallbackChecks \/ FallbackReturns
  \/ RetryThrows \/ RetryRecorded \/ RetryEnds
  \/ RetryRejects \/ CatchReleases
  \/ OtherReview
  \/ Restart

\* The database answers, a PQueue starts its next job, hard timeouts fire and
\* catch blocks run; no body is assumed to end by itself.
Fairness ==
  /\ \A caller \in Callers :
       WF_vars(\E w \in writes : w.by = caller /\ (Land(w) \/ Fail(w)))
  /\ WF_vars(BaseIsAbandoned)
  /\ WF_vars(EnqueueRetry)
  /\ WF_vars(RetryStarts)
  /\ WF_vars(RetryRejects)
  /\ WF_vars(CatchReleases)

Spec == Init /\ [][Next]_vars /\ Fairness

-----------------------------------------------------------------------------
(* Properties *)

FamilyTypeOK ==
  /\ TypeOK
  /\ process \in 1..MaxProcesses
  /\ row \in Row \cup {NoRow}
  /\ writes \subseteq Write
  /\ {base, retry, newest} \subseteq AttemptIds \cup {NoAttempt}
  /\ pc \in Stages
  /\ abandoned \subseteq {"base", "retry"}
  /\ posted \subseteq {"canonical", "degraded"}
  /\ lost \in BOOLEAN

\* The row says what the running process wrote.
OwnRow == row # NoRow /\ row.process = process

\* The row announces the retry of the running process.
RetryAwaited == OwnRow /\ row.outcome = "continuation-pending"

\* All writes of this process that were to be made have been made.
Quiet == writes = {} /\ ~lost /\ newest # NoAttempt

\* In whatever order the upserts of the review, its retry, their clean-ups and
\* their closed gates reach the database, the row ends up with the newest
\* attempt any of them named (the ordinal guard of upsertContinuationFamilyState);
\* only a higher ordinal that an earlier process left may stand in its place.
LatestIsRecorded ==
  Quiet => /\ row # NoRow
           /\ row.attempt >= newest
           /\ OwnRow => row.attempt = newest

\* Once the row says which newer review superseded this one, no write of the
\* superseded review, of an abandoned body of it or of the catch of its retry
\* takes that back.
SupersededSticks ==
  [][(OwnRow /\ row.outcome = "superseded" /\ process' = process /\ row' # row)
        => row'.attempt > row.attempt]_vars

\* The row never names the review itself or its own retry as what superseded
\* it, although both are attempts of one family (finalizeContinuationAttempt,
\* canPublishReviewWorkOutput).
SupersededByAnother ==
  OwnRow /\ row.outcome = "superseded" => row.attempt \in Others

\* What a row that says "merged" says of its projection is so: the merged review
\* is on the pull request if it is canonical, the Review Details are if it is
\* degraded.  A degraded row promises no more: the merged review may be missing,
\* and nobody tries again (publishRetryReviewDetailsMerge).
MergedWasPublished ==
  OwnRow /\ row.outcome = "merged" /\ row.projection # "pending" => row.projection \in posted

\* A merge that is on the pull request stays on record: no closed gate and no
\* failing body of the retry writes "blocked" after it, unless the catch behind
\* the retry's job has run (settleRetryContinuationResults).
MergedStaysRecorded ==
  Quiet /\ OwnRow /\ "canonical" \in posted /\ pc.catch = "idle" => row.outcome # "blocked"

\* When handleRetryEnqueueFailure has cleaned up after a retry, the row no
\* longer announces it, however late the first write was.
RejectedRetryIsNotAwaited ==
  pc.catch = "released" /\ ~lost => ~RetryAwaited

\* The four together: what the row says is so, while upserts are on their way
\* or after the last of them.
RowIsTrue ==
  /\ SupersededByAnother
  /\ MergedWasPublished
  /\ MergedStaysRecorded
  /\ RejectedRetryIsNotAwaited

\* A row that announces a retry stops doing so, or the retry's job has ended,
\* a write was refused or the process is gone, even if no body ever returns.
AwaitedRetryEnds == RetryAwaited ~> (~RetryAwaited \/ lost \/ pc.retry = "done")
=============================================================================
