-------------------------- MODULE ReviewPublication --------------------------
(***************************************************************************)
(* What the reviews of one head of one pull request put on GitHub: the     *)
(* tool calls of the agent of an explicit review (comment-server.ts,       *)
(* inline-review-publisher.ts behind http-server.ts), and the verdict      *)
(* each handler writes after its agent (mention-post-executor-             *)
(* publication.ts, review-fallback-publication-orchestration.ts) through   *)
(* review-canonical-surface.ts.                                            *)
(*                                                                         *)
(* All of them carry one marker, the canonical key of the head.  The       *)
(* rights to publish are those the coordinator promises (PublishRights):   *)
(* handlers ask for them, tool calls do not.  GitHub may take a post and   *)
(* the answer be lost; a call the agent was told had timed out runs on.    *)
(***************************************************************************)
EXTENDS Naturals, Sequences, FiniteSetsExt

CONSTANTS
  Reviews,      \* attempts of the family: natural numbers
  LanesOf(_),   \* the lanes a review may be of
  MaxCalls(_),  \* bound: the tool calls of its agent that get to a post
  AutoApprove   \* config.review.autoApprove: a clean verdict is an approval

ASSUME ReviewsAssumption == Reviews \subseteq Nat \ {0}

VARIABLES
  members, started, barred,   \* see PublishRights
  run,      \* run[e]: the job of the review, from claim to finalize
  calls,    \* calls[e]: the tool calls of its agent, in order
  memory,   \* memory[e]: what its tool servers share, and the published flag
  outputs   \* the comments and reviews on GitHub, oldest first

rightsVars == <<members, started, barred>>
vars == <<rightsVars, run, calls, memory, outputs>>

Rights == INSTANCE PublishRights WITH Families <- {"pr"}, Attempts <- Reviews

CanPublish(e) == Rights!MayPublish("pr", e)

Lanes == {"explicit", "automatic", "quiet"}
Stages == {"idle", "gating", "running", "ensuring", "presenting",
           "writing", "sent", "accepted", "rechecking", "noting", "replying",
           "closing", "done"}
\* create_comment with an approval for a body, create_comment with findings,
\* and create_inline_comment.
Tools == {"approve", "comment", "inline"}
Kinds == {"issue_comment", "pull_review", "review_comment"}
Verdicts == {"approve", "findings", "reply", "error", "publish-failure"}

KindOfTool(tool) == CASE tool = "approve" -> "pull_review"
                      [] tool = "comment" -> "issue_comment"
                      [] tool = "inline"  -> "review_comment"

\* A body, and the review whose handler wrote it, none for a tool call's.
NoReview == 0
Texts == [verdict : Verdicts \cup {"none"}, writer : Reviews \cup {NoReview}]
NoText == [verdict |-> "none", writer |-> NoReview]

Run == [lane : Lanes, stage : Stages,
        verdict : Verdicts \cup {"none"},   \* what it is about to write
        found : BOOLEAN,      \* its agent reported findings
        target : Nat,         \* the surface it found, 0 for none
        stale : Texts,        \* the body of the other surface
        from : Nat,           \* history: outputs when it started
        refused : BOOLEAN,    \* history: it asked for the rights in vain
        failed : BOOLEAN,     \* history: an error comment was not delivered
        blind : BOOLEAN]      \* history: the scan after an error failed

Idle == [lane |-> "quiet", stage |-> "idle", verdict |-> "none",
         found |-> FALSE, target |-> 0, stale |-> NoText, from |-> 0,
         refused |-> FALSE, failed |-> FALSE, blind |-> FALSE]

\* What the tool servers of one execution share.
Forgotten == [posted |-> FALSE, gate |-> "unresolved", published |-> FALSE]

-----------------------------------------------------------------------------
Init ==
  /\ Rights!Init
  /\ run = [e \in Reviews |-> Idle]
  /\ calls = [e \in Reviews |-> <<>>]
  /\ memory = [e \in Reviews |-> Forgotten]
  /\ outputs = <<>>

Marked == {i \in DOMAIN outputs : outputs[i].marked}

\* Seeded fault for OutputExists: only the issue comments are searched.
OutputExistsInIssueComments ==
  \E i \in Marked : outputs[i].kind = "issue_comment"

\* ensureReviewOutputNotPublished: the marker among the review comments, the
\* issue comments and the reviews.  Markers stay, so reading the three lists
\* one after the other is as good as reading them at once.  The code reads at
\* most DEFAULT_MAX_SCAN_ITEMS (2000) of a list and takes a marker behind them
\* for absent; here the lists are shorter.
OutputExists == Marked # {}

\* Seeded fault for SurfaceOf: every review looks for its own delivery only.
SurfaceOfDelivery(e, kind) ==
  LET surfaces == {i \in Marked : outputs[i].kind = kind /\ outputs[i].by = e}
  IN IF surfaces = {} THEN 0 ELSE Min(surfaces)

\* findCanonicalReviewSurface: the first comment that has the marker, or the
\* latest review that has it, whoever wrote it.
SurfaceOf(e, kind) ==
  LET surfaces == {i \in Marked : outputs[i].kind = kind}
  IN CASE surfaces = {}                              -> 0
       [] surfaces # {} /\ kind = "issue_comment" -> Min(surfaces)
       [] OTHER                                      -> Max(surfaces)

KindOf(verdict) ==
  IF verdict = "approve" /\ AutoApprove THEN "pull_review" ELSE "issue_comment"

OtherKind(kind) ==
  IF kind = "issue_comment" THEN "pull_review" ELSE "issue_comment"

TextOf(o) == [verdict |-> o.verdict, writer |-> o.writer]

Post(e, kind, verdict, marked, via, replay) ==
  outputs' = Append(outputs,
    [kind |-> kind, verdict |-> verdict, marked |-> marked, by |-> e,
     via |-> via, writer |-> IF via = "tool" THEN NoReview ELSE e,
     early |-> run[e].stage = "running", replay |-> replay, noted |-> FALSE])

Goto(e, stage) == run' = [run EXCEPT ![e].stage = stage]

-----------------------------------------------------------------------------
(* Start and end of a review.  One that waits in its queue bars nobody and *)
(* writes nothing: a claim that starts at once is as good.                 *)

Start(e, lane) ==
  /\ run[e].stage = "idle"
  /\ lane \in LanesOf(e)
  /\ Rights!ClaimStarted("pr", e)
  /\ run' = [run EXCEPT
       ![e].lane = lane,
       ![e].stage = IF lane = "automatic" THEN "gating" ELSE "running",
       ![e].from = Len(outputs)]
  /\ UNCHANGED <<calls, memory, outputs>>

\* evaluateReviewOutputIdempotencyGate: a surface without Review Details lets
\* the review run on.
Gate(e) ==
  /\ run[e].stage = "gating"
  /\ \/ ~OutputExists /\ Goto(e, "running")
     \/ OutputExists /\ \E next \in {"running", "closing"} : Goto(e, next)
  /\ UNCHANGED <<rightsVars, calls, memory, outputs>>

\* finalize, of a handler that has published what it could.
End(e) ==
  /\ run[e].stage = "closing"
  /\ Rights!Finish("pr", e)
  /\ run' = [run EXCEPT ![e].stage = "done", ![e].target = 0,
                         ![e].stale = NoText, ![e].verdict = "none"]
  /\ UNCHANGED <<calls, memory, outputs>>

\* A review that publishes nothing and is withdrawn, as a retry whose job
\* rejects is.  One that completes bars the older ones as if it still ran.
QuietEnd(e) ==
  /\ run[e].lane = "quiet"
  /\ Rights!Withdraw("pr", e)
  /\ Goto(e, "done")
  /\ UNCHANGED <<calls, memory, outputs>>

-----------------------------------------------------------------------------
(* The tool calls of the agent of an explicit review.                      *)

Ended == [tool |-> "none", late |-> FALSE, replay |-> FALSE, step |-> "ended"]

Open(e, i) == calls[e][i] # Ended

\* The agent waits for the answer, or for the 503 that says there is none.
AgentIsFree(e) == \A i \in DOMAIN calls[e] : Open(e, i) => calls[e][i].late

\* GitHub has taken a post of this tool when the call begins.
IsReplay(e, tool) ==
  \E i \in DOMAIN outputs :
     /\ outputs[i].by = e /\ outputs[i].via = "tool"
     /\ outputs[i].kind = KindOfTool(tool)

CallSteps(e, i, step) ==
  calls' = [calls EXCEPT ![e][i] = IF step = "ended" THEN Ended
                                   ELSE [@ EXCEPT !.step = step]]

\* Seeded fault for MarkerFound: nothing but the cached gate stops a replay.
MarkerFoundNever(e, tool) == FALSE

\* hasIssueCommentMarkerPaged in create_comment, the issue comments only, and
\* hasExistingInlineOutputMarker: a digest of the key, the place and the text.
MarkerFound(e, tool) ==
  IF tool = "inline" THEN IsReplay(e, tool)
  ELSE SurfaceOf(e, "issue_comment") # 0

\* The publication gate of the review: one scan, its answer kept for good.
GateAnswer(e) ==
  IF memory[e].gate # "unresolved" THEN memory[e].gate
  ELSE IF OutputExists THEN "skip" ELSE "publish"

\* create_comment and create_inline_comment up to the post: the one-shot
\* guard, then the scan and the gate.  They only read, so what lands while
\* they do is as good as landing just before or just after.
BeginCall(e, tool) ==
  /\ run[e].lane = "explicit" /\ run[e].stage = "running"
  /\ Len(calls[e]) < MaxCalls(e)
  /\ AgentIsFree(e)
  /\ tool = "inline" \/ ~memory[e].posted
  /\ tool = "inline" \/ ~MarkerFound(e, tool)
  /\ memory' = [memory EXCEPT ![e].gate = GateAnswer(e)]
  /\ calls' = IF GateAnswer(e) = "skip" \/ MarkerFound(e, tool) THEN calls
              ELSE [calls EXCEPT ![e] = Append(@,
                     [tool |-> tool, late |-> FALSE, step |-> "posting",
                      replay |-> IsReplay(e, tool)])]
  /\ UNCHANGED <<rightsVars, run, outputs>>

AcceptCall(e, i) ==
  /\ calls[e][i].step = "posting"
  /\ Post(e, KindOfTool(calls[e][i].tool),
          IF calls[e][i].tool = "approve" THEN "approve" ELSE "findings",
          TRUE, "tool", calls[e][i].replay)
  /\ CallSteps(e, i, "accepted")
  /\ UNCHANGED <<rightsVars, run, memory>>

\* The await succeeds: the one-shot guard is set and onPublish called.  Nobody
\* reads them once the executor has returned.
AnswerCall(e, i) ==
  /\ calls[e][i].step = "accepted"
  /\ memory' = IF run[e].stage # "running" THEN memory ELSE
       [memory EXCEPT ![e].posted = @ \/ calls[e][i].tool # "inline",
                      ![e].published = TRUE]
  /\ CallSteps(e, i, "ended")
  /\ UNCHANGED <<rightsVars, run, outputs>>

\* Seeded fault for FailCall: onPublish is called before the post is awaited.
FailCallPublished(e, i) ==
  /\ Open(e, i)
  /\ CallSteps(e, i, "ended")
  /\ memory' = [memory EXCEPT
       ![e].published = @ \/ run[e].stage = "running"]
  /\ UNCHANGED <<rightsVars, run, outputs>>

\* The post throws: rejected, or taken and the answer lost.
FailCall(e, i) ==
  /\ Open(e, i)
  /\ CallSteps(e, i, "ended")
  /\ UNCHANGED <<rightsVars, run, memory, outputs>>

\* MCP_REQUEST_TIMEOUT_MS, or a broken connection: createRetryingFetch may
\* send the call again while its handler runs on.
TimeOutCall(e, i) ==
  /\ Open(e, i) /\ ~calls[e][i].late
  /\ run[e].stage = "running"
  /\ calls' = [calls EXCEPT ![e][i].late = TRUE]
  /\ UNCHANGED <<rightsVars, run, memory, outputs>>

-----------------------------------------------------------------------------
(* The executor returns: result.published is what onPublish has said.      *)

\* evaluateExplicitMentionReviewPublish and publishMentionExecutionFallbacks
\* for a success: a clean result, findings in its text, or no inspection.
ExplicitSucceeds(e) ==
  /\ run[e].lane = "explicit" /\ run[e].stage = "running"
  /\ AgentIsFree(e)
  /\ \/ /\ memory[e].published
        /\ Goto(e, "closing")
     \/ /\ ~memory[e].published
        /\ \/ run' = [run EXCEPT ![e].stage = "ensuring",
                                 ![e].verdict = "approve"]
           \/ run' = [run EXCEPT ![e].stage = "presenting",
                                 ![e].verdict = "findings",
                                 ![e].found = TRUE]
           \/ run' = [run EXCEPT ![e].stage = "replying",
                                 ![e].verdict = "reply"]
  /\ memory' = [memory EXCEPT ![e] = Forgotten]
  /\ UNCHANGED <<rightsVars, calls, outputs>>

\* An error is told beside an output; a failure is not.  The time limit of
\* the executor does not wait for a call.
ExplicitFails(e) ==
  /\ run[e].lane = "explicit" /\ run[e].stage = "running"
  /\ \/ run' = [run EXCEPT ![e].stage = "replying", ![e].verdict = "error"]
     \/ memory[e].published /\ Goto(e, "closing")
  /\ memory' = [memory EXCEPT ![e] = Forgotten]
  /\ UNCHANGED <<rightsVars, calls, outputs>>

\* The blocked findings notice, the clean approval or the error comment.
AutomaticReturns(e) ==
  /\ run[e].lane = "automatic" /\ run[e].stage = "running"
  /\ \/ run' = [run EXCEPT ![e].stage = "ensuring", ![e].verdict = "approve"]
     \/ run' = [run EXCEPT ![e].stage = "presenting",
                           ![e].verdict = "findings", ![e].found = TRUE]
     \/ run' = [run EXCEPT ![e].stage = "replying", ![e].verdict = "error"]
  /\ UNCHANGED <<rightsVars, calls, memory, outputs>>

-----------------------------------------------------------------------------
(* The verdict of the handler on the canonical surface.                    *)

\* The first scan of publishExplicitMentionReviewResult and of
\* publishCleanReviewApproval.
Ensure(e) ==
  /\ run[e].stage = "ensuring"
  /\ Goto(e, IF OutputExists THEN "closing" ELSE "presenting")
  /\ UNCHANGED <<rightsVars, calls, memory, outputs>>

\* Where a refused verdict leads: the fallbacks of an explicit review ask
\* again for a reply, and a refused notice does not suppress the clean
\* approval of an automatic one.
AfterRefusal(e) ==
  CASE run[e].lane = "explicit" /\ run[e].verdict = "approve" ->
         run' = [run EXCEPT ![e].stage = "replying", ![e].verdict = "reply",
                            ![e].refused = TRUE]
    [] run[e].lane = "automatic" /\ run[e].verdict = "findings" ->
         run' = [run EXCEPT ![e].stage = "ensuring", ![e].verdict = "approve",
                            ![e].refused = TRUE]
    [] OTHER ->
         run' = [run EXCEPT ![e].stage = "closing", ![e].refused = TRUE]

\* canPublish, then upsertCanonicalReviewSurface looks for its own kind.
Present(e) ==
  /\ run[e].stage = "presenting"
  /\ IF CanPublish(e)
     THEN run' = [run EXCEPT ![e].stage = "writing",
                    ![e].target = SurfaceOf(e, KindOf(run[e].verdict))]
     ELSE AfterRefusal(e)
  /\ UNCHANGED <<rightsVars, calls, memory, outputs>>

\* recheckCanPublish, without an await between the answer and the request.
Send(e) ==
  /\ run[e].stage = "writing"
  /\ IF CanPublish(e) THEN Goto(e, "sent") ELSE AfterRefusal(e)
  /\ UNCHANGED <<rightsVars, calls, memory, outputs>>

\* GitHub takes the update or the creation; an update replaces the body, the
\* note of a newer decision with it.
Accept(e) ==
  /\ run[e].stage = "sent"
  /\ IF run[e].target = 0
     THEN Post(e, KindOf(run[e].verdict), run[e].verdict, TRUE, "handler", FALSE)
     ELSE outputs' = [outputs EXCEPT ![run[e].target].verdict = run[e].verdict,
                                     ![run[e].target].writer = e,
                                     ![run[e].target].noted = FALSE]
  /\ Goto(e, "accepted")
  /\ UNCHANGED <<rightsVars, calls, memory>>

\* A scan, the update or the creation throws: the catch of the explicit
\* verdict scans again, the one of the clean approval gives up, and a notice
\* that throws ends the handler with an error comment.
Throw(e) ==
  /\ run[e].stage \in {"ensuring", "writing", "sent", "accepted"}
  /\ IF run[e].verdict = "findings"
     THEN run' = [run EXCEPT ![e].stage = "replying", ![e].verdict = "error"]
     ELSE Goto(e, IF run[e].lane = "explicit" THEN "rechecking" ELSE "closing")
  /\ UNCHANGED <<rightsVars, calls, memory, outputs>>

\* Seeded fault for Recheck: an error is taken for the absence of an output.
RecheckTrustsTheError(e) ==
  /\ run[e].stage = "rechecking"
  /\ run' = [run EXCEPT ![e].stage = "replying",
                        ![e].verdict = "publish-failure"]
  /\ UNCHANGED <<rightsVars, calls, memory, outputs>>

\* The scan of the catch block: duplicate-suppressed, or the fallback comment.
Recheck(e) ==
  /\ run[e].stage = "rechecking"
  /\ \/ OutputExists /\ Goto(e, "closing")
     \/ \E blind \in BOOLEAN :
          /\ ~OutputExists \/ blind
          /\ run' = [run EXCEPT ![e].stage = "replying",
                                ![e].verdict = "publish-failure",
                                ![e].blind = blind]
  /\ UNCHANGED <<rightsVars, calls, memory, outputs>>

\* The answer arrives and reconcileSupersededCanonicalSurface reads the surface
\* of the other kind, unless that fails.
Reconcile(e) ==
  /\ run[e].stage = "accepted"
  /\ LET other == SurfaceOf(e, OtherKind(KindOf(run[e].verdict)))
     IN \/ /\ other # 0 /\ ~outputs[other].noted
           /\ run' = [run EXCEPT ![e].stage = "noting", ![e].target = other,
                                 ![e].stale = TextOf(outputs[other])]
        \/ Goto(e, "closing")
  /\ UNCHANGED <<rightsVars, calls, memory, outputs>>

\* The body it has read goes back with a note, unless that fails.
Note(e) ==
  /\ run[e].stage = "noting"
  /\ \/ outputs' = [outputs EXCEPT ![run[e].target].verdict = run[e].stale.verdict,
                                   ![run[e].target].writer = run[e].stale.writer,
                                   ![run[e].target].noted = TRUE]
     \/ UNCHANGED outputs
  /\ Goto(e, "closing")
  /\ UNCHANGED <<rightsVars, calls, memory>>

\* A comment without the marker, from the fallbacks or the handler's catch.
\* A plain reply that throws, taken by GitHub or not, sends the handler to its
\* catch; an error comment that throws is given up.
Reply(e) ==
  /\ run[e].stage = "replying"
  /\ CanPublish(e)
  /\ \/ /\ Post(e, "issue_comment", run[e].verdict, FALSE, "handler", FALSE)
        /\ Goto(e, "closing")
     \/ /\ run[e].verdict = "reply"
        /\ \/ Post(e, "issue_comment", "reply", FALSE, "handler", FALSE)
           \/ UNCHANGED outputs
        /\ run' = [run EXCEPT ![e].verdict = "error"]
     \/ /\ run[e].verdict # "reply"
        /\ run' = [run EXCEPT ![e].stage = "closing", ![e].failed = TRUE]
        /\ UNCHANGED outputs
  /\ UNCHANGED <<rightsVars, calls, memory>>

\* A refused fallback of the catch leaves the plain reply to ask once more.
ReplyRefused(e) ==
  /\ run[e].stage = "replying"
  /\ ~CanPublish(e)
  /\ run' = [run EXCEPT
       ![e].stage = IF run[e].verdict = "publish-failure" THEN @ ELSE "closing",
       ![e].verdict = IF @ = "publish-failure" THEN "reply" ELSE @,
       ![e].refused = TRUE]
  /\ UNCHANGED <<rightsVars, calls, memory, outputs>>

-----------------------------------------------------------------------------
CallStep(e, i) ==
  \/ AcceptCall(e, i) \/ AnswerCall(e, i) \/ FailCall(e, i)

HandlerStep(e) ==
  \/ Gate(e) \/ Ensure(e) \/ Present(e) \/ Send(e) \/ Accept(e)
  \/ Throw(e) \/ Recheck(e) \/ Reconcile(e) \/ Note(e)
  \/ Reply(e) \/ ReplyRefused(e)

AgentReturns(e) ==
  ExplicitSucceeds(e) \/ ExplicitFails(e) \/ AutomaticReturns(e)

\* The only state in which nothing is left to do.
Terminated ==
  /\ \A e \in Reviews : /\ run[e].stage = "done"
                        /\ \A i \in DOMAIN calls[e] : ~Open(e, i)
  /\ UNCHANGED vars

Next ==
  \/ \E e \in Reviews :
       \/ \E lane \in Lanes : Start(e, lane)
       \/ End(e) \/ QuietEnd(e)
       \/ \E tool \in Tools : BeginCall(e, tool)
       \/ \E i \in DOMAIN calls[e] : CallStep(e, i) \/ TimeOutCall(e, i)
       \/ AgentReturns(e)
       \/ HandlerStep(e)
  \/ Terminated

Spec == Init /\ [][Next]_vars

-----------------------------------------------------------------------------
PublicationTypeOK ==
  /\ run \in [Reviews -> Run]
  /\ \A e \in Reviews :
       /\ memory[e] \in [posted : BOOLEAN, published : BOOLEAN,
                         gate : {"unresolved", "publish", "skip"}]
       /\ run[e].target \in {0} \cup Marked
  /\ \A i \in DOMAIN outputs :
       /\ outputs[i].kind \in Kinds
       /\ outputs[i].verdict \in Verdicts
       /\ outputs[i].by \in Reviews
       /\ TextOf(outputs[i]) \in Texts

\* Nothing of the review w speaks against an approval of its handler.
MayApprove(w) ==
  /\ ~\E j \in DOMAIN outputs : /\ outputs[j].by = w
                                /\ outputs[j].via = "tool"
                                /\ outputs[j].early
  /\ run[w].found => run[w].refused

\* A handler approves beside no finding of its own review, on a surface of its
\* own or over the text of another: what the agent of an explicit review got
\* on GitHub before it returned bars the approval even if the answer was lost
\* (the scan of publishExplicitMentionReviewResult), and an automatic review
\* that found something approves only after it was refused its notice.
FindingsBarApproval ==
  \A i \in DOMAIN outputs :
    outputs[i].verdict = "approve" /\ outputs[i].writer \in Reviews
      => MayApprove(outputs[i].writer)

\* The comment that says a verdict could not be published stands beside a
\* verdict of its review only if the scan after the error failed too
\* (the catch of publishExplicitMentionReviewResult).
NoFailureNoticeBesideVerdict ==
  \A i \in DOMAIN outputs :
    outputs[i].verdict = "publish-failure" =>
      \/ run[outputs[i].by].blind
      \/ ~\E j \in 1..(i - 1) : /\ outputs[j].by = outputs[i].by
                                /\ outputs[j].via = "handler"
                                /\ outputs[j].marked

\* A review that starts when its head has a surface of a kind, whichever review
\* or lane made it, does not make a second one of that kind
\* (buildCanonicalReviewSurfaceKey, upsertCanonicalReviewSurface).
EarlierSurfaceIsReused ==
  \A i \in Marked, j \in Marked :
    outputs[i].kind = outputs[j].kind /\ i # j =>
      ~(i <= run[outputs[j].by].from /\ j > run[outputs[j].by].from)

\* The variables hold values of their types, and a review keeps to the surface
\* it found.
OutputsInv == PublicationTypeOK /\ EarlierSurfaceIsReused

\* A call that begins after GitHub took the same one posts no comment again,
\* even if the answer was lost (the fresh scans of create_comment and
\* create_inline_comment).
ReplayPostsNoComment ==
  \A i \in DOMAIN outputs : outputs[i].replay => outputs[i].kind = "pull_review"

\* The same of every call of the comment tools
\* (comment-server.test.ts, "replayed create_comment call is blocked").
ReplayIsBlocked ==
  \A i \in DOMAIN outputs : ~outputs[i].replay

\* An explicit request does not end in silence: something of it or of its
\* head is on GitHub, unless it lost the rights or the last comment failed
\* (publishMentionExecutionFallbacks, requirement R043).
NoSilentSuccess ==
  \A e \in Reviews :
    run[e].lane = "explicit" /\ run[e].stage \in {"closing", "done"} =>
      \/ run[e].refused \/ run[e].failed
      \/ OutputExists
      \/ \E i \in DOMAIN outputs : outputs[i].by = e
=============================================================================
