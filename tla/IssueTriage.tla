---------------------------- MODULE IssueTriage -----------------------------
(***************************************************************************)
(* Duplicate triage of issues: the handler of issues.opened (issue-        *)
(* opened.ts) over the row of issue_triage_state (issue-triage-state-      *)
(* store.ts), the handler of issues.closed (issue-closed.ts), which labels *)
(* what triage predicted with what people decided, and the counters this   *)
(* teaches (threshold-learner.ts).                                         *)
(*                                                                         *)
(* A delivery may be executed more than once: the cache of delivery ids    *)
(* dies with its process, and a queued row is replayed.  Every SQL         *)
(* statement and every GitHub call is a step of its own, and any step may  *)
(* be the last one of its execution.                                       *)
(***************************************************************************)
EXTENDS Naturals, FiniteSets

CONSTANTS
  Issues,
  Openings,        \* executions of the handler of issues.opened
  Closings,        \* executions of the handler of issues.closed
  IssueOf(_),      \* the issue an execution is about
  DeliveryOf(_),   \* the id of the delivery it executes
  DuplicateLabel,  \* config.triage.duplicateLabel: any string, by default
                   \* "possible-duplicate"
  None             \* no comment id, no payload, no row

ASSUME ExecutionsAssumption ==
  /\ \A e \in Openings \cup Closings : IssueOf(e) \in Issues
  /\ \A c, d \in Closings : DeliveryOf(c) = DeliveryOf(d) => IssueOf(c) = IssueOf(d)

VARIABLES
  row,        \* issue_triage_state, by issue
  opening,    \* opening[o]: where the handler of issues.opened is
  posted,     \* the openings whose comment is on GitHub
  labels,     \* the labels of each issue
  payload,    \* payload[d]: what delivery d of issues.closed carries
  closing,    \* closing[c]: where the handler of issues.closed is
  outcome,    \* issue_outcome_feedback, by issue
  learner,    \* triage_threshold_state beyond its prior of 1, 1
  untimely,   \* history: issues on which an execution could not see the
              \* comments, or was not over when the cooldown was
  told,       \* history: issues a person called duplicates
  taught      \* history: closings that taught the learner

triageVars == <<row, opening, posted>>
feedbackVars == <<payload, closing, outcome, learner, taught>>
vars == <<row, opening, posted, labels, payload, closing, outcome, learner,
          untimely, told, taught>>

Deliveries == {DeliveryOf(c) : c \in Closings}

Counts == {"null", "zero", "some"}   \* of duplicate_count
Row == [delivery : {DeliveryOf(o) : o \in Openings}, count : Counts,
        old : BOOLEAN,                       \* triaged_at is past the cooldown
        comment : Openings \cup {None}]      \* comment_github_id
Reasons == {"duplicate", "other", "null"}    \* state_reason
Labels == {"duplicate", DuplicateLabel}
Payload == [reason : Reasons, labels : SUBSET Labels]
Outcome == [linked : BOOLEAN, predicted : BOOLEAN, confirmed : BOOLEAN,
            commented : BOOLEAN]   \* history: a comment stood at the lookup
OpeningStages == {"idle", "claiming", "detecting", "recorded", "confirmed",
                  "posted", "labelling", "over"}
Closing == [stage : {"idle", "inserting", "observing", "over"},
            linked : BOOLEAN, predicted : BOOLEAN, commented : BOOLEAN]

ASSUME NoneAssumption ==
  None \notin Openings /\ None \notin Row /\ None \notin Payload /\ None \notin Outcome

IdleClosing == [stage |-> "idle", linked |-> FALSE, predicted |-> FALSE,
                commented |-> FALSE]
OverClosing == [IdleClosing EXCEPT !.stage = "over"]

Init ==
  /\ row = [i \in Issues |-> None]
  /\ opening = [o \in Openings |-> "idle"]
  /\ posted = {}
  /\ labels = [i \in Issues |-> {}]
  /\ payload = [d \in Deliveries |-> None]
  /\ closing = [c \in Closings |-> IdleClosing]
  /\ outcome = [i \in Issues |-> None]
  /\ learner = [right |-> 0, wrong |-> 0]
  /\ untimely = {} /\ told = {} /\ taught = {}

UnderWay(o) == opening[o] \notin {"idle", "over"}
CommentsOn(i) == {o \in posted : IssueOf(o) = i}

-----------------------------------------------------------------------------
(* The handler of issues.opened.                                           *)

\* Layer 3: a triage marker on the issue ends the execution; a scan that
\* fails does not (fail-open).
Scan(o) ==
  /\ opening[o] = "idle"
  /\ \/ /\ opening' = [opening EXCEPT ![o] =
             IF CommentsOn(IssueOf(o)) = {} THEN "claiming" ELSE "over"]
        /\ untimely' = untimely
     \/ /\ opening' = [opening EXCEPT ![o] = "claiming"]
        /\ untimely' = untimely \cup {IssueOf(o)}
  /\ UNCHANGED <<row, posted, labels, feedbackVars, told>>

\* Seeded fault for Claimable: no WHERE behind the DO UPDATE.
ClaimableAlways(i) == TRUE

\* There is no row, or its cooldown is over.
Claimable(i) == row[i] = None \/ row[i].old

\* Layer 2: the upsert takes the row with its delivery id and forgets the
\* count, not the comment id.
Claim(o) ==
  LET i == IssueOf(o) IN
  /\ opening[o] = "claiming"
  /\ IF Claimable(i)
     THEN /\ row' = [row EXCEPT ![i] =
               [delivery |-> DeliveryOf(o), count |-> "null", old |-> FALSE,
                comment |-> IF row[i] = None THEN None ELSE row[i].comment]]
          /\ opening' = [opening EXCEPT ![o] = "detecting"]
     ELSE /\ opening' = [opening EXCEPT ![o] = "over"]
          /\ row' = row
  /\ UNCHANGED <<posted, labels, feedbackVars, untimely, told>>

\* The row is that of the delivery the execution claimed it for.
Holds(o) == row[IssueOf(o)].delivery = DeliveryOf(o)

\* Detection and recordDuplicateCount: only a count that is still NULL is
\* written; without candidates there is nothing to say.
Record(o, found) ==
  LET i == IssueOf(o) IN
  /\ opening[o] = "detecting"
  /\ IF Holds(o) /\ row[i].count = "null"
     THEN /\ row' = [row EXCEPT ![i].count = found]
          /\ opening' = [opening EXCEPT ![o] =
               IF found = "some" THEN "recorded" ELSE "over"]
     ELSE /\ opening' = [opening EXCEPT ![o] = "over"]
          /\ row' = row
  /\ UNCHANGED <<posted, labels, feedbackVars, untimely, told>>

\* confirmPublish.
Confirm(o) ==
  /\ opening[o] = "recorded"
  /\ opening' = [opening EXCEPT ![o] =
       IF Holds(o) /\ row[IssueOf(o)].count # "null" THEN "confirmed" ELSE "over"]
  /\ UNCHANGED <<row, posted, labels, feedbackVars, untimely, told>>

\* Seeded fault for Post: the Result of postIssueTriageComment is not asked
\* whether it is an error.
PostUnchecked(o) ==
  /\ opening[o] = "confirmed"
  /\ posted' \in {posted, posted \cup {o}}
  /\ opening' = [opening EXCEPT ![o] = "posted"]
  /\ UNCHANGED <<row, labels, feedbackVars, untimely, told>>

\* GitHub takes the comment; the answer may be lost, which throws.  A post
\* that GitHub refuses throws as well: that is Stop.
Post(o) ==
  /\ opening[o] = "confirmed"
  /\ posted' = posted \cup {o}
  /\ \E stage \in {"posted", "over"} : opening' = [opening EXCEPT ![o] = stage]
  /\ UNCHANGED <<row, labels, feedbackVars, untimely, told>>

\* storeCommentId, fenced by the delivery id; its failure is not fatal.
StoreCommentId(o) ==
  LET i == IssueOf(o) IN
  /\ opening[o] = "posted"
  /\ \/ Holds(o) /\ row' = [row EXCEPT ![i].comment = o]
     \/ row' = row
  /\ opening' = [opening EXCEPT ![o] = "labelling"]
  /\ UNCHANGED <<posted, labels, feedbackVars, untimely, told>>

\* addLabels; a failure is the end as well, without the label: Stop.
Label(o) ==
  /\ opening[o] = "labelling"
  /\ labels' = [labels EXCEPT ![IssueOf(o)] = @ \cup {DuplicateLabel}]
  /\ opening' = [opening EXCEPT ![o] = "over"]
  /\ UNCHANGED <<row, posted, feedbackVars, untimely, told>>

\* An error that the handler's catch logs, or the end of its process.
StopOpening(o) ==
  /\ UnderWay(o)
  /\ opening' = [opening EXCEPT ![o] = "over"]
  /\ UNCHANGED <<row, posted, labels, feedbackVars, untimely, told>>

\* triaged_at falls behind now() - cooldownMinutes.
CooldownEnds(i) ==
  /\ row[i] # None
  /\ ~row[i].old
  /\ row' = [row EXCEPT ![i].old = TRUE]
  /\ untimely' = IF \E o \in Openings : IssueOf(o) = i /\ UnderWay(o)
                 THEN untimely \cup {i} ELSE untimely
  /\ UNCHANGED <<opening, posted, labels, feedbackVars, told>>

-----------------------------------------------------------------------------
(* People, and the handler of issues.closed.                               *)

\* Somebody puts the label "duplicate" on the issue.
PersonLabels(i) ==
  /\ "duplicate" \notin labels[i]
  /\ labels' = [labels EXCEPT ![i] = @ \cup {"duplicate"}]
  /\ told' = told \cup {i}
  /\ UNCHANGED <<triageVars, feedbackVars, untimely>>

\* Somebody closes the issue of c, for the first time or after it was
\* reopened; the payload is what GitHub knows at that moment.
PersonCloses(c, reason) ==
  LET d == DeliveryOf(c) i == IssueOf(c) IN
  /\ payload[d] = None
  /\ payload' = [payload EXCEPT ![d] = [reason |-> reason, labels |-> labels[i]]]
  /\ told' = IF reason = "duplicate" THEN told \cup {i} ELSE told
  /\ UNCHANGED <<triageVars, labels, closing, outcome, learner, taught, untimely>>

\* Seeded fault for Confirmed: any label with "duplicate" in it will do.
ConfirmedBySubstring(p) ==
  \/ p.reason = "duplicate"
  \/ p.reason = "null" /\ p.labels # {}

\* The classification: the reason, and the exact label when there is none.
Confirmed(p) ==
  \/ p.reason = "duplicate"
  \/ p.reason = "null" /\ "duplicate" \in p.labels

\* The look at the triage row; a count that is NULL links nothing.
LookUp(c) ==
  LET i == IssueOf(c)
      counted == row[i] # None /\ row[i].count # "null"
  IN
  /\ closing[c].stage = "idle"
  /\ payload[DeliveryOf(c)] # None
  /\ closing' = [closing EXCEPT ![c] =
       [stage |-> "inserting", linked |-> counted,
        predicted |-> counted /\ row[i].count = "some",
        commented |-> CommentsOn(i) # {}]]
  /\ UNCHANGED <<triageVars, labels, payload, outcome, learner, taught,
                 untimely, told>>

\* Seeded fault for Insert: the conflict updates the row, as the upsert of
\* the triage row does.
InsertOrUpdate(c) ==
  LET i == IssueOf(c) IN
  /\ closing[c].stage = "inserting"
  /\ outcome' = [outcome EXCEPT ![i] =
       [linked |-> closing[c].linked, predicted |-> closing[c].predicted,
        confirmed |-> Confirmed(payload[DeliveryOf(c)]),
        commented |-> closing[c].commented]]
  /\ closing' = [closing EXCEPT ![c] =
       IF @.linked THEN [@ EXCEPT !.stage = "observing"] ELSE OverClosing]
  /\ UNCHANGED <<triageVars, labels, payload, learner, taught,
                 untimely, told>>

\* The INSERT.  A row of the same delivery makes it do nothing, one of the
\* same issue makes it throw: both end the execution.
Insert(c) ==
  LET i == IssueOf(c) IN
  /\ closing[c].stage = "inserting"
  /\ IF outcome[i] = None
     THEN /\ outcome' = [outcome EXCEPT ![i] =
               [linked |-> closing[c].linked, predicted |-> closing[c].predicted,
                confirmed |-> Confirmed(payload[DeliveryOf(c)]),
                commented |-> closing[c].commented]]
          /\ closing' = [closing EXCEPT ![c] =
               IF @.linked THEN [@ EXCEPT !.stage = "observing"] ELSE OverClosing]
     ELSE /\ closing' = [closing EXCEPT ![c] = OverClosing]
          /\ outcome' = outcome
  /\ UNCHANGED <<triageVars, labels, payload, learner, taught,
                 untimely, told>>

\* recordObservation: one increment, none for a true negative.
Observe(c) ==
  LET predicted == closing[c].predicted
      confirmed == Confirmed(payload[DeliveryOf(c)])
  IN
  /\ closing[c].stage = "observing"
  /\ closing' = [closing EXCEPT ![c] = OverClosing]
  /\ IF predicted \/ confirmed
     THEN /\ learner' = IF predicted = confirmed
                        THEN [learner EXCEPT !.right = @ + 1]
                        ELSE [learner EXCEPT !.wrong = @ + 1]
          /\ taught' = taught \cup {c}
     ELSE UNCHANGED <<learner, taught>>
  /\ UNCHANGED <<triageVars, labels, payload, outcome, untimely, told>>

\* As StopOpening; an observation that is lost here is never made up for.
StopClosing(c) ==
  /\ closing[c].stage \in {"inserting", "observing"}
  /\ closing' = [closing EXCEPT ![c] = OverClosing]
  /\ UNCHANGED <<triageVars, labels, payload, outcome, learner, taught,
                 untimely, told>>

-----------------------------------------------------------------------------
OpeningStep(o) ==
  \/ Scan(o)
  \/ Claim(o)
  \/ \E found \in {"zero", "some"} : Record(o, found)
  \/ Confirm(o)
  \/ Post(o)
  \/ StoreCommentId(o)
  \/ Label(o)
  \/ StopOpening(o)

ClosingStep(c) ==
  \/ \E reason \in Reasons : PersonCloses(c, reason)
  \/ LookUp(c)
  \/ Insert(c)
  \/ Observe(c)
  \/ StopClosing(c)

Next ==
  \/ \E o \in Openings : OpeningStep(o)
  \/ \E i \in Issues : CooldownEnds(i) \/ PersonLabels(i)
  \/ \E c \in Closings : ClosingStep(c)

Spec == Init /\ [][Next]_vars

-----------------------------------------------------------------------------
(* Properties *)

\* The stored comment id is that of a comment on this issue, and whoever is
\* about to store or to label has posted.
TriageTypeOK ==
  /\ row \in [Issues -> Row \cup {None}]
  /\ \A i \in Issues : row[i] # None => row[i].comment \in {None} \cup CommentsOn(i)
  /\ opening \in [Openings -> OpeningStages]
  /\ \A o \in Openings : opening[o] \in {"posted", "labelling"} => o \in posted
  /\ posted \subseteq Openings
  /\ labels \in [Issues -> SUBSET Labels]
  /\ payload \in [Deliveries -> Payload \cup {None}]
  /\ closing \in [Closings -> Closing]
  /\ outcome \in [Issues -> Outcome \cup {None}]
  /\ learner \in [right : Nat, wrong : Nat]
  /\ untimely \cup told \subseteq Issues
  /\ taught \subseteq Closings

\* Every execution on the issue could see the comments there and ended
\* within the cooldown it began in.
Timely(i) == i \notin untimely

\* However many deliveries are executed, again or at once, and wherever they
\* stop, an issue gets one triage comment (the "four-layer idempotency" of
\* issue-opened.ts), as long as the scan works and the handler is quicker
\* than the cooldown.
OneComment ==
  \A p, q \in posted :
    IssueOf(p) = IssueOf(q) /\ Timely(IssueOf(p)) => p = q

\* "posting a duplicate comment with stale duplicate_count would corrupt
\* issue-closed feedback labels": an outcome recorded when the comment stood
\* on the issue says that a duplicate was predicted, and one that says it was
\* confirmed had a person behind it, not Kodiai's own label - unless the
\* repository configures the very label people use, and Kodiai has commented:
\* then it may confirm its own prediction.
FeedbackIsTrue ==
  \A i \in Issues :
    outcome[i] # None =>
      /\ outcome[i].commented /\ Timely(i) => outcome[i].predicted
      /\ outcome[i].confirmed =>
           i \in told \/ (DuplicateLabel = "duplicate" /\ CommentsOn(i) # {})

\* An issue teaches the learner once, however often it is closed and however
\* often the delivery is executed, and every sample is one such lesson.
TaughtOncePerIssue ==
  /\ \A c, d \in taught : IssueOf(c) = IssueOf(d) => c = d
  /\ learner.right + learner.wrong = Cardinality(taught)
=============================================================================
