------------------------- MODULE IssueTriageProofs --------------------------
(***************************************************************************)
(* Proofs about the triage of issues, for any issues, any number of        *)
(* executions of any deliveries: one comment per issue, feedback that      *)
(* agrees with it, one lesson per issue.                                   *)
(*                                                                         *)
(* The argument: while an execution on a timely issue is under way its row *)
(* stays younger than the cooldown, so nobody else can claim it; and an    *)
(* execution that passed the scan before the comment came cannot claim the *)
(* row after it, because the row is that of the execution that posted it.  *)
(***************************************************************************)
EXTENDS IssueTriage, FiniteSetTheorems, TLAPS

AfterClaim == {"detecting", "recorded", "confirmed", "posted", "labelling"}
BeforeComment == {"detecting", "recorded", "confirmed"}
Held(i) == row[i] # None /\ ~row[i].old

-----------------------------------------------------------------------------
(* The invariant.                                                          *)

\* An execution that has claimed finds a row, one that inserts has a payload.
StagesAreBacked ==
  /\ \A o \in Openings : opening[o] \in AfterClaim => row[IssueOf(o)] # None
  /\ \A c \in Closings :
       closing[c].stage \in {"inserting", "observing"} => payload[DeliveryOf(c)] # None

\* The row of an execution that has claimed is younger than the cooldown ...
ClaimHolds ==
  \A o \in Openings :
    opening[o] \in AfterClaim /\ Timely(IssueOf(o)) => Held(IssueOf(o))

\* ... so one execution at a time is on its way to a comment, ...
OneClaimant ==
  \A o, p \in Openings :
    /\ opening[o] \in BeforeComment /\ opening[p] \in BeforeComment
    /\ IssueOf(o) = IssueOf(p) /\ Timely(IssueOf(o))
    => o = p

\* ... which has not been posted yet.
NotYetPosted ==
  \A o \in Openings, p \in posted :
    opening[o] \in BeforeComment /\ IssueOf(o) = IssueOf(p) => ~Timely(IssueOf(o))

\* Who passed the scan before the comment came finds the row held.
LateClaimFails ==
  \A o \in Openings, p \in posted :
    opening[o] = "claiming" /\ IssueOf(o) = IssueOf(p) /\ Timely(IssueOf(o))
      => Held(IssueOf(o))

\* The prediction is in the row before the comment is on the issue.
CountIsRecorded ==
  /\ \A o \in Openings :
       opening[o] \in {"recorded", "confirmed"} /\ Timely(IssueOf(o))
         => row[IssueOf(o)].count = "some"
  /\ \A p \in posted :
       Timely(IssueOf(p)) => row[IssueOf(p)] # None /\ row[IssueOf(p)].count = "some"

ClaimInv ==
  ClaimHolds /\ OneClaimant /\ NotYetPosted /\ LateClaimFails /\ CountIsRecorded

\* A label or a reason "duplicate" comes from a person, or the label from Kodiai
\* where it is configured so.
SpokenFor(i) == i \in told \/ (DuplicateLabel = "duplicate" /\ CommentsOn(i) # {})

PeopleSpoke ==
  /\ \A i \in Issues : "duplicate" \in labels[i] => SpokenFor(i)
  /\ \A c \in Closings :
       payload[DeliveryOf(c)] # None /\ Confirmed(payload[DeliveryOf(c)])
         => SpokenFor(IssueOf(c))

\* What a closure read before its INSERT is true.
LookUpIsTrue ==
  \A c \in Closings :
    closing[c].stage = "inserting" /\ closing[c].commented /\ Timely(IssueOf(c))
      => closing[c].predicted

FeedbackInv == PeopleSpoke /\ LookUpIsTrue /\ FeedbackIsTrue

\* Only the execution that inserted the outcome of an issue may teach.
Teachers == {c \in Closings : closing[c].stage = "observing" \/ c \in taught}

OneTeacher ==
  /\ \A c \in Teachers : outcome[IssueOf(c)] # None
  /\ \A c, d \in Teachers : IssueOf(c) = IssueOf(d) => c = d
  /\ \A c \in taught : closing[c].stage # "observing"
  /\ IsFiniteSet(taught)

LearnerInv == OneTeacher /\ TaughtOncePerIssue

TriageInv == TriageTypeOK /\ StagesAreBacked /\ ClaimInv /\ FeedbackInv /\ LearnerInv

-----------------------------------------------------------------------------
(* Initially.                                                              *)

LEMMA InitTriageInv == Init => TriageInv
<1> SUFFICES ASSUME Init PROVE TriageInv
  OBVIOUS
<1>1. TriageTypeOK
  BY DEF Init, TriageTypeOK, OpeningStages, IdleClosing, Closing
<1>2. StagesAreBacked
  BY DEF Init, StagesAreBacked, AfterClaim, IdleClosing
<1>3. ClaimInv
  BY DEF Init, ClaimInv, ClaimHolds, OneClaimant, NotYetPosted, LateClaimFails,
         CountIsRecorded, AfterClaim, BeforeComment
<1>4. FeedbackInv
  BY DEF Init, FeedbackInv, PeopleSpoke, LookUpIsTrue, FeedbackIsTrue, Deliveries,
         IdleClosing
<1>5. LearnerInv
  BY FS_EmptySet DEF Init, LearnerInv, OneTeacher, Teachers, TaughtOncePerIssue,
                      IdleClosing
<1> QED
  BY <1>1, <1>2, <1>3, <1>4, <1>5 DEF TriageInv

-----------------------------------------------------------------------------
(* Types.                                                                  *)

\* A row that is written.
LEMMA RowWrite ==
  ASSUME TriageTypeOK, NEW i \in Issues, NEW r \in Row, r.comment \in {None} \cup CommentsOn(i),
         row' = [row EXCEPT ![i] = r], posted' = posted
  PROVE  /\ row' \in [Issues -> Row \cup {None}]
         /\ \A j \in Issues : row'[j] # None => row'[j].comment \in {None} \cup CommentsOn(j)'
         /\ \A j \in Issues : row[j] # None => row'[j] # None
         /\ row'[i] = r
         /\ row'[i] # None
BY NoneAssumption DEF TriageTypeOK, CommentsOn

LEMMA OpeningTypes ==
  ASSUME TriageTypeOK, StagesAreBacked, NEW o \in Openings, OpeningStep(o)
  PROVE  TriageTypeOK' /\ StagesAreBacked'
<1> DEFINE i == IssueOf(o)
<1>0. /\ i \in Issues
      /\ opening \in [Openings -> OpeningStages]
      /\ row[i] # None => row[i] \in Row
  BY ExecutionsAssumption DEF TriageTypeOK
<1> USE NoneAssumption DEF triageVars, feedbackVars
<1>1. CASE Scan(o)
  BY <1>0, <1>1 DEF TriageTypeOK, StagesAreBacked, Scan, OpeningStages, AfterClaim, CommentsOn
<1>2. CASE Claim(o)
  <2>1. CASE Claimable(i)
    <3> DEFINE r == [delivery |-> DeliveryOf(o), count |-> "null", old |-> FALSE,
                     comment |-> IF row[i] = None THEN None ELSE row[i].comment]
    <3>1. r.comment \in {None} \cup CommentsOn(i) /\ r.comment \in Openings \cup {None}
      BY <1>0 DEF TriageTypeOK, CommentsOn
    <3>2. r \in Row
      BY <3>1 DEF Row, Counts
    <3>3. row' = [row EXCEPT ![i] = r] /\ posted' = posted
      BY <1>2, <2>1 DEF Claim
    <3> HIDE DEF r
    <3>4. /\ row' \in [Issues -> Row \cup {None}]
          /\ \A j \in Issues : row'[j] # None => row'[j].comment \in {None} \cup CommentsOn(j)'
          /\ \A j \in Issues : row[j] # None => row'[j] # None
          /\ row'[i] # None
      BY <1>0, <3>1, <3>2, <3>3, RowWrite
    <3> QED
      BY <1>0, <1>2, <2>1, <3>3, <3>4, ExecutionsAssumption
         DEF TriageTypeOK, StagesAreBacked, Claim, OpeningStages, AfterClaim
  <2>2. CASE ~Claimable(i)
    BY <1>0, <1>2, <2>2 DEF TriageTypeOK, StagesAreBacked, Claim, OpeningStages, AfterClaim, CommentsOn
  <2> QED
    BY <2>1, <2>2
<1>3. ASSUME NEW found \in {"zero", "some"}, Record(o, found)
      PROVE  TriageTypeOK' /\ StagesAreBacked'
  <2>1. CASE Holds(o) /\ row[i].count = "null"
    <3> DEFINE r == [row[i] EXCEPT !.count = found]
    <3>1. row[i] \in Row
      BY <1>0, <1>3 DEF Record, StagesAreBacked, AfterClaim
    <3>2. r \in Row /\ r.comment = row[i].comment
      BY <3>1 DEF Row, Counts
    <3>3. row' = [row EXCEPT ![i] = r] /\ posted' = posted
      BY <1>3, <2>1 DEF Record
    <3> HIDE DEF r
    <3>4. r.comment \in {None} \cup CommentsOn(i)
      BY <1>0, <3>1, <3>2 DEF TriageTypeOK
    <3>5. /\ row' \in [Issues -> Row \cup {None}]
          /\ \A j \in Issues : row'[j] # None => row'[j].comment \in {None} \cup CommentsOn(j)'
          /\ \A j \in Issues : row[j] # None => row'[j] # None
          /\ row'[i] # None
      BY <1>0, <3>2, <3>3, <3>4, RowWrite
    <3> QED
      BY <1>0, <1>3, <2>1, <3>3, <3>5, ExecutionsAssumption
         DEF TriageTypeOK, StagesAreBacked, Record, OpeningStages, AfterClaim
  <2>2. CASE ~(Holds(o) /\ row[i].count = "null")
    BY <1>0, <1>3, <2>2 DEF TriageTypeOK, StagesAreBacked, Record, OpeningStages, AfterClaim, CommentsOn
  <2> QED
    BY <2>1, <2>2
<1>4. CASE Confirm(o)
  BY <1>0, <1>4 DEF TriageTypeOK, StagesAreBacked, Confirm, OpeningStages, AfterClaim, CommentsOn
<1>5. CASE Post(o)
  BY <1>0, <1>5 DEF TriageTypeOK, StagesAreBacked, Post, OpeningStages, AfterClaim, CommentsOn
<1>6. CASE StoreCommentId(o)
  <2>1. CASE row' = [row EXCEPT ![i].comment = o]
    <3> DEFINE r == [row[i] EXCEPT !.comment = o]
    <3>1. row[i] \in Row
      BY <1>0, <1>6 DEF StoreCommentId, StagesAreBacked, AfterClaim
    <3>2. r \in Row /\ r.comment = o
      BY <3>1 DEF Row
    <3>3. row' = [row EXCEPT ![i] = r] /\ posted' = posted
      BY <1>6, <2>1 DEF StoreCommentId
    <3> HIDE DEF r
    <3>4. r.comment \in {None} \cup CommentsOn(i)
      BY <1>0, <1>6, <3>2 DEF TriageTypeOK, StoreCommentId, CommentsOn
    <3>5. /\ row' \in [Issues -> Row \cup {None}]
          /\ \A j \in Issues : row'[j] # None => row'[j].comment \in {None} \cup CommentsOn(j)'
          /\ \A j \in Issues : row[j] # None => row'[j] # None
          /\ row'[i] # None
      BY <1>0, <3>2, <3>3, <3>4, RowWrite
    <3> QED
      BY <1>0, <1>6, <3>3, <3>5, ExecutionsAssumption
         DEF TriageTypeOK, StagesAreBacked, StoreCommentId, OpeningStages, AfterClaim
  <2>2. CASE row' = row
    BY <1>0, <1>6, <2>2 DEF TriageTypeOK, StagesAreBacked, StoreCommentId, OpeningStages, AfterClaim,
                            CommentsOn
  <2> QED
    BY <1>6, <2>1, <2>2 DEF StoreCommentId
<1>7. CASE Label(o)
  BY <1>0, <1>7 DEF TriageTypeOK, StagesAreBacked, Label, OpeningStages, AfterClaim, CommentsOn,
                    Labels
<1>8. CASE StopOpening(o)
  BY <1>0, <1>8 DEF TriageTypeOK, StagesAreBacked, StopOpening, OpeningStages, AfterClaim,
                    CommentsOn
<1> QED
  BY <1>1, <1>2, <1>3, <1>4, <1>5, <1>6, <1>7, <1>8 DEF OpeningStep

LEMMA IssueTypes ==
  ASSUME TriageTypeOK, StagesAreBacked, NEW i \in Issues, CooldownEnds(i) \/ PersonLabels(i)
  PROVE  TriageTypeOK' /\ StagesAreBacked'
<1> USE NoneAssumption DEF triageVars, feedbackVars
<1>1. CASE CooldownEnds(i)
  <2> DEFINE r == [row[i] EXCEPT !.old = TRUE]
  <2>1. row[i] \in Row
    BY <1>1 DEF CooldownEnds, TriageTypeOK
  <2>2. r \in Row /\ r.comment = row[i].comment
    BY <2>1 DEF Row
  <2>3. row' = [row EXCEPT ![i] = r] /\ posted' = posted
    BY <1>1 DEF CooldownEnds
  <2> HIDE DEF r
  <2>4. r.comment \in {None} \cup CommentsOn(i)
    BY <2>1, <2>2, NoneAssumption DEF TriageTypeOK
  <2> QED
    BY <1>1, <2>2, <2>3, <2>4, RowWrite, ExecutionsAssumption
       DEF TriageTypeOK, StagesAreBacked, CooldownEnds, AfterClaim
<1>2. CASE PersonLabels(i)
  BY <1>2 DEF TriageTypeOK, StagesAreBacked, PersonLabels, CommentsOn, AfterClaim, Labels
<1> QED
  BY <1>1, <1>2

LEMMA ClosingTypes ==
  ASSUME TriageTypeOK, StagesAreBacked, NEW c \in Closings, ClosingStep(c)
  PROVE  TriageTypeOK' /\ StagesAreBacked'
<1> DEFINE i == IssueOf(c)
           d == DeliveryOf(c)
<1>0. /\ i \in Issues
      /\ d \in Deliveries
      /\ closing[c] \in Closing
      /\ row[i] # None => row[i] \in Row
      /\ labels[i] \in SUBSET Labels
      /\ OverClosing \in Closing /\ OverClosing.stage = "over"
  BY ExecutionsAssumption DEF TriageTypeOK, Deliveries, OverClosing, IdleClosing, Closing
<1> USE NoneAssumption DEF triageVars, feedbackVars
<1>1. ASSUME NEW reason \in Reasons, PersonCloses(c, reason)
      PROVE  TriageTypeOK' /\ StagesAreBacked'
  BY <1>0, <1>1 DEF TriageTypeOK, StagesAreBacked, PersonCloses, CommentsOn, AfterClaim, Payload,
                    Deliveries
<1>2. CASE LookUp(c)
  BY <1>0, <1>2 DEF TriageTypeOK, StagesAreBacked, LookUp, CommentsOn, AfterClaim, Closing
<1>3. CASE Insert(c)
  <2>1. payload[d] # None
    BY <1>3 DEF Insert, StagesAreBacked
  <2>2. Confirmed(payload[d]) \in BOOLEAN
    BY DEF Confirmed
  <2>3. UNCHANGED <<row, opening, posted, labels, payload, learner, taught, untimely, told>>
    BY <1>3 DEF Insert
  <2>4. \E k \in Closing :
          /\ closing' = [closing EXCEPT ![c] = k]
          /\ k.stage \in {"observing", "over"}
    <3>1. [closing[c] EXCEPT !.stage = "observing"] \in Closing
      BY <1>0 DEF Closing
    <3>2. OverClosing \in Closing /\ OverClosing.stage = "over"
      BY <1>0
    <3>3. \/ closing' = [closing EXCEPT ![c] = [closing[c] EXCEPT !.stage = "observing"]]
          \/ closing' = [closing EXCEPT ![c] = OverClosing]
      BY <1>3 DEF Insert
    <3>4. [closing[c] EXCEPT !.stage = "observing"].stage = "observing"
      BY <1>0 DEF Closing
    <3> QED
      BY <3>1, <3>2, <3>3, <3>4
  <2>5. outcome' \in [Issues -> Outcome \cup {None}]
    <3> DEFINE new == [linked |-> closing[c].linked, predicted |-> closing[c].predicted,
                       confirmed |-> Confirmed(payload[d]),
                       commented |-> closing[c].commented]
    <3>1. new \in Outcome
      BY <1>0, <2>2 DEF Closing, Outcome
    <3>2. outcome' = [outcome EXCEPT ![i] = new] \/ outcome' = outcome
      BY <1>3 DEF Insert
    <3> HIDE DEF new
    <3> QED
      BY <3>1, <3>2 DEF TriageTypeOK
  <2>6. TriageTypeOK'
    BY <2>3, <2>4, <2>5 DEF TriageTypeOK, CommentsOn
  <2>7. StagesAreBacked'
    BY <2>1, <2>3, <2>4 DEF TriageTypeOK, StagesAreBacked
  <2> QED
    BY <2>6, <2>7
<1>4. CASE Observe(c)
  BY <1>0, <1>4 DEF TriageTypeOK, StagesAreBacked, Observe, CommentsOn, AfterClaim
<1>5. CASE StopClosing(c)
  BY <1>0, <1>5 DEF TriageTypeOK, StagesAreBacked, StopClosing, CommentsOn, AfterClaim
<1> QED
  BY <1>1, <1>2, <1>3, <1>4, <1>5 DEF ClosingStep

-----------------------------------------------------------------------------
(* The claims.                                                             *)

\* What Claim writes is a row.
LEMMA ClaimWritesARow ==
  ASSUME NEW delivery \in {DeliveryOf(o) : o \in Openings}, NEW comment \in Openings \cup {None}
  PROVE  [delivery |-> delivery, count |-> "null", old |-> FALSE, comment |-> comment] # None
<1>1. [delivery |-> delivery, count |-> "null", old |-> FALSE, comment |-> comment] \in Row
  BY DEF Row, Counts
<1> QED
  BY <1>1, NoneAssumption

LEMMA OpeningClaims ==
  ASSUME TriageTypeOK, StagesAreBacked, ClaimInv, NEW o \in Openings, OpeningStep(o)
  PROVE  ClaimInv'
<1> DEFINE i == IssueOf(o)
<1>0. /\ \A p \in Openings : IssueOf(p) \in Issues
      /\ opening \in [Openings -> OpeningStages]
      /\ row \in [Issues -> Row \cup {None}]
      /\ \A j \in Issues : row[j] # None => row[j] \in Row
      /\ posted \subseteq Openings
      /\ \A p \in Openings : opening[p] \in AfterClaim => row[IssueOf(p)] # None
  BY ExecutionsAssumption DEF TriageTypeOK, StagesAreBacked
<1> USE NoneAssumption DEF triageVars, feedbackVars
<1>1. CASE Scan(o)
  BY <1>0, <1>1 DEF Scan, CommentsOn, ClaimInv, ClaimHolds, OneClaimant, NotYetPosted, LateClaimFails,
     CountIsRecorded, Held, Timely, AfterClaim, BeforeComment
<1>2. CASE Claim(o)
  <2>1. CASE Claimable(i)
    <3>1. /\ row'[i] # None /\ ~row'[i].old
          /\ \A j \in Issues : j # i => row'[j] = row[j]
      <4> DEFINE comment == IF row[i] = None THEN None ELSE row[i].comment
                 r == [delivery |-> DeliveryOf(o), count |-> "null", old |-> FALSE,
                       comment |-> comment]
      <4>1. row' = [row EXCEPT ![i] = r]
        BY <1>2, <2>1 DEF Claim
      <4>2. comment \in Openings \cup {None}
        BY <1>0 DEF Row
      <4> HIDE DEF comment
      <4>3. r # None
        BY <4>2, ClaimWritesARow
      <4>4. ~r.old
        OBVIOUS
      <4> HIDE DEF r
      <4> QED
        BY <1>0, <4>1, <4>3, <4>4
    <3>2. /\ opening' = [opening EXCEPT ![o] = "detecting"]
          /\ opening[o] = "claiming"
          /\ posted' = posted /\ untimely' = untimely
      BY <1>2, <2>1 DEF Claim
    <3>3. Timely(i) => /\ \A p \in Openings : IssueOf(p) = i => opening[p] \notin AfterClaim
                       /\ \A p \in posted : IssueOf(p) # i
      BY <1>0, <2>1, <3>2 DEF Claimable, ClaimInv, ClaimHolds, LateClaimFails, Held
    <3>4. \A p \in Openings : p # o => opening'[p] = opening[p]
      BY <1>0, <3>2
    <3>5. opening'[o] = "detecting"
      BY <1>0, <3>2
    <3>6. \A j \in Issues : Held(j) => Held(j)'
      BY <3>1 DEF Held
    <3>7. ClaimHolds' /\ LateClaimFails'
      BY <1>0, <3>1, <3>2, <3>4, <3>5, <3>6
         DEF ClaimInv, ClaimHolds, LateClaimFails, Timely, Held, AfterClaim
    <3>8. OneClaimant' /\ NotYetPosted'
      BY <1>0, <3>2, <3>3, <3>4, <3>5
         DEF ClaimInv, OneClaimant, NotYetPosted, Timely, AfterClaim, BeforeComment
    <3>9. CountIsRecorded'
      BY <1>0, <3>1, <3>2, <3>3, <3>4, <3>5 DEF ClaimInv, CountIsRecorded, Timely, AfterClaim
    <3> QED
      BY <3>7, <3>8, <3>9 DEF ClaimInv
  <2>2. CASE ~Claimable(i)
    BY <1>0, <1>2, <2>2 DEF Claim, ClaimInv, ClaimHolds, OneClaimant, NotYetPosted, LateClaimFails,
     CountIsRecorded, Held, Timely, AfterClaim, BeforeComment
  <2> QED
    BY <2>1, <2>2
<1>3. ASSUME NEW found \in {"zero", "some"}, Record(o, found)
      PROVE  ClaimInv'
  <2>1. CASE Holds(o) /\ row[i].count = "null"
    <3>1. /\ row[i] \in Row
          /\ row' = [row EXCEPT ![i] = [row[i] EXCEPT !.count = found]]
      BY <1>0, <1>3, <2>1 DEF Record, AfterClaim
    <3>2. [row[i] EXCEPT !.count = found] \in Row
      BY <3>1 DEF Row, Counts
    <3>3. row'[i] # None /\ row'[i].old = row[i].old /\ row'[i].count = found
      BY <1>0, <3>1, <3>2 DEF Row
    <3>4. \A j \in Issues : j # i => row'[j] = row[j]
      BY <1>0, <3>1
    <3>5. /\ opening' = [opening EXCEPT ![o] = IF found = "some" THEN "recorded" ELSE "over"]
          /\ opening[o] = "detecting"
          /\ posted' = posted /\ untimely' = untimely
      BY <1>3, <2>1 DEF Record
    <3>6. \A p \in Openings : p # o => opening'[p] = opening[p]
      BY <1>0, <3>5
    <3>7. opening'[o] \in {"recorded", "over"} /\ (opening'[o] = "recorded" => found = "some")
      BY <1>0, <3>5
    <3>8. \A j \in Issues : Held(j) => Held(j)'
      BY <3>1, <3>3, <3>4 DEF Held
    <3>9. ClaimHolds' /\ LateClaimFails'
      BY <1>0, <3>5, <3>6, <3>7, <3>8 DEF ClaimInv, ClaimHolds, LateClaimFails, Timely, AfterClaim
    <3>10. OneClaimant' /\ NotYetPosted'
      BY <1>0, <3>5, <3>6, <3>7
         DEF ClaimInv, OneClaimant, NotYetPosted, Timely, BeforeComment
    <3>11. CountIsRecorded'
      BY <1>0, <2>1, <3>3, <3>4, <3>5, <3>6, <3>7 DEF ClaimInv, CountIsRecorded, Timely
    <3> QED
      BY <3>9, <3>10, <3>11 DEF ClaimInv
  <2>2. CASE ~(Holds(o) /\ row[i].count = "null")
    BY <1>0, <1>3, <2>2 DEF Record, ClaimInv, ClaimHolds, OneClaimant, NotYetPosted, LateClaimFails,
     CountIsRecorded, Held, Timely, AfterClaim, BeforeComment
  <2> QED
    BY <2>1, <2>2
<1>4. CASE Confirm(o)
  BY <1>0, <1>4 DEF Confirm, Holds, ClaimInv, ClaimHolds, OneClaimant, NotYetPosted, LateClaimFails,
     CountIsRecorded, Held, Timely, AfterClaim, BeforeComment
<1>5. CASE Post(o)
  BY <1>0, <1>5 DEF Post, ClaimInv, ClaimHolds, OneClaimant, NotYetPosted, LateClaimFails,
     CountIsRecorded, Held, Timely, AfterClaim, BeforeComment
<1>6. CASE StoreCommentId(o)
  BY <1>0, <1>6 DEF StoreCommentId, Row, ClaimInv, ClaimHolds, OneClaimant, NotYetPosted, LateClaimFails,
     CountIsRecorded, Held, Timely, AfterClaim, BeforeComment
<1>7. CASE Label(o)
  BY <1>0, <1>7 DEF Label, ClaimInv, ClaimHolds, OneClaimant, NotYetPosted, LateClaimFails,
     CountIsRecorded, Held, Timely, AfterClaim, BeforeComment
<1>8. CASE StopOpening(o)
  BY <1>0, <1>8 DEF StopOpening, ClaimInv, ClaimHolds, OneClaimant, NotYetPosted, LateClaimFails,
     CountIsRecorded, Held, Timely, AfterClaim, BeforeComment
<1> QED
  BY <1>1, <1>2, <1>3, <1>4, <1>5, <1>6, <1>7, <1>8 DEF OpeningStep

LEMMA IssueClaims ==
  ASSUME TriageTypeOK, StagesAreBacked, ClaimInv, NEW i \in Issues,
         CooldownEnds(i) \/ PersonLabels(i)
  PROVE  ClaimInv'
<1>0. /\ \A p \in Openings : IssueOf(p) \in Issues
      /\ row \in [Issues -> Row \cup {None}]
      /\ \A j \in Issues : row[j] # None => row[j] \in Row
      /\ posted \subseteq Openings
  BY ExecutionsAssumption DEF TriageTypeOK
<1> USE NoneAssumption DEF triageVars, feedbackVars
<1>1. CASE CooldownEnds(i)
  <2>1. UNCHANGED <<opening, posted>> /\ untimely \subseteq untimely'
    BY <1>1 DEF CooldownEnds
  <2>2. /\ row[i] # None
        /\ \A j \in Issues : j # i => row'[j] = row[j]
        /\ row'[i] # None /\ row'[i].count = row[i].count
    <3>1. row[i] \in Row
      BY <1>0, <1>1 DEF CooldownEnds
    <3>2. [row[i] EXCEPT !.old = TRUE] \in Row
      BY <3>1 DEF Row
    <3> QED
      BY <1>0, <1>1, <3>1, <3>2 DEF CooldownEnds, Row
  <2>3. \A p \in Openings : IssueOf(p) = i /\ UnderWay(p) => ~Timely(i)'
    BY <1>1 DEF CooldownEnds, Timely
  <2>4. \A p \in Openings : Timely(IssueOf(p))' => Timely(IssueOf(p))
    BY <2>1 DEF Timely
  <2>5. \A p \in Openings :
          UnderWay(p) /\ Timely(IssueOf(p))' => row'[IssueOf(p)] = row[IssueOf(p)]
    BY <1>0, <2>2, <2>3
  <2>6. ClaimHolds' /\ LateClaimFails'
    BY <2>1, <2>4, <2>5
       DEF UnderWay, ClaimInv, ClaimHolds, LateClaimFails, Held, AfterClaim
  <2>7. OneClaimant' /\ NotYetPosted'
    BY <1>0, <2>1, <2>4 DEF ClaimInv, OneClaimant, NotYetPosted
  <2>8. CountIsRecorded'
    BY <1>0, <2>1, <2>2, <2>4 DEF ClaimInv, CountIsRecorded
  <2> QED
    BY <2>6, <2>7, <2>8 DEF ClaimInv
<1>2. CASE PersonLabels(i)
  BY <1>0, <1>2 DEF PersonLabels, ClaimInv, ClaimHolds, OneClaimant, NotYetPosted, LateClaimFails,
     CountIsRecorded, Held, Timely, AfterClaim, BeforeComment
<1> QED
  BY <1>1, <1>2

-----------------------------------------------------------------------------
(* The feedback.                                                           *)

\* What the handler of issues.opened and its cooldown do leaves it true.
LEMMA OpeningFeedback ==
  ASSUME TriageTypeOK, FeedbackInv, NEW o \in Openings, OpeningStep(o)
  PROVE  FeedbackInv'
<1>1. /\ UNCHANGED <<payload, closing, outcome, told>>
      /\ untimely \subseteq untimely' /\ posted \subseteq posted'
      /\ \/ labels' = labels
         \/ /\ labels' = [labels EXCEPT ![IssueOf(o)] = @ \cup {DuplicateLabel}]
            /\ o \in posted
  BY DEF OpeningStep, Scan, Claim, Record, Confirm, Post, StoreCommentId, Label, StopOpening,
         feedbackVars, TriageTypeOK
<1>2. \A i \in Issues : SpokenFor(i) => SpokenFor(i)'
  BY <1>1 DEF SpokenFor, CommentsOn
<1>3. PeopleSpoke'
  <2>1. \A i \in Issues : "duplicate" \in labels'[i] => SpokenFor(i)'
    <3>1. CASE labels' = labels
      BY <1>2, <3>1 DEF FeedbackInv, PeopleSpoke
    <3>2. CASE /\ labels' = [labels EXCEPT ![IssueOf(o)] = @ \cup {DuplicateLabel}]
               /\ o \in posted
      <4>1. DuplicateLabel = "duplicate" => SpokenFor(IssueOf(o))
        BY <3>2 DEF SpokenFor, CommentsOn
      <4>2. \A i \in Issues : "duplicate" \in labels'[i] =>
              "duplicate" \in labels[i] \/ (i = IssueOf(o) /\ DuplicateLabel = "duplicate")
        BY <3>2 DEF TriageTypeOK
      <4> QED
        BY <1>2, <4>1, <4>2 DEF FeedbackInv, PeopleSpoke
    <3> QED
      BY <1>1, <3>1, <3>2
  <2> QED
    BY <1>1, <1>2, <2>1, ExecutionsAssumption DEF FeedbackInv, PeopleSpoke, Confirmed
<1>4. LookUpIsTrue'
  BY <1>1 DEF FeedbackInv, LookUpIsTrue, Timely
<1>5. FeedbackIsTrue'
  BY <1>1, <1>2 DEF FeedbackInv, FeedbackIsTrue, SpokenFor, CommentsOn, Timely
<1> QED
  BY <1>3, <1>4, <1>5 DEF FeedbackInv

LEMMA IssueFeedback ==
  ASSUME TriageTypeOK, FeedbackInv, NEW i \in Issues, CooldownEnds(i) \/ PersonLabels(i)
  PROVE  FeedbackInv'
<1>1. /\ UNCHANGED <<payload, closing, outcome, posted>>
      /\ untimely \subseteq untimely'
      /\ told \subseteq told'
      /\ \/ labels' = labels
         \/ labels' = [labels EXCEPT ![i] = @ \cup {"duplicate"}] /\ i \in told'
  BY DEF CooldownEnds, PersonLabels, feedbackVars, triageVars
<1>2. PeopleSpoke'
  BY <1>1 DEF FeedbackInv, PeopleSpoke, SpokenFor, CommentsOn, Confirmed, TriageTypeOK
<1>3. LookUpIsTrue' /\ FeedbackIsTrue'
  BY <1>1 DEF FeedbackInv, LookUpIsTrue, FeedbackIsTrue, CommentsOn, Timely
<1> QED
  BY <1>2, <1>3 DEF FeedbackInv

LEMMA ClosingFeedback ==
  ASSUME TriageTypeOK, StagesAreBacked, ClaimInv, FeedbackInv,
         NEW c \in Closings, ClosingStep(c)
  PROVE  FeedbackInv'
<1> DEFINE i == IssueOf(c)
           d == DeliveryOf(c)
<1>0. /\ i \in Issues /\ d \in Deliveries
      /\ payload \in [Deliveries -> Payload \cup {None}]
      /\ closing \in [Closings -> Closing]
      /\ outcome \in [Issues -> Outcome \cup {None}]
      /\ OverClosing.stage = "over"
      /\ \A b \in Closings : IssueOf(b) \in Issues /\ DeliveryOf(b) \in Deliveries
      /\ \A b \in Closings : DeliveryOf(b) = d => IssueOf(b) = i
  BY ExecutionsAssumption DEF TriageTypeOK, Deliveries, OverClosing, IdleClosing
<1> USE DEF triageVars, feedbackVars
<1>1. ASSUME NEW reason \in Reasons, PersonCloses(c, reason)
      PROVE  FeedbackInv'
  <2>1. /\ told \subseteq told' /\ (reason = "duplicate" => i \in told')
        /\ posted' = posted
        /\ \A j : SpokenFor(j) => SpokenFor(j)'
    BY <1>1 DEF PersonCloses, SpokenFor, CommentsOn
  <2>2. PeopleSpoke'
    <3>1. ASSUME NEW b \in Closings, payload'[DeliveryOf(b)] # None,
                 Confirmed(payload'[DeliveryOf(b)])
          PROVE  SpokenFor(IssueOf(b))'
      <4>1. CASE DeliveryOf(b) = d
        <5>1. payload'[d] = [reason |-> reason, labels |-> labels[i]]
          BY <1>0, <1>1 DEF PersonCloses
        <5>2. IssueOf(b) = i
          BY <1>0, <4>1
        <5>3. CASE reason = "duplicate"
          BY <2>1, <5>2, <5>3 DEF SpokenFor
        <5>4. CASE reason # "duplicate"
          BY <1>0, <2>1, <3>1, <4>1, <5>1, <5>2, <5>4 DEF Confirmed, FeedbackInv, PeopleSpoke
        <5> QED
          BY <5>3, <5>4
      <4>2. CASE DeliveryOf(b) # d
        BY <1>0, <1>1, <2>1, <3>1, <4>2 DEF PersonCloses, FeedbackInv, PeopleSpoke
      <4> QED
        BY <4>1, <4>2
    <3> QED
      BY <1>1, <2>1, <3>1 DEF PersonCloses, FeedbackInv, PeopleSpoke, Confirmed
  <2> QED
    BY <1>1, <2>1, <2>2
       DEF PersonCloses, FeedbackInv, LookUpIsTrue, FeedbackIsTrue, CommentsOn, Timely
<1>2. CASE LookUp(c)
  <2>1. CommentsOn(i) # {} /\ Timely(i) => row[i] # None /\ row[i].count = "some"
    BY DEF ClaimInv, CountIsRecorded, CommentsOn
  <2>2. PeopleSpoke' /\ FeedbackIsTrue'
    BY <1>2 DEF LookUp, FeedbackInv, PeopleSpoke, SpokenFor, CommentsOn, FeedbackIsTrue, Timely,
                Confirmed
  <2>3. LookUpIsTrue'
    BY <1>0, <1>2, <2>1 DEF LookUp, FeedbackInv, LookUpIsTrue, Timely
  <2> QED
    BY <2>2, <2>3 DEF FeedbackInv
<1>3. CASE Insert(c)
  <2>1. PeopleSpoke' /\ LookUpIsTrue'
    <3>1. \A b \in Closings : b # c => closing'[b] = closing[b]
      BY <1>0, <1>3 DEF Insert
    <3>2. closing'[c].stage # "inserting"
      BY <1>0, <1>3 DEF Insert, Closing
    <3>3. /\ UNCHANGED payload /\ UNCHANGED labels /\ UNCHANGED told
          /\ UNCHANGED untimely /\ UNCHANGED posted
      BY <1>3 DEF Insert
    <3> QED
      BY <3>1, <3>2, <3>3
         DEF FeedbackInv, PeopleSpoke, SpokenFor, CommentsOn, LookUpIsTrue, Timely, Confirmed
  <2>2. /\ closing[c].commented /\ Timely(i) => closing[c].predicted
        /\ Confirmed(payload[d]) => SpokenFor(i)
    BY <1>3 DEF Insert, FeedbackInv, PeopleSpoke, LookUpIsTrue, StagesAreBacked
  <2>3. FeedbackIsTrue'
    BY <1>0, <1>3, <2>2 DEF Insert, FeedbackInv, FeedbackIsTrue, SpokenFor, CommentsOn, Timely
  <2> QED
    BY <2>1, <2>3 DEF FeedbackInv
<1>4. CASE Observe(c) \/ StopClosing(c)
  BY <1>0, <1>4 DEF Observe, StopClosing, FeedbackInv, PeopleSpoke, SpokenFor, CommentsOn,
                    LookUpIsTrue, FeedbackIsTrue, Timely, Confirmed
<1> QED
  BY <1>1, <1>2, <1>3, <1>4 DEF ClosingStep

-----------------------------------------------------------------------------
(* The learner.                                                            *)

LEMMA ClosingLearner ==
  ASSUME TriageTypeOK, LearnerInv, NEW c \in Closings, ClosingStep(c)
  PROVE  LearnerInv'
<1> DEFINE i == IssueOf(c)
<1>0. /\ closing \in [Closings -> Closing]
      /\ outcome \in [Issues -> Outcome \cup {None}]
      /\ learner \in [right : Nat, wrong : Nat]
      /\ taught \subseteq Closings
      /\ OverClosing.stage = "over"
      /\ \A b \in Closings : IssueOf(b) \in Issues
  BY ExecutionsAssumption DEF TriageTypeOK, OverClosing, IdleClosing
<1> USE DEF triageVars, feedbackVars
<1>1. ASSUME NEW reason \in Reasons, PersonCloses(c, reason)
      PROVE  LearnerInv'
  BY <1>1 DEF PersonCloses, LearnerInv, OneTeacher, Teachers, TaughtOncePerIssue
<1>2. CASE LookUp(c)
  BY <1>0, <1>2 DEF LookUp, LearnerInv, OneTeacher, Teachers, TaughtOncePerIssue
<1>3. CASE Insert(c)
  <2>1. CASE outcome[i] = None
    <3> DEFINE r == [linked |-> closing[c].linked, predicted |-> closing[c].predicted,
                     confirmed |-> Confirmed(payload[DeliveryOf(c)]),
                     commented |-> closing[c].commented]
    <3>1. /\ outcome' = [outcome EXCEPT ![i] = r]
          /\ learner' = learner /\ taught' = taught
          /\ \A b \in Closings : b # c => closing'[b] = closing[b]
      BY <1>0, <1>3, <2>1 DEF Insert
    <3>2. r # None
      <4>1. closing[c] \in Closing /\ Confirmed(payload[DeliveryOf(c)]) \in BOOLEAN
        BY <1>0 DEF Confirmed
      <4> QED
        BY <4>1, NoneAssumption DEF Closing, Outcome
    <3> HIDE DEF r
    <3>3. \A b \in Teachers : IssueOf(b) # i
      BY <2>1 DEF LearnerInv, OneTeacher
    <3>4. c \notin taught
      BY <3>3 DEF Teachers
    <3>5. \A b \in Closings : outcome[IssueOf(b)] # None \/ b = c => outcome'[IssueOf(b)] # None
      BY <1>0, <3>1, <3>2
    <3>6. Teachers' \subseteq Teachers \cup {c} /\ Teachers \subseteq Closings
      BY <3>1 DEF Teachers
    <3>7. OneTeacher'
      <4>1. \A b \in taught' : closing'[b].stage # "observing"
        BY <1>0, <3>1, <3>4 DEF LearnerInv, OneTeacher
      <4>2. IsFiniteSet(taught)'
        BY <3>1 DEF LearnerInv, OneTeacher
      <4>3. \A a, b \in Teachers' : IssueOf(a) = IssueOf(b) => a = b
        BY <3>3, <3>6 DEF LearnerInv, OneTeacher
      <4>4. \A b \in Teachers' : outcome'[IssueOf(b)] # None
        BY <3>5, <3>6 DEF LearnerInv, OneTeacher
      <4> QED
        BY <4>1, <4>2, <4>3, <4>4 DEF OneTeacher
    <3> QED
      BY <3>1, <3>7 DEF LearnerInv, TaughtOncePerIssue
  <2>2. CASE outcome[i] # None
    BY <1>0, <1>3, <2>2 DEF Insert, LearnerInv, OneTeacher, Teachers, TaughtOncePerIssue
  <2> QED
    BY <2>1, <2>2
<1>4. CASE Observe(c)
  <2> DEFINE predicted == closing[c].predicted
             confirmed == Confirmed(payload[DeliveryOf(c)])
  <2>0. /\ closing[c].stage = "observing"
        /\ c \notin taught
        /\ outcome' = outcome
        /\ closing'[c].stage = "over"
        /\ \A b \in Closings : b # c => closing'[b] = closing[b]
    BY <1>0, <1>4 DEF Observe, LearnerInv, OneTeacher
  <2>1. CASE predicted \/ confirmed
    <3>1. taught' = taught \cup {c}
      BY <1>4, <2>1 DEF Observe
    <3>2. \/ learner' = [learner EXCEPT !.right = @ + 1]
          \/ learner' = [learner EXCEPT !.wrong = @ + 1]
      BY <1>4, <2>1 DEF Observe
    <3>3. IsFiniteSet(taught') /\ Cardinality(taught') = Cardinality(taught) + 1
      BY <2>0, <3>1, FS_AddElement DEF LearnerInv, OneTeacher
    <3>4. learner'.right + learner'.wrong = learner.right + learner.wrong + 1
      BY <1>0, <3>2
    <3>5. OneTeacher'
      <4>1. Teachers' = Teachers
        BY <2>0, <3>1 DEF Teachers
      <4>2. \A b \in taught' : closing'[b].stage # "observing"
        BY <1>0, <2>0, <3>1 DEF LearnerInv, OneTeacher
      <4>3. \A b \in Teachers' : outcome'[IssueOf(b)] # None
        BY <2>0, <4>1 DEF LearnerInv, OneTeacher
      <4>4. \A a, b \in Teachers' : IssueOf(a) = IssueOf(b) => a = b
        BY <4>1 DEF LearnerInv, OneTeacher
      <4> QED
        BY <3>3, <4>2, <4>3, <4>4 DEF OneTeacher
    <3>6. \A a, b \in taught' : IssueOf(a) = IssueOf(b) => a = b
      BY <1>0, <2>0, <3>1 DEF LearnerInv, OneTeacher, Teachers
    <3> QED
      BY <3>3, <3>4, <3>5, <3>6 DEF LearnerInv, TaughtOncePerIssue
  <2>2. CASE ~(predicted \/ confirmed)
    <3>1. learner' = learner /\ taught' = taught
      BY <1>4, <2>2 DEF Observe
    <3>2. Teachers' \subseteq Teachers
      BY <2>0, <3>1 DEF Teachers
    <3>3. OneTeacher'
      <4>1. \A b \in taught' : closing'[b].stage # "observing"
        BY <1>0, <2>0, <3>1 DEF LearnerInv, OneTeacher
      <4>2. IsFiniteSet(taught)'
        BY <3>1 DEF LearnerInv, OneTeacher
      <4> QED
        BY <2>0, <3>2, <4>1, <4>2 DEF LearnerInv, OneTeacher
    <3> QED
      BY <3>1, <3>3 DEF LearnerInv, TaughtOncePerIssue
  <2> QED
    BY <2>1, <2>2
<1>5. CASE StopClosing(c)
  BY <1>0, <1>5 DEF StopClosing, LearnerInv, OneTeacher, Teachers, TaughtOncePerIssue
<1> QED
  BY <1>1, <1>2, <1>3, <1>4, <1>5 DEF ClosingStep

-----------------------------------------------------------------------------
(* Every step.                                                             *)

LEMMA NextTriageInv == TriageInv /\ [Next]_vars => TriageInv'
<1> SUFFICES ASSUME TriageInv, [Next]_vars
             PROVE  TriageInv'
  OBVIOUS
<1> USE DEF TriageInv
<1>1. ASSUME NEW o \in Openings, OpeningStep(o)
      PROVE  TriageInv'
  <2>1. UNCHANGED <<closing, outcome, learner, taught>>
    BY <1>1 DEF OpeningStep, Scan, Claim, Record, Confirm, Post, StoreCommentId, Label,
                StopOpening, feedbackVars
  <2>2. LearnerInv'
    BY <2>1 DEF LearnerInv, OneTeacher, Teachers, TaughtOncePerIssue
  <2> QED
    BY <1>1, <2>2, OpeningTypes, OpeningClaims, OpeningFeedback
<1>2. ASSUME NEW i \in Issues, CooldownEnds(i) \/ PersonLabels(i)
      PROVE  TriageInv'
  <2>1. UNCHANGED <<closing, outcome, learner, taught>>
    BY <1>2 DEF CooldownEnds, PersonLabels, feedbackVars
  <2>2. LearnerInv'
    BY <2>1 DEF LearnerInv, OneTeacher, Teachers, TaughtOncePerIssue
  <2> QED
    BY <1>2, <2>2, IssueTypes, IssueClaims, IssueFeedback
<1>3. ASSUME NEW c \in Closings, ClosingStep(c)
      PROVE  TriageInv'
  <2>1. UNCHANGED <<row, opening, posted, untimely>>
    BY <1>3 DEF ClosingStep, PersonCloses, LookUp, Insert, Observe, StopClosing, triageVars
  <2>2. ClaimInv'
    BY <2>1 DEF ClaimInv, ClaimHolds, OneClaimant, NotYetPosted, LateClaimFails,
                CountIsRecorded, Held, Timely
  <2> QED
    BY <1>3, <2>2, ClosingTypes, ClosingFeedback, ClosingLearner
<1>4. CASE UNCHANGED vars
  <2>1. TriageTypeOK' /\ StagesAreBacked'
    BY <1>4 DEF vars, TriageTypeOK, StagesAreBacked, CommentsOn
  <2>2. ClaimInv'
    BY <1>4 DEF vars, ClaimInv, ClaimHolds, OneClaimant, NotYetPosted, LateClaimFails,
                CountIsRecorded, Held, Timely
  <2>3. FeedbackInv'
    BY <1>4 DEF vars, FeedbackInv, PeopleSpoke, SpokenFor, CommentsOn, LookUpIsTrue,
                FeedbackIsTrue, Timely, Confirmed
  <2>4. LearnerInv'
    BY <1>4 DEF vars, LearnerInv, OneTeacher, Teachers, TaughtOncePerIssue
  <2> QED
    BY <2>1, <2>2, <2>3, <2>4
<1> QED
  BY <1>1, <1>2, <1>3, <1>4 DEF Next

-----------------------------------------------------------------------------
(* The theorems.                                                           *)

\* The stored comment id and the stages of the handlers agree with GitHub in
\* every reachable state.
THEOREM TriageTypes == Spec => []TriageTypeOK
<1> QED
  BY InitTriageInv, NextTriageInv, PTL DEF Spec, TriageInv

\* However many executions of however many deliveries, an issue on which the
\* scan worked and no execution outlived the cooldown gets one comment.
THEOREM OneCommentPerIssue == Spec => []OneComment
<1>1. Init => OneComment
  BY DEF Init, OneComment
<1>2. TriageInv /\ OneComment /\ [Next]_vars => OneComment'
  <2> SUFFICES ASSUME TriageInv, OneComment, [Next]_vars
               PROVE  OneComment'
    OBVIOUS
  <2>1. ASSUME NEW o \in Openings, Post(o)
        PROVE  OneComment'
    <3>1. \A p \in posted : IssueOf(p) = IssueOf(o) => ~Timely(IssueOf(o))
      BY <2>1 DEF Post, TriageInv, ClaimInv, NotYetPosted, BeforeComment
    <3>2. posted' = posted \cup {o} /\ untimely' = untimely
      BY <2>1 DEF Post
    <3> QED
      BY <3>1, <3>2 DEF OneComment, Timely
  <2>2. CASE posted' = posted /\ untimely \subseteq untimely'
    BY <2>2 DEF OneComment, Timely
  <2>3. \/ \E o \in Openings : Post(o)
        \/ posted' = posted /\ untimely \subseteq untimely'
    BY DEF Next, vars, OpeningStep, Scan, Claim, Record, Confirm, StoreCommentId, Label,
           StopOpening, ClosingStep, PersonCloses, LookUp, Insert, Observe, StopClosing,
           CooldownEnds, PersonLabels, triageVars, feedbackVars
  <2> QED
    BY <2>1, <2>2, <2>3
<1> QED
  BY <1>1, <1>2, InitTriageInv, NextTriageInv, PTL DEF Spec

\* Whatever the order of triage, closure and people, the recorded outcome
\* agrees with the comment that stood on the issue and with what a person
\* said.
THEOREM FeedbackStaysTrue == Spec => []FeedbackIsTrue
<1> QED
  BY InitTriageInv, NextTriageInv, PTL DEF Spec, TriageInv, FeedbackInv

\* An issue teaches the learner once, by however many deliveries it is closed
\* and however often they are executed.
THEOREM OneLessonPerIssue == Spec => []TaughtOncePerIssue
<1> QED
  BY InitTriageInv, NextTriageInv, PTL DEF Spec, TriageInv, LearnerInv
=============================================================================
