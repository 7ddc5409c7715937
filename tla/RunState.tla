------------------------------ MODULE RunState ------------------------------
(***************************************************************************)
(* The run_state table of src/knowledge/store.ts: one row for each pair of *)
(* base and head commit of a pull request that a review was claimed for.   *)
(* The gate of src/handlers/review-run-state-gate.ts asks checkAndClaimRun *)
(* before an automatic review and lets the review go on if that fails; the *)
(* review then asks which head was reviewed last, and completes its run.   *)
(*                                                                         *)
(* checkAndClaimRun is a transaction at PostgreSQL's default isolation     *)
(* level: each statement sees what is committed when it starts, and an     *)
(* UPDATE waits for the rows that another transaction has changed and then *)
(* looks at them again.  runs holds the committed rows; what a transaction *)
(* changed is in its locked set until it commits.                          *)
(***************************************************************************)
EXTENDS Naturals, FiniteSets

CONSTANTS Heads,       \* (base, head) pairs of one pull request
          Deliveries   \* the events that ask for a review

ASSUME DeliveriesAssumption == IsFiniteSet(Deliveries)

VARIABLES runs,       \* head -> committed row
          delivery,   \* delivery -> its transaction and its review
          begun,      \* transactions so far; the order of now()
          reviewed    \* history: heads with a row that a review completed

vars == <<runs, delivery, begun, reviewed>>

\* How long ago created_at is: less than an hour, more, more than the 7 days,
\* or the 30 days, after which purgeOldRuns deletes.
Young == 0
HourOld == 1
WeekOld == 2
MonthOld == 3

Row == [status: {"pending", "completed", "superseded"},
        created: 1..Cardinality(Deliveries),
        age: Young..MonthOld]

\* via: how the gate let the review in; run: the row it holds; seen: the runs
\* pending when its transaction began (history).
Delivery == [head: Heads \cup {"none"},
             step: {"idle", "reclaiming", "superseding", "locking", "inserting",
                    "skipped", "reviewing", "working", "over"},
             created: 0..Cardinality(Deliveries),
             seen: SUBSET (1..Cardinality(Deliveries)),
             targets: SUBSET (1..Cardinality(Deliveries)),
             locked: SUBSET Heads,
             via: {"none", "claim", "conflict", "error"},
             run: 0..Cardinality(Deliveries),
             last: Heads \cup {"unasked", "none", "failed"}]

NoDelivery == [head |-> "none", step |-> "idle", created |-> 0, seen |-> {},
               targets |-> {}, locked |-> {}, via |-> "none", run |-> 0,
               last |-> "unasked"]

InTransaction(d) ==
  delivery[d].step \in {"reclaiming", "superseding", "locking", "inserting"}

\* Another transaction than that of d has changed the row of h.
Locked(h, d) == \E e \in Deliveries \ {d} : h \in delivery[e].locked

\* The end of the transaction of d, and where the handler goes from there.
EndTransaction(d, step, via, run) ==
  delivery' = [delivery EXCEPT ![d].step = step, ![d].via = via, ![d].run = run,
                               ![d].targets = {}, ![d].locked = {}]

-----------------------------------------------------------------------------
(* checkAndClaimRun *)

\* BEGIN and the SELECT of the row of h.
Begin(d, h) ==
  /\ delivery[d].step = "idle"
  /\ begun' = begun + 1
  /\ delivery' = [delivery EXCEPT ![d] =
       [NoDelivery EXCEPT
          !.head = h,
          !.created = begun + 1,
          !.seen = {runs[g].created : g \in {x \in DOMAIN runs : runs[x].status = "pending"}},
          !.step = IF h \notin DOMAIN runs THEN "superseding"
                   ELSE IF runs[h].status = "pending" THEN "reclaiming"
                   ELSE "skipped"]]
  /\ UNCHANGED <<runs, reviewed>>

\* Seeded faults for Reclaimable: a young run is taken over, or the status is
\* not looked at again.
ReclaimableAtOnce(h) == h \in DOMAIN runs /\ runs[h].status = "pending"
ReclaimableWhatever(h) == h \in DOMAIN runs /\ runs[h].age >= HourOld

\* The WHERE clause of the UPDATE for a stale pending run.
Reclaimable(h) ==
  /\ h \in DOMAIN runs
  /\ runs[h].status = "pending"
  /\ runs[h].age >= HourOld

\* That UPDATE and COMMIT; created_at stays what it was.
Reclaim(d) ==
  LET h == delivery[d].head
  IN /\ delivery[d].step = "reclaiming"
     /\ ~Locked(h, d)
     /\ IF Reclaimable(h)
        THEN /\ runs' = [runs EXCEPT ![h].status = "pending"]
             /\ EndTransaction(d, "reviewing", "claim", runs[h].created)
        ELSE /\ EndTransaction(d, "skipped", "none", 0)
             /\ UNCHANGED runs
     /\ UNCHANGED <<begun, reviewed>>

\* Seeded fault for SupersedeStarts: only completed runs are superseded.
SupersedeStartsCompleted(d) ==
  /\ delivery[d].step = "superseding"
  /\ delivery' = [delivery EXCEPT
       ![d].step = "locking",
       ![d].targets = {runs[g].created :
                         g \in {x \in DOMAIN runs : runs[x].status = "completed"}}]
  /\ UNCHANGED <<runs, begun, reviewed>>

\* The UPDATE that supersedes all other runs takes its snapshot.
SupersedeStarts(d) ==
  /\ delivery[d].step = "superseding"
  /\ delivery' = [delivery EXCEPT
       ![d].step = "locking",
       ![d].targets = {runs[g].created :
                         g \in {x \in DOMAIN runs : runs[x].status # "superseded"}}]
  /\ UNCHANGED <<runs, begun, reviewed>>

\* It gets the rows of its snapshot, those that still qualify.  Two claims that
\* wait for rows of each other deadlock, which is one of the errors below.
Supersede(d) ==
  LET rows == {g \in DOMAIN runs : runs[g].created \in delivery[d].targets}
  IN /\ delivery[d].step = "locking"
     /\ \A g \in rows : ~Locked(g, d)
     /\ delivery' = [delivery EXCEPT
          ![d].step = "inserting",
          ![d].locked = {g \in rows : runs[g].status # "superseded"}]
     /\ UNCHANGED <<runs, begun, reviewed>>

\* Seeded fault for NewRun: the status that RunStatus declares and no statement
\* of the store looks for.
NewRunRunning(d) ==
  [status |-> "running", created |-> delivery[d].created, age |-> Young]

\* The VALUES of the INSERT, with created_at by default.
NewRun(d) ==
  [status |-> "pending", created |-> delivery[d].created, age |-> Young]

\* INSERT and COMMIT.
Insert(d) ==
  LET h == delivery[d].head
  IN /\ delivery[d].step = "inserting"
     /\ h \notin DOMAIN runs
     /\ runs' = [g \in DOMAIN runs \cup {h} |->
                   IF g = h
                   THEN NewRun(d)
                   ELSE IF g \in delivery[d].locked
                   THEN [runs[g] EXCEPT !.status = "superseded"]
                   ELSE runs[g]]
     /\ EndTransaction(d, "reviewing", "claim", delivery[d].created)
     /\ UNCHANGED <<begun, reviewed>>

\* run_key is unique: the INSERT fails, the transaction rolls back and the
\* gate lets the review in.
InsertConflicts(d) ==
  /\ delivery[d].step = "inserting"
  /\ delivery[d].head \in DOMAIN runs
  /\ EndTransaction(d, "reviewing", "conflict", 0)
  /\ UNCHANGED <<runs, begun, reviewed>>

\* Any other error of the database does the same.
FailsOpen(d) ==
  /\ InTransaction(d)
  /\ EndTransaction(d, "reviewing", "error", 0)
  /\ UNCHANGED <<runs, begun, reviewed>>

-----------------------------------------------------------------------------
(* The review *)

CompletedHeads == {h \in DOMAIN runs : runs[h].status = "completed"}

\* The answers of getLastReviewedHeadSha: the completed run created last.
LastReviewed ==
  IF CompletedHeads = {} THEN {"none"}
  ELSE {h \in CompletedHeads :
          \A g \in CompletedHeads : runs[g].created <= runs[h].created}

\* Its call, which may fail, for the incremental diff.
LookUpLast(d) ==
  /\ delivery[d].step = "reviewing"
  /\ \E last \in LastReviewed \cup {"failed"} :
       delivery' = [delivery EXCEPT ![d].step = "working", ![d].last = last]
  /\ UNCHANGED <<runs, begun, reviewed>>

\* completeReviewRunFailOpen: whatever became of the row, if it is there.
CompleteRun(d) ==
  LET h == delivery[d].head
  IN /\ delivery[d].step = "working"
     /\ ~Locked(h, d)
     /\ IF h \in DOMAIN runs
        THEN /\ runs' = [runs EXCEPT ![h].status = "completed"]
             /\ reviewed' = reviewed \cup {h}
        ELSE UNCHANGED <<runs, reviewed>>
     /\ delivery' = [delivery EXCEPT ![d].step = "over"]
     /\ UNCHANGED begun

\* An early return, an exception, a completeRun that fails, or the end of the
\* process: an open transaction rolls back, a claimed run stays pending.
Stops(d) ==
  /\ delivery[d].step \notin {"idle", "skipped", "over"}
  /\ delivery' = [delivery EXCEPT ![d].step = "over", ![d].targets = {},
                                  ![d].locked = {}]
  /\ UNCHANGED <<runs, begun, reviewed>>

-----------------------------------------------------------------------------
(* Time and retention *)

\* Time passes; a run is never younger than one created after it.  now() is the
\* start of a transaction, and transactions are short against an hour.
Age(h) ==
  /\ \A d \in Deliveries : ~InTransaction(d)
  /\ h \in DOMAIN runs
  /\ runs[h].age < MonthOld
  /\ \A g \in DOMAIN runs :
       runs[g].created < runs[h].created => runs[g].age > runs[h].age
  /\ runs' = [runs EXCEPT ![h].age = @ + 1]
  /\ UNCHANGED <<delivery, begun, reviewed>>

RetentionOf(status) ==
  CASE status = "completed"  -> MonthOld
    [] status = "superseded" -> WeekOld
    [] status = "pending"    -> HourOld

\* One DELETE of purgeOldRuns, which every process runs when it starts.
Purge(status) ==
  LET old == {h \in DOMAIN runs : runs[h].status = status
                                  /\ runs[h].age >= RetentionOf(status)}
  IN /\ old # {}
     /\ \A h \in old : \A d \in Deliveries : h \notin delivery[d].locked
     /\ runs' = [h \in DOMAIN runs \ old |-> runs[h]]
     /\ reviewed' = reviewed \ old
     /\ UNCHANGED <<delivery, begun>>

Init ==
  /\ runs = << >>
  /\ delivery = [d \in Deliveries |-> NoDelivery]
  /\ begun = 0
  /\ reviewed = {}

Next ==
  \/ \E d \in Deliveries, h \in Heads : Begin(d, h)
  \/ \E d \in Deliveries : Reclaim(d)
  \/ \E d \in Deliveries : SupersedeStarts(d)
  \/ \E d \in Deliveries : Supersede(d)
  \/ \E d \in Deliveries : Insert(d)
  \/ \E d \in Deliveries : InsertConflicts(d)
  \/ \E d \in Deliveries : FailsOpen(d)
  \/ \E d \in Deliveries : LookUpLast(d)
  \/ \E d \in Deliveries : CompleteRun(d)
  \/ \E d \in Deliveries : Stops(d)
  \/ \E h \in Heads : Age(h)
  \/ \E status \in {"completed", "superseded", "pending"} : Purge(status)

Spec == Init /\ [][Next]_vars

-----------------------------------------------------------------------------
(* Properties *)

\* Rows and deliveries hold values of their types; created_at is unique.
TypeOK ==
  /\ DOMAIN runs \subseteq Heads
  /\ \A h \in DOMAIN runs : runs[h] \in Row
  /\ \A g, h \in DOMAIN runs : runs[g].created = runs[h].created => g = h
  /\ delivery \in [Deliveries -> Delivery]
  /\ begun \in 0..Cardinality(Deliveries)
  /\ reviewed \subseteq Heads

\* The reviews of head h that the gate let in, whichever way.
LetIn(h) == {d \in Deliveries : delivery[d].head = h /\ delivery[d].via # "none"}

\* Of all the reviews of a head whose run is less than an hour old, one made the
\* claim.  Every other was let in because its INSERT met that run or the
\* database failed, or began before the run did: its own run has been purged.
ExtraReviewsFailedOpen ==
  \A h \in DOMAIN runs : runs[h].age = Young =>
    \E d \in LetIn(h) :
      /\ delivery[d].run = runs[h].created
      /\ \A e \in LetIn(h) \ {d} :
           \/ delivery[e].via \in {"conflict", "error"}
           \/ delivery[e].created < runs[h].created

\* "different delivery IDs for same SHA pair are still duplicates" and "fresh
\* pending run for the same SHA pair remains a duplicate" (store.test.ts): while
\* the run of a head is young and the database answers, one review of it goes
\* on.  Two claims that both found no row break this.
OneReviewAtATime ==
  \A h \in DOMAIN runs : runs[h].age = Young =>
    Cardinality({d \in LetIn(h) : /\ delivery[d].via # "error"
                                  /\ delivery[d].step \in {"reviewing", "working"}}) <= 1

\* "force push supersedes prior runs": when a review gets a new run, none of
\* the runs that were pending as its transaction began is pending any more,
\* although other claims and completions ran in between.
ClaimSupersedesPrior ==
  [][\A d \in Deliveries :
       (/\ delivery[d].step = "inserting"
        /\ delivery'[d].via = "claim")
       => \A g \in DOMAIN runs' :
            runs'[g].created \in delivery[d].seen => runs'[g].status # "pending"]_vars

\* A run that was superseded or completed is not taken over as a stale pending
\* one: its status changed between the SELECT and the UPDATE of the claim.
NeverPendingAgain ==
  [][\A h \in DOMAIN runs \cap DOMAIN runs' :
       (/\ runs'[h].created = runs[h].created
        /\ runs[h].status # "pending")
       => runs'[h].status # "pending"]_vars

\* "If the PR was previously reviewed, only new/changed hunks are analyzed"
\* (architecture.md): a review whose pull request has another head with a
\* completed review finds a head to compare with.
IncrementalAfterReview ==
  [][\A d \in Deliveries :
       (delivery[d].last = "unasked" /\ delivery'[d].last = "none")
       => reviewed \subseteq {delivery[d].head}]_vars
=============================================================================
