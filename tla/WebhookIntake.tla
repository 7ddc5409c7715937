--------------------------- MODULE WebhookIntake ---------------------------
(***************************************************************************)
(* From the HTTP request of GitHub to the event router, over restarts:     *)
(* src/routes/webhooks.ts, webhook/dedup.ts, the tracker and the shutdown  *)
(* manager of src/lifecycle, the webhook_queue table                       *)
(* (lifecycle/webhook-queue-store.ts) and the replay that every process    *)
(* runs once when it starts (startStartupWebhookQueueReplay in index.ts).  *)
(*                                                                         *)
(* Instances of the service share the table and nothing else: the cache of *)
(* delivery ids, the tracker and the replay loop die with their process.   *)
(* A process serves, drains after a signal, and exits when its tracker is  *)
(* empty, when its grace is used up, or at any moment when it is killed.   *)
(* The delivery cache forgets after 24 hours or 50,000 entries; the model  *)
(* covers less than that.                                                  *)
(***************************************************************************)
EXTENDS Naturals, Sequences, FiniteSets, SequencesExt

CONSTANTS Instances,    \* the processes of all revisions that share the table
          Deliveries,   \* X-GitHub-Delivery ids
          MaxRequests,  \* bound on the HTTP requests, redeliveries included
          BatchSize     \* DEFAULT_DEQUEUE_BATCH_SIZE

\* dequeuePending asks for one row at least.
ASSUME IntakeAssumption ==
  /\ MaxRequests \in Nat
  /\ BatchSize \in Nat \ {0}
  /\ "gone" \notin Instances

VARIABLES
  mode,      \* mode[i]: "down", "serving" or "draining" (shuttingDown)
  exitCode,  \* exitCode[i]: how the last process of i ended
  marked,    \* marked[i]: the delivery ids in the cache of i
  tracked,   \* tracked[i]: activeJobs of i's request tracker
  requests,  \* every HTTP request so far: delivery, instance and its state
  rows,      \* webhook_queue in the order of queued_at
  replay,    \* replay[i]: the startup replay of i: its step and its batch
  replayed,  \* history: rows whose dispatch came to its end
  past       \* history: past[i]: the rows of the batch of i that it has had for
             \* over a minute, and the rows its replay began to dispatch

vars == <<mode, exitCode, marked, tracked, requests, rows, replay, replayed, past>>

\* "inserting" and "dispatching" are open; "abandoned" and "killed" were
\* accepted and then lost with the process, by a force-exit or otherwise.
RequestStates == {"inserting", "dispatching", "duplicate", "queued", "refused",
                  "handled", "abandoned", "killed"}

\* stale, of a row in processing: claimed_at is more than 60 seconds ago.
Row == [request: 1..MaxRequests,
        status: {"pending", "processing", "completed", "failed"},
        stale: BOOLEAN]

NoReplay == [step |-> "idle", batch |-> << >>]
NoPast == [late |-> {}, begun |-> {}]

Up(i) == mode[i] # "down"

NewRequest(i, d, state) ==
  requests' = Append(requests, [delivery |-> d, instance |-> i, state |-> state])

SetRequest(n, state) == requests' = [requests EXCEPT ![n].state = state]

\* WebhookQueueStore.enqueue.
NewRow(n) ==
  rows' = Append(rows, [request |-> n, status |-> "pending", stale |-> FALSE])

-----------------------------------------------------------------------------
(* HTTP requests *)

\* A delivery id in the cache is answered and forgotten.
ReceiveDuplicate(i, d) ==
  /\ Up(i)
  /\ Len(requests) < MaxRequests
  /\ d \in marked[i]
  /\ NewRequest(i, d, "duplicate")
  /\ UNCHANGED <<mode, exitCode, marked, tracked, rows, replay, replayed, past>>

\* Seeded faults for ReceiveServing: the dispatch is not tracked, or the
\* delivery is not marked.
ReceiveServingUntracked(i, d) ==
  /\ mode[i] = "serving"
  /\ Len(requests) < MaxRequests
  /\ d \notin marked[i]
  /\ marked' = [marked EXCEPT ![i] = @ \cup {d}]
  /\ NewRequest(i, d, "dispatching")
  /\ UNCHANGED <<mode, exitCode, tracked, rows, replay, replayed, past>>
ReceiveServingUnmarked(i, d) ==
  /\ mode[i] = "serving"
  /\ Len(requests) < MaxRequests
  /\ d \notin marked[i]
  /\ tracked' = [tracked EXCEPT ![i] = @ + 1]
  /\ NewRequest(i, d, "dispatching")
  /\ UNCHANGED <<mode, exitCode, marked, rows, replay, replayed, past>>

\* has, mark and trackJob run without an await in between; the answer is 200.
ReceiveServing(i, d) ==
  /\ mode[i] = "serving"
  /\ Len(requests) < MaxRequests
  /\ d \notin marked[i]
  /\ marked' = [marked EXCEPT ![i] = @ \cup {d}]
  /\ tracked' = [tracked EXCEPT ![i] = @ + 1]
  /\ NewRequest(i, d, "dispatching")
  /\ UNCHANGED <<mode, exitCode, rows, replay, replayed, past>>

\* Seeded fault for ReceiveDraining: the delivery is marked before the INSERT.
ReceiveDrainingMarking(i, d) ==
  /\ mode[i] = "draining"
  /\ Len(requests) < MaxRequests
  /\ d \notin marked[i]
  /\ marked' = [marked EXCEPT ![i] = @ \cup {d}]
  /\ NewRequest(i, d, "inserting")
  /\ UNCHANGED <<mode, exitCode, tracked, rows, replay, replayed, past>>

\* While draining the INSERT is awaited, untracked and with the id unmarked.
ReceiveDraining(i, d) ==
  /\ mode[i] = "draining"
  /\ Len(requests) < MaxRequests
  /\ d \notin marked[i]
  /\ NewRequest(i, d, "inserting")
  /\ UNCHANGED <<mode, exitCode, marked, tracked, rows, replay, replayed, past>>

InsertSucceeds(n) ==
  /\ requests[n].state = "inserting"
  /\ NewRow(n)
  /\ marked' = [marked EXCEPT ![requests[n].instance] = @ \cup {requests[n].delivery}]
  /\ SetRequest(n, "queued")
  /\ UNCHANGED <<mode, exitCode, tracked, replay, replayed, past>>

\* The INSERT rejects, with or without a row committed: 503.
InsertFails(n) ==
  /\ requests[n].state = "inserting"
  /\ NewRow(n) \/ UNCHANGED rows
  /\ SetRequest(n, "refused")
  /\ UNCHANGED <<mode, exitCode, marked, tracked, replay, replayed, past>>

\* eventRouter.dispatch settles once every handler did, whatever they did.
DispatchEnds(n) ==
  /\ requests[n].state = "dispatching"
  /\ SetRequest(n, "handled")
  /\ tracked' = [tracked EXCEPT ![requests[n].instance] = @ - 1]
  /\ UNCHANGED <<mode, exitCode, marked, rows, replay, replayed, past>>

-----------------------------------------------------------------------------
(* The startup replay *)

ReplayStep(i, step) == replay' = [replay EXCEPT ![i].step = step]

\* The loop is over, for good or for an exception: finally untrackReplay().
EndReplay(i) ==
  /\ replay' = [replay EXCEPT ![i] = NoReplay]
  /\ past' = [past EXCEPT ![i] = NoPast]
  /\ tracked' = [tracked EXCEPT ![i] = @ - 1]

\* On to the next entry of the batch, or to the next dequeuePending.
NextEntry(i) ==
  LET left == Tail(replay[i].batch)
  IN /\ replay' = [replay EXCEPT ![i] =
                     [step |-> IF left = << >> THEN "dequeuing" ELSE "entry",
                      batch |-> left]]
     /\ past' = [past EXCEPT ![i].late = @ \ {Head(replay[i].batch)}]

SetStatus(i, status) ==
  rows' = [rows EXCEPT ![Head(replay[i].batch)].status = status,
                       ![Head(replay[i].batch)].stale = FALSE]

ClaimableEvenFresh(row) == row.status \in {"pending", "processing"}

\* pending, or processing with a claim older than 60 seconds; the 15 minutes
\* of the SELECT add nothing, the UPDATE before it has reset those rows.
Claimable(row) == row.status = "pending" \/ (row.status = "processing" /\ row.stale)

\* The oldest of some rows, in order, as many as a batch holds.
Oldest(found) ==
  LET size == IF Cardinality(found) < BatchSize THEN Cardinality(found) ELSE BatchSize
  IN {batch \in [1..size -> found] :
        /\ \A m, n \in 1..size : m < n => batch[m] < batch[n]
        /\ \A r \in found \ Range(batch) : \A m \in 1..size : batch[m] < r}

\* dequeuePending: one transaction resets the stale rows, and claims the
\* oldest pending ones.
Dequeue(i) ==
  /\ replay[i].step = "dequeuing"
  /\ LET found == {r \in 1..Len(rows) : Claimable(rows[r])}
     IN IF found = {}
        THEN EndReplay(i) /\ UNCHANGED rows
        ELSE \E batch \in Oldest(found) :
               /\ rows' = [r \in 1..Len(rows) |->
                             IF r \in Range(batch)
                             THEN [rows[r] EXCEPT !.status = "processing",
                                                  !.stale = FALSE]
                             ELSE IF r \in found
                             THEN [rows[r] EXCEPT !.status = "pending"]
                             ELSE rows[r]]
               /\ replay' = [replay EXCEPT ![i] = [step |-> "entry", batch |-> batch]]
               /\ UNCHANGED <<tracked, past>>
  /\ UNCHANGED <<mode, exitCode, marked, requests, replayed>>

\* dequeuePending throws, or the replay budget is used up before a batch or an
\* entry: what is left of the batch stays in processing.
ReplayStops(i) ==
  /\ replay[i].step \in {"dequeuing", "entry"}
  /\ EndReplay(i)
  /\ UNCHANGED <<mode, exitCode, marked, requests, rows, replayed>>

\* replayQueuedWebhook dispatches the head of the batch and waits for it; the
\* delivery cache is neither asked nor marked.
DispatchHead(i) ==
  /\ ReplayStep(i, "dispatching")
  /\ past' = [past EXCEPT ![i].begun = @ \cup {Head(replay[i].batch)}]

ReplayEntry(i) ==
  /\ replay[i].step = "entry"
  /\ DispatchHead(i)
  /\ UNCHANGED <<mode, exitCode, marked, tracked, requests, rows, replayed>>

\* The dispatch of a row resolves or throws.
ReplayDispatched(i) ==
  /\ replay[i].step = "dispatching"
  /\ \/ ReplayStep(i, "marking")
     \/ ReplayStep(i, "failing")
  /\ replayed' = replayed \cup {Head(replay[i].batch)}
  /\ UNCHANGED <<mode, exitCode, marked, tracked, requests, rows, past>>

MarkCompleted(i) ==
  /\ replay[i].step = "marking"
  /\ SetStatus(i, "completed")
  /\ NextEntry(i)
  /\ UNCHANGED <<mode, exitCode, marked, tracked, requests, replayed>>

\* markCompleted throws into the same catch as the dispatch.
MarkCompletedFails(i) ==
  /\ replay[i].step = "marking"
  /\ ReplayStep(i, "failing")
  /\ UNCHANGED <<mode, exitCode, marked, tracked, requests, rows, replayed, past>>

MarkFailed(i) ==
  /\ replay[i].step = "failing"
  /\ SetStatus(i, "failed")
  /\ NextEntry(i)
  /\ UNCHANGED <<mode, exitCode, marked, tracked, requests, replayed>>

\* markFailed throws out of the loop.
MarkFailedFails(i) ==
  /\ replay[i].step = "failing"
  /\ EndReplay(i)
  /\ UNCHANGED <<mode, exitCode, marked, requests, rows, replayed>>

\* A minute passes over the claim of row r.
Age(r) ==
  /\ r \in 1..Len(rows)
  /\ rows[r].status = "processing"
  /\ ~rows[r].stale
  /\ rows' = [rows EXCEPT ![r].stale = TRUE]
  /\ past' = [i \in Instances |->
                IF r \in Range(replay[i].batch)
                THEN [past[i] EXCEPT !.late = @ \cup {r}]
                ELSE past[i]]
  /\ UNCHANGED <<mode, exitCode, marked, tracked, requests, replay, replayed>>

-----------------------------------------------------------------------------
(* Processes *)

\* A new process: empty cache, and a replay that does not delay Bun.serve.
StartProcess(i) ==
  /\ mode[i] = "down"
  /\ mode' = [mode EXCEPT ![i] = "serving"]
  /\ exitCode' = [exitCode EXCEPT ![i] = "none"]
  /\ marked' = [marked EXCEPT ![i] = {}]
  /\ tracked' = [tracked EXCEPT ![i] = 1]
  /\ replay' = [replay EXCEPT ![i] = [step |-> "dequeuing", batch |-> << >>]]
  /\ UNCHANGED <<requests, rows, replayed, past>>

\* SIGTERM, SIGINT or requestShutdown; a second one is ignored.
BeginShutdown(i) ==
  /\ mode[i] = "serving"
  /\ mode' = [mode EXCEPT ![i] = "draining"]
  /\ UNCHANGED <<exitCode, marked, tracked, requests, rows, replay, replayed, past>>

\* What the end of a process does to the requests and the replay it served;
\* "gone" tells its later requests from those of the next process.
Exit(i, code, lost) ==
  /\ mode' = [mode EXCEPT ![i] = "down"]
  /\ exitCode' = [exitCode EXCEPT ![i] = code]
  /\ marked' = [marked EXCEPT ![i] = {}]
  /\ tracked' = [tracked EXCEPT ![i] = 0]
  /\ replay' = [replay EXCEPT ![i] = NoReplay]
  /\ past' = [past EXCEPT ![i] = NoPast]
  /\ requests' = [n \in 1..Len(requests) |->
                    IF requests[n].instance # i THEN requests[n]
                    ELSE [requests[n] EXCEPT
                            !.instance = "gone",
                            !.state = CASE @ = "dispatching" -> lost
                                        [] @ = "inserting" -> "refused"
                                        [] OTHER -> @]]
  /\ UNCHANGED <<rows, replayed>>

\* waitForDrain finds the tracker empty: exit code 0.
ExitDrained(i) ==
  /\ mode[i] = "draining"
  /\ tracked[i] = 0
  /\ Exit(i, "zero", "abandoned")

\* Both grace windows ran out: exit code 1, even if the tracker empties while
\* the abandoned jobs are announced.
ForceExit(i) ==
  /\ mode[i] = "draining"
  /\ Exit(i, "one", "abandoned")

Kill(i) ==
  /\ Up(i)
  /\ Exit(i, "killed", "killed")

Init ==
  /\ mode = [i \in Instances |-> "down"]
  /\ exitCode = [i \in Instances |-> "none"]
  /\ marked = [i \in Instances |-> {}]
  /\ tracked = [i \in Instances |-> 0]
  /\ requests = << >>
  /\ rows = << >>
  /\ replay = [i \in Instances |-> NoReplay]
  /\ replayed = {}
  /\ past = [i \in Instances |-> NoPast]

Next ==
  \/ \E i \in Instances, d \in Deliveries : ReceiveDuplicate(i, d)
  \/ \E i \in Instances, d \in Deliveries : ReceiveServing(i, d)
  \/ \E i \in Instances, d \in Deliveries : ReceiveDraining(i, d)
  \/ \E n \in 1..Len(requests) : InsertSucceeds(n)
  \/ \E n \in 1..Len(requests) : InsertFails(n)
  \/ \E n \in 1..Len(requests) : DispatchEnds(n)
  \/ \E i \in Instances : Dequeue(i)
  \/ \E i \in Instances : ReplayStops(i)
  \/ \E i \in Instances : ReplayEntry(i)
  \/ \E i \in Instances : ReplayDispatched(i)
  \/ \E i \in Instances : MarkCompleted(i)
  \/ \E i \in Instances : MarkCompletedFails(i)
  \/ \E i \in Instances : MarkFailed(i)
  \/ \E i \in Instances : MarkFailedFails(i)
  \/ \E r \in 1..MaxRequests : Age(r)
  \/ \E i \in Instances : StartProcess(i)
  \/ \E i \in Instances : BeginShutdown(i)
  \/ \E i \in Instances : ExitDrained(i)
  \/ \E i \in Instances : ForceExit(i)
  \/ \E i \in Instances : Kill(i)

Spec == Init /\ [][Next]_vars

-----------------------------------------------------------------------------
(* Properties *)

IntakeTypeOK ==
  /\ mode \in [Instances -> {"down", "serving", "draining"}]
  /\ exitCode \in [Instances -> {"none", "zero", "one", "killed"}]
  /\ marked \in [Instances -> SUBSET Deliveries]
  /\ tracked \in [Instances -> Nat]
  /\ requests \in Seq([delivery: Deliveries,
                       instance: Instances \cup {"gone"},
                       state: RequestStates])
  /\ rows \in Seq(Row)
  /\ replay \in [Instances ->
       [step: {"idle", "dequeuing", "entry", "dispatching", "marking", "failing"},
        batch: Seq(1..Len(rows))]]
  /\ replayed \subseteq 1..Len(rows)
  /\ past \in [Instances -> [late: SUBSET (1..Len(rows)),
                            begun: SUBSET (1..Len(rows))]]

\* The requests of the present process of i in the given state.
RequestsIn(i, state) ==
  {n \in 1..Len(requests) : requests[n].instance = i /\ requests[n].state = state}

TrackedIsInFlight ==
  \A i \in Instances : Up(i) =>
    tracked[i] = Cardinality(RequestsIn(i, "dispatching"))
                   + (IF replay[i].step = "idle" THEN 0 ELSE 1)

\* The variables hold values of their types, and the tracker that drain waits
\* for counts exactly the dispatches in flight and the startup replay, on every
\* path out of both.
IntakeInv == IntakeTypeOK /\ TrackedIsInFlight

\* "short-circuits duplicate deliveries without dispatching": however often
\* GitHub sends a delivery, the HTTP requests of one process dispatch it at most
\* once, and its startup replay dispatches each queued row at most once.  The
\* two do not know of each other: a delivery that was queued and sent again may
\* be dispatched once by either.
DispatchedOnceEachWay ==
  /\ \A i \in Instances, d \in Deliveries :
       Cardinality({n \in RequestsIn(i, "dispatching") \cup RequestsIn(i, "handled") :
                      requests[n].delivery = d}) <= 1
  /\ \A i \in Instances :
       replay[i].step = "entry" => Head(replay[i].batch) \notin past[i].begun

\* A delivery id is in the cache only if a request with it was accepted, so a
\* refused request does not poison its redelivery.
MarkedWasAccepted ==
  \A i \in Instances : \A d \in marked[i] :
    \E n \in 1..Len(requests) :
      /\ requests[n].delivery = d
      /\ n \in RequestsIn(i, "dispatching") \cup RequestsIn(i, "handled")
                 \cup RequestsIn(i, "queued")

\* A row is completed only after its dispatch ended: a crash at any point of
\* the replay leaves it to be replayed again.
CompletedWasReplayed ==
  \A r \in 1..Len(rows) : rows[r].status = "completed" => r \in replayed

\* Neither mark is made before what it stands for: a failed INSERT or a crash
\* in the middle of a replay loses nothing.
MarkedAfterwards == MarkedWasAccepted /\ CompletedWasReplayed

\* "The age guard keeps a concurrently starting replica from stealing a row
\* another instance claimed moments ago": two processes that both have a row yet
\* to dispatch or to mark share it only because one of them has had it for over
\* a minute, whatever was claimed, marked or left behind by crashes meanwhile.
BatchesAreApart ==
  \A i, j \in Instances :
    \A r \in Range(replay[i].batch) \cap Range(replay[j].batch) :
      i # j => r \in past[i].late \cup past[j].late
=============================================================================
