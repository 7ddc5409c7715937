---------------------------- MODULE SlackIntake ----------------------------
(***************************************************************************)
(* Slack messages beside GitHub deliveries: the event route                *)
(* (src/routes/slack-events.ts) with its thread sessions and its window    *)
(* for duplicates, the rows it adds to webhook_queue, and the Slack half   *)
(* of the startup replay (lifecycle/webhook-replay.ts).                    *)
(*                                                                         *)
(* The table, the tracker, the replay loop and the processes are those of  *)
(* WebhookIntake: a Slack event is one more request, whose delivery is the *)
(* message.  A message that mentions Kodiai outside a thread opens its own *)
(* thread; what follows in the thread is heard without a mention.          *)
(*                                                                         *)
(* Messages that fail the other safety rails, rate limits and the end of a *)
(* session after 24 hours are left out.  Messages of one user, thread and  *)
(* text count as one message that Slack sends more than once.              *)
(***************************************************************************)
EXTENDS WebhookIntake

CONSTANTS Messages,  \* messages of the channel that pass the other rails
          Root       \* Root[m]: the message that began the thread of m

ASSUME SlackAssumption ==
  /\ Messages \cap Deliveries = {}
  /\ Root \in [Messages -> Messages]
  /\ \A m \in Messages : Root[Root[m]] = Root[m]

VARIABLES
  sessions,  \* sessions[i]: threads in the session store of i's route
  replaySessions,  \* the same of the store that i's startup replay creates
  recent,    \* recent[i]: recentAddressed, what was addressed in 5 seconds
  called     \* history: called[i][store][m], how often this process of i
             \* has called the assistant for m, by route and by replay

slackVars == <<sessions, replaySessions, recent, called>>
allVars == <<vars, slackVars>>

Stores == {"route", "replay"}
Opens(m) == Root[m] = m
NoCalls == [store \in Stores |-> [m \in Messages |-> 0]]

Call(i, store, m) == called' = [called EXCEPT ![i][store][m] = @ + 1]

\* Requests and rows of either source.
FromSlack(n) == requests[n].delivery \in Messages
DeliveryIn(r) == requests[rows[r].request].delivery
SlackHead(i) == DeliveryIn(Head(replay[i].batch))

-----------------------------------------------------------------------------
(* The route of a process that serves *)

\* A follow-up in a thread that the route has not opened is out of scope.
SlackOutOfScope(i, m) ==
  /\ mode[i] = "serving"
  /\ Len(requests) < MaxRequests
  /\ ~Opens(m) /\ Root[m] \notin sessions[i]
  /\ NewRequest(i, m, "ignored")
  /\ UNCHANGED <<mode, exitCode, marked, tracked, rows, replay, replayed, past>>
  /\ UNCHANGED slackVars

\* The opening of a thread that is open, or what was addressed a moment ago.
\* Tracked and untracked again within one turn of the event loop.
SlackDuplicate(i, m) ==
  /\ mode[i] = "serving"
  /\ Len(requests) < MaxRequests
  /\ Root[m] \in sessions[i]
  /\ Opens(m) \/ m \in recent[i]
  /\ NewRequest(i, m, "duplicate")
  /\ UNCHANGED <<mode, exitCode, marked, tracked, rows, replay, replayed, past>>
  /\ UNCHANGED slackVars

\* Seeded fault for SlackServing: the thread is not marked as started.
SlackServingUnstarted(i, m) ==
  /\ mode[i] = "serving"
  /\ Len(requests) < MaxRequests
  /\ Opens(m) <=> Root[m] \notin sessions[i]
  /\ m \notin recent[i]
  /\ recent' = [recent EXCEPT ![i] = @ \cup {m}]
  /\ tracked' = [tracked EXCEPT ![i] = @ + 1]
  /\ Call(i, "route", m)
  /\ NewRequest(i, m, "dispatching")
  /\ UNCHANGED <<mode, exitCode, marked, rows, replay, replayed, past>>
  /\ UNCHANGED <<sessions, replaySessions>>

\* The rails, trackJob, markThreadStarted and isDuplicateAddressedEvent run
\* before the first await: the assistant is called and the answer is 200.
SlackServing(i, m) ==
  /\ mode[i] = "serving"
  /\ Len(requests) < MaxRequests
  /\ Opens(m) <=> Root[m] \notin sessions[i]
  /\ m \notin recent[i]
  /\ sessions' = [sessions EXCEPT ![i] = @ \cup {Root[m]}]
  /\ recent' = [recent EXCEPT ![i] = @ \cup {m}]
  /\ tracked' = [tracked EXCEPT ![i] = @ + 1]
  /\ Call(i, "route", m)
  /\ NewRequest(i, m, "dispatching")
  /\ UNCHANGED <<mode, exitCode, marked, rows, replay, replayed, past, replaySessions>>

\* DUPLICATE_WINDOW_MS has passed.
SlackWindowEnds(i, m) ==
  /\ m \in recent[i]
  /\ recent' = [recent EXCEPT ![i] = @ \ {m}]
  /\ UNCHANGED <<vars, sessions, replaySessions, called>>

AssistantReturns(n) ==
  /\ FromSlack(n)
  /\ DispatchEnds(n)
  /\ UNCHANGED slackVars

\* Seeded fault for AssistantThrows: only a call that succeeds is untracked.
AssistantThrowsTracked(n) ==
  /\ FromSlack(n)
  /\ requests[n].state = "dispatching"
  /\ SetRequest(n, "requeueing")
  /\ UNCHANGED <<mode, exitCode, marked, tracked, rows, replay, replayed, past>>
  /\ UNCHANGED slackVars

\* The catch sends the INSERT and does not wait for it: finally untracks.
AssistantThrows(n) ==
  /\ FromSlack(n)
  /\ requests[n].state = "dispatching"
  /\ SetRequest(n, "requeueing")
  /\ tracked' = [tracked EXCEPT ![requests[n].instance] = @ - 1]
  /\ UNCHANGED <<mode, exitCode, marked, rows, replay, replayed, past>>
  /\ UNCHANGED slackVars

-----------------------------------------------------------------------------
(* Rows *)

\* While draining every event is queued, before the rails see it.
SlackDraining(i, m) ==
  /\ mode[i] = "draining"
  /\ Len(requests) < MaxRequests
  /\ NewRequest(i, m, "inserting")
  /\ UNCHANGED <<mode, exitCode, marked, tracked, rows, replay, replayed, past>>
  /\ UNCHANGED slackVars

\* The INSERT of a draining route or of a failed call ends while its process
\* lives.
SlackInsertSucceeds(n) ==
  /\ FromSlack(n) /\ requests[n].instance \in Instances
  /\ requests[n].state \in {"inserting", "requeueing"}
  /\ NewRow(n)
  /\ SetRequest(n, "queued")
  /\ UNCHANGED <<mode, exitCode, marked, tracked, replay, replayed, past>>
  /\ UNCHANGED slackVars

\* It rejects, with or without a row: app.onError answers 500, or the failure
\* is logged.
SlackInsertFails(n) ==
  /\ FromSlack(n) /\ requests[n].instance \in Instances
  /\ requests[n].state \in {"inserting", "requeueing"}
  /\ NewRow(n) \/ UNCHANGED rows
  /\ SetRequest(n, "refused")
  /\ UNCHANGED <<mode, exitCode, marked, tracked, replay, replayed, past>>
  /\ UNCHANGED slackVars

\* Rails and sessions of the replay drop a row: it is completed unheard.
RowIsDropped(i) ==
  /\ replay[i].step = "entry"
  /\ SlackHead(i) \in Messages
  /\ Opens(SlackHead(i)) <=> Root[SlackHead(i)] \in replaySessions[i]
  /\ ReplayStep(i, "marking")
  /\ UNCHANGED <<mode, exitCode, marked, tracked, requests, rows, replayed, past>>
  /\ UNCHANGED slackVars

\* Seeded fault for RowIsHeard: a session store of its own for every entry.
RowIsHeardAlone(i) ==
  /\ replay[i].step = "entry"
  /\ SlackHead(i) \in Messages
  /\ Opens(SlackHead(i))
  /\ DispatchHead(i)
  /\ Call(i, "replay", SlackHead(i))
  /\ UNCHANGED <<mode, exitCode, marked, tracked, requests, rows, replayed>>
  /\ UNCHANGED <<sessions, recent, replaySessions>>

\* The replay calls the assistant and waits for it.
RowIsHeard(i) ==
  /\ replay[i].step = "entry"
  /\ SlackHead(i) \in Messages
  /\ Opens(SlackHead(i)) <=> Root[SlackHead(i)] \notin replaySessions[i]
  /\ replaySessions' = [replaySessions EXCEPT ![i] = @ \cup {Root[SlackHead(i)]}]
  /\ DispatchHead(i)
  /\ Call(i, "replay", SlackHead(i))
  /\ UNCHANGED <<mode, exitCode, marked, tracked, requests, rows, replayed>>
  /\ UNCHANGED <<sessions, recent>>

\* replayQueuedWebhook takes the head of the batch, whatever its source.
TakeEntry(i) ==
  \/ RowIsDropped(i)
  \/ RowIsHeard(i)
  \/ /\ replay[i].step = "entry" /\ SlackHead(i) \notin Messages
     /\ ReplayEntry(i)
     /\ UNCHANGED slackVars

-----------------------------------------------------------------------------
(* With GitHub, over the same processes *)

\* What WebhookIntake does without a Slack message.
GitHubStep ==
  \/ \E i \in Instances, d \in Deliveries :
       ReceiveDuplicate(i, d) \/ ReceiveServing(i, d) \/ ReceiveDraining(i, d)
  \/ \E n \in 1..Len(requests) :
       ~FromSlack(n) /\ (InsertSucceeds(n) \/ InsertFails(n) \/ DispatchEnds(n))

\* The replay loop around an entry, rows that age, processes that start to
\* serve or to drain.
SharedStep ==
  \/ \E i \in Instances :
       \/ Dequeue(i) \/ ReplayStops(i) \/ ReplayDispatched(i)
       \/ MarkCompleted(i) \/ MarkCompletedFails(i)
       \/ MarkFailed(i) \/ MarkFailedFails(i)
       \/ StartProcess(i) \/ BeginShutdown(i)
  \/ \E r \in 1..MaxRequests : Age(r)

\* A process that ends takes its sessions along.
ProcessEnds(i) ==
  /\ ExitDrained(i) \/ ForceExit(i) \/ Kill(i)
  /\ sessions' = [sessions EXCEPT ![i] = {}]
  /\ replaySessions' = [replaySessions EXCEPT ![i] = {}]
  /\ recent' = [recent EXCEPT ![i] = {}]
  /\ called' = [called EXCEPT ![i] = NoCalls]

SlackInit ==
  /\ Init
  /\ sessions = [i \in Instances |-> {}]
  /\ replaySessions = [i \in Instances |-> {}]
  /\ recent = [i \in Instances |-> {}]
  /\ called = [i \in Instances |-> NoCalls]

SlackNext ==
  \/ \E i \in Instances, m \in Messages :
       \/ SlackOutOfScope(i, m) \/ SlackDuplicate(i, m) \/ SlackServing(i, m)
       \/ SlackWindowEnds(i, m) \/ SlackDraining(i, m)
  \/ \E n \in 1..Len(requests) :
       \/ AssistantReturns(n) \/ AssistantThrows(n)
       \/ SlackInsertSucceeds(n) \/ SlackInsertFails(n)
  \/ \E i \in Instances : TakeEntry(i) \/ ProcessEnds(i)
  \/ (GitHubStep \/ SharedStep) /\ UNCHANGED slackVars

SlackSpec == SlackInit /\ [][SlackNext]_allVars

\* As in WebhookIntake: deploys keep coming, timers fire, and neither crashes
\* nor the database hit the same step of a replay every time.
SlackFairness ==
  /\ \A i \in Instances :
       /\ WF_allVars(StartProcess(i) /\ UNCHANGED slackVars)
       /\ WF_allVars(BeginShutdown(i) /\ UNCHANGED slackVars)
       /\ WF_allVars(ProcessEnds(i))
       /\ SF_allVars(Dequeue(i) /\ UNCHANGED slackVars)
       /\ SF_allVars(TakeEntry(i))
       /\ SF_allVars(ReplayDispatched(i) /\ UNCHANGED slackVars)
       /\ SF_allVars(MarkCompleted(i) /\ UNCHANGED slackVars)
       /\ SF_allVars(MarkFailed(i) /\ UNCHANGED slackVars)
  /\ \A r \in 1..MaxRequests : WF_allVars(Age(r) /\ UNCHANGED slackVars)

FairSlackSpec == SlackSpec /\ SlackFairness

-----------------------------------------------------------------------------
(* Properties *)

\* Types, and the tracker of a process counts GitHub dispatches, calls of the
\* assistant and the replay alike, on every path out of each of them.
SlackInv ==
  /\ sessions \in [Instances -> SUBSET Messages]
  /\ replaySessions \in [Instances -> SUBSET Messages]
  /\ recent \in [Instances -> SUBSET Messages]
  /\ \A n \in 1..Len(requests) :
       requests[n].state \in RequestStates \cup {"ignored", "requeueing"}
  /\ TrackedIsInFlight

\* Within a process the route and the replay each open a thread at most once,
\* however often Slack sends its first message and whatever is queued, and
\* hear a follow-up only in a thread they have opened.
ThreadsOpenOnce ==
  \A i \in Instances, store \in Stores, m \in Messages :
    /\ Opens(m) => called[i][store][m] <= 1
    /\ called[i][store][m] > 0 => called[i][store][Root[m]] > 0

\* A queued follow-up is dropped only if this replay has not opened its thread
\* ("shared replay-time Slack thread store allows queued thread follow-up after
\* bootstrap").
QueuedFollowUpIsHeard ==
  [][\A i \in Instances :
       RowIsDropped(i) /\ ~Opens(SlackHead(i)) =>
         called[i]["replay"][Root[SlackHead(i)]] = 0]_allVars

=============================================================================
