------------------------------ MODULE Shutdown ------------------------------
(***************************************************************************)
(* The job queue in its process: the webhook dispatches that fill it, the  *)
(* drain and the two grace windows of src/lifecycle/shutdown-manager.ts,   *)
(* and the notices of lifecycle/abandoned-job-notifier.ts that a process   *)
(* posts on the pull requests whose jobs it gives up.                      *)
(*                                                                         *)
(* Nothing stops while a process shuts down: bodies go on, dispatches      *)
(* enqueue what they had begun to, and a call to GitHub that a timeout no  *)
(* longer waits for may still succeed, until the process exits.  A kill,   *)
(* which may end it anywhere, leaves nothing to state here.                *)
(***************************************************************************)
EXTENDS JobQueue

CONSTANTS PullRequests,
          PullRequestOf,  \* scope -> its pull request, or "none" for a job
                          \* type without one or a key that names none
          MaxNotices,     \* DEFAULT_MAX_NOTICES
          MaxDispatches   \* bound on the dispatches in flight

ASSUME NoticesAssumption ==
  /\ PullRequestOf \in [Scopes -> PullRequests \cup {"none"}]
  /\ "none" \notin PullRequests
  /\ MaxNotices \in Nat
  /\ MaxDispatches \in Nat
  /\ Jobs \subseteq Nat

VARIABLES mode,        \* "serving", "draining", "extended", "notifying",
                       \* "closing" the database, "exited"
          exitCode,    \* "none", "zero" or "one"
          dispatches,  \* dispatches and replays that the tracker counts
          abandoned,   \* getAbandonedJobs: the snapshots, by job
          notices,     \* pull request -> its notice
          late         \* history: jobs enqueued after those snapshots, or
                       \* after the tracker was found empty

shutdownVars == <<mode, exitCode, dispatches, abandoned, notices, late>>
vars == <<queueVars, shutdownVars>>

\* posting: notify waits for the call.  Only of a posted notice is the comment
\* known to be on the pull request; failed and timedOut are logged and swallowed.
Notice == [state: {"posting", "posted", "failed", "timedOut"},
           says: {"queued", "running"}]

Decided == mode \in {"notifying", "closing", "exited"}

-----------------------------------------------------------------------------
(* The process at work *)

\* A route or the startup replay tracks a dispatch; while draining the route
\* writes a row instead.
DispatchBegins ==
  /\ mode = "serving"
  /\ dispatches < MaxDispatches
  /\ dispatches' = dispatches + 1
  /\ UNCHANGED <<queueVars, mode, exitCode, abandoned, notices, late>>

DispatchEnds ==
  /\ mode # "exited"
  /\ dispatches > 0
  /\ dispatches' = dispatches - 1
  /\ UNCHANGED <<queueVars, mode, exitCode, abandoned, notices, late>>

\* A step of the queue.  A handler enqueues within a dispatch, a body enqueues
\* the retry of its review; nextJobId only grows.
QueueStep ==
  /\ mode # "exited"
  /\ QueueNext
  /\ Open' \subseteq Open \/ dispatches > 0 \/ Executing # {}
  /\ \A i, j \in Jobs : i < j /\ body'[j] # "none" => body'[i] # "none"
  /\ late' = IF Decided THEN late \cup (Open' \ Open) ELSE late
  /\ UNCHANGED <<mode, exitCode, dispatches, abandoned, notices>>

-----------------------------------------------------------------------------
(* beginShutdown *)

\* SIGTERM, SIGINT or a fault; later ones are ignored.
BeginShutdown ==
  /\ mode = "serving"
  /\ mode' = "draining"
  /\ UNCHANGED <<queueVars, exitCode, dispatches, abandoned, notices, late>>

\* Seeded fault for Drained: the jobs are not looked at.
DrainedIgnoringJobs ==
  /\ mode \in {"draining", "extended"}
  /\ dispatches = 0
  /\ mode' = "closing"
  /\ exitCode' = "zero"
  /\ UNCHANGED <<queueVars, dispatches, abandoned, notices, late>>

\* waitForDrain finds the tracker empty.
Drained ==
  /\ mode \in {"draining", "extended"}
  /\ tracked = {} /\ dispatches = 0
  /\ mode' = "closing"
  /\ exitCode' = "zero"
  /\ UNCHANGED <<queueVars, dispatches, abandoned, notices, late>>

\* The first grace window is over.  The tracker may be empty by now: it is
\* looked at every half second only.
ExtendGrace ==
  /\ mode = "draining"
  /\ mode' = "extended"
  /\ UNCHANGED <<queueVars, exitCode, dispatches, abandoned, notices, late>>

\* The pull requests of the jobs in a set of snapshots.
PullRequestsOf(jobs, snapshots) ==
  {PullRequestOf[snapshots[j].scope] : j \in jobs} \cap PullRequests

StartedIn(snapshots) == {j \in DOMAIN snapshots : snapshots[j].started}

\* Seeded fault for Selections: any of the pull requests, in no order.
SelectionsAny(snapshots) ==
  {told \in SUBSET PullRequestsOf(DOMAIN snapshots, snapshots) :
     Cardinality(told) <= MaxNotices}

\* What notify may select: as many pull requests as it can, and those with a
\* job that has started first.
Selections(snapshots) ==
  LET all == PullRequestsOf(DOMAIN snapshots, snapshots)
      first == PullRequestsOf(StartedIn(snapshots), snapshots)
  IN {told \in SUBSET all :
        /\ Cardinality(told) <= MaxNotices
        /\ told # all => Cardinality(told) = MaxNotices
        /\ told \subseteq first \/ first \subseteq told}

\* The grace is used up, after the second window or, if none is configured,
\* after the first.  One notice per pull request, worded for its job that came
\* furthest.
GiveUp ==
  /\ mode \in {"draining", "extended"}
  /\ mode' = "notifying"
  /\ exitCode' = "one"
  /\ abandoned' = activeJobs
  /\ \E told \in Selections(activeJobs) :
       notices' = [p \in told |->
         [state |-> "posting",
          says |-> IF p \in PullRequestsOf(StartedIn(activeJobs), activeJobs)
                   THEN "running" ELSE "queued"]]
  /\ UNCHANGED <<queueVars, dispatches, late>>

\* What becomes of the notice on p while notify waits for it.
NoticeEnds(p, state) ==
  /\ mode = "notifying"
  /\ p \in DOMAIN notices
  /\ notices[p].state = "posting"
  /\ notices' = [notices EXCEPT ![p].state = state]
  /\ UNCHANGED <<queueVars, mode, exitCode, dispatches, abandoned, late>>

NoticePosted(p) == NoticeEnds(p, "posted")

\* No token, or the call throws, before GitHub took the comment or after it.
NoticeFails(p) == NoticeEnds(p, "failed")

\* Seeded fault for NoticeTimesOut: a call that hangs has no timeout.
NoticeTimesOutNever(p) == FALSE /\ NoticeEnds(p, "timedOut")

\* raceWithTimeout stops to wait for the call: the comment may still appear.
NoticeTimesOut(p) == NoticeEnds(p, "timedOut")

\* Promise.allSettled of the notices.
NoticesSettled ==
  /\ mode = "notifying"
  /\ \A p \in DOMAIN notices : notices[p].state # "posting"
  /\ mode' = "closing"
  /\ UNCHANGED <<queueVars, exitCode, dispatches, abandoned, notices, late>>

\* safeCloseDb, whether it throws or not, and process.exit.
Exit ==
  /\ mode = "closing"
  /\ mode' = "exited"
  /\ UNCHANGED <<queueVars, exitCode, dispatches, abandoned, notices, late>>

ShutdownInit ==
  /\ QueueInit
  /\ mode = "serving"
  /\ exitCode = "none"
  /\ dispatches = 0
  /\ abandoned = << >>
  /\ notices = << >>
  /\ late = {}

ShutdownNext ==
  \/ QueueStep
  \/ DispatchBegins
  \/ DispatchEnds
  \/ BeginShutdown
  \/ Drained
  \/ ExtendGrace
  \/ GiveUp
  \/ \E p \in PullRequests : NoticePosted(p)
  \/ \E p \in PullRequests : NoticeFails(p)
  \/ \E p \in PullRequests : NoticeTimesOut(p)
  \/ NoticesSettled
  \/ Exit

\* A step of the queue in a process that still runs.
Running(A) == mode # "exited" /\ A /\ UNCHANGED shutdownVars

\* Timers fire, promise continuations run and the database closes.  No body,
\* no dispatch and no call to GitHub has to end.
ShutdownFairness ==
  /\ \A s \in Scopes : WF_vars(Running(Start(s)))
  /\ \A j \in Jobs : WF_vars(Running(HardTimeout(j))) /\ WF_vars(Running(Close(j)))
  /\ WF_vars(GiveUp)
  /\ \A p \in PullRequests : WF_vars(NoticeTimesOut(p))
  /\ WF_vars(NoticesSettled)
  /\ WF_vars(Exit)

ShutdownSpec == ShutdownInit /\ [][ShutdownNext]_vars /\ ShutdownFairness

-----------------------------------------------------------------------------
(* Properties *)

ShutdownTypeOK ==
  /\ mode \in {"serving", "draining", "extended", "notifying", "closing", "exited"}
  /\ exitCode \in {"none", "zero", "one"}
  /\ dispatches \in 0..MaxDispatches
  /\ DOMAIN abandoned \subseteq Jobs
  /\ \A j \in DOMAIN abandoned : abandoned[j] \in [scope: Scopes, started: BOOLEAN]
  /\ DOMAIN notices \subseteq PullRequests
  /\ \A p \in DOMAIN notices : notices[p] \in Notice
  /\ late \subseteq Jobs

\* Success means that the work is done: once the tracker was found empty, the
\* only bodies that still execute are those that the hard timeout gave up and
\* what such a body has enqueued since.
CleanExitIsIdle ==
  exitCode = "zero" =>
    /\ Open \subseteq late
    /\ \A j \in Executing : body[j] = "abandoned-closed" \/ j \in late

\* A notice is about a job that was given up, and says "was still running" if
\* and only if such a job of its pull request had started: "the notice must
\* describe what actually happened" (buildAbandonedJobNoticeBody).
NoticesAreWarranted ==
  /\ exitCode \in {"none", "zero"} => DOMAIN notices = {}
  /\ \A j \in DOMAIN abandoned : abandoned[j].started => body[j] \notin {"none", "queued"}
  /\ \A p \in DOMAIN notices :
       /\ p \in PullRequestsOf(DOMAIN abandoned, abandoned)
       /\ notices[p].says = "running"
            <=> p \in PullRequestsOf(StartedIn(abandoned), abandoned)

\* The variables hold values of their types, a process that reports success has
\* left nothing open, and notices are about jobs that were given up.
ShutdownInv == ShutdownTypeOK /\ CleanExitIsIdle /\ NoticesAreWarranted

\* For a job that is open when its process has given up and exits, a notice was
\* posted on its pull request, or the failure or timeout of the notice is in the
\* log; or the notices were used up, and then a job that has started went before
\* those that have not.  That is less than "so a dropped review is never silent"
\* (createAbandonedJobNotifier): a failed notice leaves the author in the dark,
\* as its "best-effort" interface says, and nobody looks at the jobs enqueued
\* after the snapshots were taken, which are lost without a trace.
AbandonedAreToldOrLogged ==
  (mode = "exited" /\ exitCode = "one") =>
    \A j \in Open \ late :
      LET p == PullRequestOf[activeJobs[j].scope]
      IN p \in PullRequests =>
           IF p \in DOMAIN notices
           THEN notices[p].state \in {"posted", "failed", "timedOut"}
           ELSE /\ Cardinality(DOMAIN notices) = MaxNotices
                /\ abandoned[j].started =>
                     \A q \in DOMAIN notices : notices[q].says = "running"

\* Every enqueued job is over for its caller some day, even behind a body that
\* never returns: the hard timeout frees the lane and the tracker slot; or its
\* process is over.
EveryJobSettles ==
  \A j \in Jobs : (j \in Open) ~> (j \notin Open \/ mode = "exited")

\* A process that was told to stop does, whatever hangs: no body, dispatch or
\* notice holds it for ever.
ShutdownEnds == (mode = "draining") ~> (mode = "exited")
=============================================================================
