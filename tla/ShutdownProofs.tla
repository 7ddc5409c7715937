--------------------------- MODULE ShutdownProofs ---------------------------
(***************************************************************************)
(* Proofs about the job queue in its process, for any jobs, scopes, pull   *)
(* requests and number of notices: the books of the queue stay right, a    *)
(* process that reports success has left nothing open, and one that has    *)
(* given up has tried to tell the pull requests that it had to; the        *)
(* process uses the queue as it is specified.                              *)
(***************************************************************************)
EXTENDS Shutdown, FiniteSetTheorems, TLAPS

-----------------------------------------------------------------------------
(* The queue, for any jobs and any scopes: its bookkeeping is an           *)
(* invariant, and from it that a scope runs one job at a time and starts   *)
(* its jobs in order.                                                      *)

\* The core of the invariant, without what follows from it.
Core == TypeOK /\ AccountedFor /\ SlotsAreHeld /\ WaitingIsTail /\ EnqueuedOnce

\* What QueueOf returns is a PQueue.
LEMMA QueueOfType ==
  ASSUME TypeOK, NEW s \in Scopes
  PROVE  /\ QueueOf(s) \in PQueues
         /\ QueueOf(s).waiting \in Seq(Jobs)
         /\ QueueOf(s).pending \in SUBSET Jobs
<1>1. IdlePQueue \in PQueues
  BY DEF IdlePQueue, PQueues
<1>2. QueueOf(s) \in PQueues
  BY <1>1 DEF QueueOf, TypeOK
<1> QED
  BY <1>2 DEF PQueues

\* LeftOf with the number n of the jobs that are gone.
LeftAfter(W, E, at, n) ==
  /\ Len(E) = n + Len(W)
  /\ \A k \in 1..Len(W) : n + k \in 1..Len(E) /\ W[k] = E[n + k]
  /\ \A m \in 1..Len(E) : at[E[m]] = "queued" <=> m > n

LEMMA LeftOfIsLeftAfter ==
  ASSUME NEW W \in Seq(Jobs), NEW E \in Seq(Jobs), NEW at
  PROVE  /\ LeftOf(W, E, at) => \E n \in Nat : LeftAfter(W, E, at, n)
         /\ \A n \in Nat : LeftAfter(W, E, at, n) => LeftOf(W, E, at)
<1>1. PICK w \in Nat : w = Len(W)
  OBVIOUS
<1>2. PICK e \in Nat : e = Len(E)
  OBVIOUS
<1>3. ASSUME LeftOf(W, E, at)
      PROVE  \E n \in Nat : LeftAfter(W, E, at, n)
  <2>1. PICK n \in Int : n = e - w
    OBVIOUS
  <2>2. /\ n >= 0
        /\ \A k \in 1..Len(W) : W[k] = E[n + k]
        /\ \A m \in 1..Len(E) : at[E[m]] = "queued" <=> m > n
    BY <1>1, <1>2, <1>3, <2>1 DEF LeftOf
  <2>3. n \in Nat /\ Len(E) = n + Len(W)
    BY <1>1, <1>2, <2>1, <2>2
  <2>4. \A k \in 1..Len(W) : n + k \in 1..Len(E)
    BY <1>1, <2>3
  <2> QED
    BY <2>2, <2>3, <2>4 DEF LeftAfter
<1>4. ASSUME NEW n \in Nat, LeftAfter(W, E, at, n)
      PROVE  LeftOf(W, E, at)
  <2>1. Len(E) - Len(W) = n /\ n >= 0
    BY <1>1, <1>4 DEF LeftAfter
  <2> QED
    BY <1>4, <2>1 DEF LeftOf, LeftAfter
<1> QED
  BY <1>3, <1>4

\* A job that waits is queued, in that scope.
LEMMA WaitingFacts ==
  ASSUME Core, NEW s \in Scopes, NEW k \in 1..Len(QueueOf(s).waiting)
  PROVE  LET j == QueueOf(s).waiting[k]
         IN /\ j \in Jobs
            /\ body[j] = "queued"
            /\ j \in DOMAIN activeJobs
            /\ activeJobs[j].scope = s
<1>1. PICK W \in Seq(Jobs) : W = QueueOf(s).waiting
  BY QueueOfType DEF Core
<1>2. PICK E \in Seq(Jobs) : E = enqueued[s]
  BY DEF Core, TypeOK
<1>3. PICK n \in Nat : LeftAfter(W, E, body, n)
  BY <1>1, <1>2, LeftOfIsLeftAfter DEF Core, WaitingIsTail
<1>4. k \in 1..Len(W) /\ n + k \in 1..Len(E) /\ W[k] = E[n + k] /\ n + k > n
  BY <1>1, <1>3 DEF LeftAfter
<1>5. body[W[k]] = "queued" /\ W[k] \in Jobs
  BY <1>3, <1>4 DEF LeftAfter
<1>6. W[k] \in DOMAIN activeJobs
  BY <1>5 DEF Core, AccountedFor, Open
<1>7. activeJobs[W[k]].scope = s
  BY <1>2, <1>4, <1>6 DEF Core, EnqueuedOnce
<1> QED
  BY <1>1, <1>5, <1>6, <1>7

-----------------------------------------------------------------------------
(* What follows from the core *)

\* A queued job is found in the queue of its scope and in no other.
LEMMA CoreForgetsNoJob == Core => NoJobForgotten
<1> SUFFICES ASSUME Core, NEW j \in Jobs, body[j] = "queued"
             PROVE  {s \in DOMAIN queueScopes : j \in ToSet(queueScopes[s].waiting)}
                      = {activeJobs[j].scope}
  BY DEF NoJobForgotten
<1> DEFINE t == activeJobs[j].scope
<1>1. j \in DOMAIN activeJobs
  BY DEF Core, AccountedFor, Open
<1>2. t \in Scopes
  BY <1>1 DEF Core, TypeOK
<1>3. PICK m \in 1..Len(enqueued[t]) : enqueued[t][m] = j
  BY <1>1 DEF Core, EnqueuedOnce
<1>4. PICK W \in Seq(Jobs) : W = QueueOf(t).waiting
  BY <1>2, QueueOfType DEF Core
<1>5. PICK k \in 1..Len(W) : W[k] = j
  <2>1. PICK E \in Seq(Jobs) : E = enqueued[t]
    BY <1>2 DEF Core, TypeOK
  <2>2. PICK n \in Nat : LeftAfter(W, E, body, n)
    BY <1>2, <1>4, <2>1, LeftOfIsLeftAfter DEF Core, WaitingIsTail
  <2>3. m \in 1..Len(E) /\ E[m] = j /\ m > n /\ Len(W) \in Nat
    BY <1>3, <2>1, <2>2 DEF LeftAfter
  <2>4. m - n \in 1..Len(W) /\ n + (m - n) = m
    BY <2>2, <2>3 DEF LeftAfter
  <2> QED
    BY <2>2, <2>3, <2>4 DEF LeftAfter
<1>6. t \in DOMAIN queueScopes /\ W = queueScopes[t].waiting
  <2>1. CASE t \notin DOMAIN queueScopes
    <3>1. W = << >>
      BY <1>4, <2>1 DEF QueueOf, IdlePQueue
    <3> QED
      BY <1>5, <3>1
  <2> QED
    BY <1>4, <2>1 DEF QueueOf
<1>8. j \in ToSet(queueScopes[t].waiting)
  <2>1. k \in DOMAIN W
    OBVIOUS
  <2> QED
    BY <1>5, <1>6, <2>1 DEF ToSet
<1>9. ASSUME NEW s \in DOMAIN queueScopes, j \in ToSet(queueScopes[s].waiting)
      PROVE  s = t
  <2>1. s \in Scopes /\ queueScopes[s].waiting = QueueOf(s).waiting
    BY DEF Core, TypeOK, QueueOf
  <2>2. QueueOf(s).waiting \in Seq(Jobs)
    BY <2>1, QueueOfType DEF Core
  <2>3. PICK l \in 1..Len(QueueOf(s).waiting) : QueueOf(s).waiting[l] = j
    BY <1>9, <2>1, <2>2 DEF ToSet
  <2> QED
    BY <2>1, <2>3, WaitingFacts
<1> QED
  BY <1>6, <1>8, <1>9

-----------------------------------------------------------------------------
(* How the steps move what is left of a scope *)

\* A step that starts and enqueues nothing there.
LEMMA LeftOfUnmoved ==
  ASSUME NEW W \in Seq(Jobs), NEW E \in Seq(Jobs), NEW at, NEW bt,
         \A m \in 1..Len(E) : at[E[m]] = "queued" <=> bt[E[m]] = "queued",
         LeftOf(W, E, at)
  PROVE  LeftOf(W, E, bt)
BY DEF LeftOf

\* One more job at the end of both.
LEMMA LeftOfAppended ==
  ASSUME NEW W \in Seq(Jobs), NEW E \in Seq(Jobs), NEW at, NEW bt,
         NEW j \in Jobs, bt[j] = "queued",
         \A m \in 1..Len(E) : at[E[m]] = "queued" <=> bt[E[m]] = "queued",
         LeftOf(W, E, at)
  PROVE  LeftOf(Append(W, j), Append(E, j), bt)
<1>1. PICK n \in Nat : LeftAfter(W, E, at, n)
  BY LeftOfIsLeftAfter
<1> DEFINE X == Append(W, j)
           F == Append(E, j)
<1>2. PICK w \in Nat : w = Len(W)
  OBVIOUS
<1>3. Len(E) = n + w
  BY <1>1, <1>2 DEF LeftAfter
<1>4. /\ X \in Seq(Jobs) /\ F \in Seq(Jobs)
      /\ Len(X) = w + 1 /\ Len(F) = n + w + 1
      /\ \A k \in 1..w : X[k] = W[k]
      /\ X[w + 1] = j
      /\ \A m \in 1..(n + w) : F[m] = E[m]
      /\ F[n + w + 1] = j
  BY <1>2, <1>3
<1> HIDE DEF X, F
<1>5. \A k \in 1..(w + 1) : n + k \in 1..(n + w + 1) /\ X[k] = F[n + k]
  <2> TAKE k \in 1..(w + 1)
  <2>1. CASE k = w + 1
    BY <1>4, <2>1
  <2>2. CASE k # w + 1
    <3>1. k \in 1..w
      BY <2>2
    <3>2. n + k \in 1..(n + w) /\ W[k] = E[n + k]
      BY <1>1, <1>2, <1>3, <3>1 DEF LeftAfter
    <3> QED
      BY <1>4, <3>1, <3>2
  <2> QED
    BY <2>1, <2>2
<1>6. \A m \in 1..(n + w + 1) : bt[F[m]] = "queued" <=> m > n
  <2> TAKE m \in 1..(n + w + 1)
  <2>1. CASE m = n + w + 1
    BY <1>4, <2>1
  <2>2. CASE m # n + w + 1
    <3>1. m \in 1..(n + w)
      BY <2>2
    <3>2. at[E[m]] = "queued" <=> m > n
      BY <1>1, <1>3, <3>1 DEF LeftAfter
    <3> QED
      BY <1>3, <1>4, <3>1, <3>2
  <2> QED
    BY <2>1, <2>2
<1>7. LeftAfter(X, F, bt, n)
  BY <1>4, <1>5, <1>6 DEF LeftAfter
<1>8. LeftOf(X, F, bt)
  BY <1>4, <1>7, LeftOfIsLeftAfter
<1> QED
  BY <1>8 DEF X, F

\* The job at the head starts.
LEMMA LeftOfStarted ==
  ASSUME NEW W \in Seq(Jobs), NEW E \in Seq(Jobs), NEW at, NEW bt,
         W # << >>, bt[Head(W)] # "queued",
         \A m \in 1..Len(E) :
           E[m] # Head(W) => (at[E[m]] = "queued" <=> bt[E[m]] = "queued"),
         \A m, k \in 1..Len(E) : E[m] = E[k] => m = k,
         LeftOf(W, E, at)
  PROVE  LeftOf(Tail(W), E, bt)
<1>1. PICK n \in Nat : LeftAfter(W, E, at, n)
  BY LeftOfIsLeftAfter
<1> DEFINE X == Tail(W)
<1>2. PICK w \in Nat : w = Len(W) /\ w >= 1
  OBVIOUS
<1>3. Len(E) = n + w
  BY <1>1, <1>2 DEF LeftAfter
<1>4. /\ X \in Seq(Jobs) /\ Len(X) = w - 1
      /\ \A k \in 1..(w - 1) : X[k] = W[k + 1]
      /\ Head(W) = W[1]
  BY <1>2
<1> HIDE DEF X
<1>5. n + 1 \in 1..Len(E) /\ E[n + 1] = Head(W)
  BY <1>1, <1>2, <1>4 DEF LeftAfter
<1>6. Len(E) = (n + 1) + Len(X)
  BY <1>3, <1>4
<1>7. \A k \in 1..Len(X) : (n + 1) + k \in 1..Len(E) /\ X[k] = E[(n + 1) + k]
  <2> TAKE k \in 1..Len(X)
  <2>1. k \in 1..(w - 1) /\ k + 1 \in 1..Len(W)
    BY <1>2, <1>4
  <2>2. n + (k + 1) = (n + 1) + k
    BY <2>1
  <2>3. n + (k + 1) \in 1..Len(E) /\ W[k + 1] = E[n + (k + 1)]
    BY <1>1, <2>1 DEF LeftAfter
  <2>4. X[k] = W[k + 1]
    BY <1>4, <2>1
  <2> QED
    BY <2>2, <2>3, <2>4
<1>8. \A m \in 1..Len(E) : bt[E[m]] = "queued" <=> m > n + 1
  <2> TAKE m \in 1..Len(E)
  <2>1. at[E[m]] = "queued" <=> m > n
    BY <1>1 DEF LeftAfter
  <2>2. CASE m = n + 1
    BY <1>5, <2>2
  <2>3. CASE m # n + 1
    <3>1. E[m] # Head(W)
      BY <1>5, <2>3
    <3>2. m > n <=> m > n + 1
      BY <1>3, <2>3
    <3> QED
      BY <2>1, <3>1, <3>2
  <2> QED
    BY <2>2, <2>3
<1>9. LeftAfter(X, E, bt, n + 1)
  BY <1>6, <1>7, <1>8 DEF LeftAfter
<1>10. LeftOf(X, E, bt)
  BY <1>4, <1>9, LeftOfIsLeftAfter
<1> QED
  BY <1>10 DEF X

-----------------------------------------------------------------------------
\* At the start nothing is enqueued.
LEMMA InitCore == QueueInit => Core /\ ScopesAreInUse
<1> SUFFICES ASSUME QueueInit PROVE Core /\ ScopesAreInUse
  OBVIOUS
<1>1. DOMAIN queueScopes = {} /\ DOMAIN activeJobs = {}
  BY DEF QueueInit
<1>2. \A s \in Scopes : enqueued[s] = << >> /\ Len(enqueued[s]) = 0
  BY DEF QueueInit
<1>3. \A s \in Scopes : QueueOf(s) = [waiting |-> << >>, pending |-> {}]
  BY <1>1 DEF QueueOf, IdlePQueue
<1>4. TypeOK
  <2>1. enqueued \in [Scopes -> Seq(Jobs)]
    BY DEF QueueInit
  <2>2. body \in [Jobs -> BodyStates]
    BY DEF QueueInit, BodyStates
  <2> QED
    BY <1>1, <2>1, <2>2 DEF TypeOK, QueueInit
<1>5. AccountedFor
  BY <1>1 DEF AccountedFor, Open, QueueInit
<1>6. SlotsAreHeld
  BY <1>1, <1>3 DEF SlotsAreHeld
<1>7. WaitingIsTail
  <2>1. LeftOf(<< >>, << >>, body)
    BY DEF LeftOf
  <2>2. \A s \in Scopes : QueueOf(s).waiting = << >>
    BY <1>3
  <2> QED
    BY <1>2, <2>1, <2>2 DEF WaitingIsTail
<1>8. EnqueuedOnce
  BY <1>1, <1>2 DEF EnqueuedOnce
<1>9. ScopesAreInUse
  BY <1>1 DEF ScopesAreInUse
<1> QED
  BY <1>4, <1>5, <1>6, <1>7, <1>8, <1>9 DEF Core

-----------------------------------------------------------------------------
(* What the actions do to the queues *)

\* FreeSlot takes j out of the slots and leaves the rest.
LEMMA FreeSlotEffect ==
  ASSUME TypeOK, NEW j, FreeSlot(j)
  PROVE  /\ DOMAIN queueScopes' = DOMAIN queueScopes
         /\ \A s \in DOMAIN queueScopes : queueScopes'[s] \in PQueues
         /\ \A s \in Scopes :
              /\ QueueOf(s)'.waiting = QueueOf(s).waiting
              /\ QueueOf(s)'.pending = QueueOf(s).pending \ {j}
<1>1. DOMAIN queueScopes' = DOMAIN queueScopes
  BY DEF FreeSlot
<1>2. ASSUME NEW s \in DOMAIN queueScopes
      PROVE  /\ queueScopes'[s] \in PQueues
             /\ queueScopes'[s].waiting = queueScopes[s].waiting
             /\ queueScopes'[s].pending = queueScopes[s].pending \ {j}
  <2>1. queueScopes[s] \in [waiting : Seq(Jobs), pending : SUBSET Jobs]
    BY DEF TypeOK, PQueues
  <2>2. queueScopes'[s] = [queueScopes[s] EXCEPT !.pending = @ \ {j}]
    BY DEF FreeSlot
  <2> QED
    BY <2>1, <2>2 DEF PQueues
<1> QED
  BY <1>1, <1>2 DEF QueueOf, IdlePQueue

\* A prune takes away what QueueOf gives back.
LEMMA PrunedEffect ==
  ASSUME TypeOK, NEW r, queueScopes' = Pruned(r)
  PROVE  /\ DOMAIN queueScopes' \subseteq DOMAIN queueScopes
         /\ DOMAIN queueScopes \ DOMAIN queueScopes' \subseteq {r}
         /\ \A s \in DOMAIN queueScopes' : queueScopes'[s] = queueScopes[s]
         /\ r \in DOMAIN queueScopes' => queueScopes[r] # IdlePQueue
         /\ \A s \in Scopes : QueueOf(s)' = QueueOf(s)
<1>1. CASE r \in DOMAIN queueScopes /\ queueScopes[r] = IdlePQueue
  <2>1. queueScopes' = [t \in DOMAIN queueScopes \ {r} |-> queueScopes[t]]
    BY <1>1 DEF Pruned, ScopesWithout
  <2> QED
    BY <1>1, <2>1 DEF QueueOf
<1>2. CASE ~(r \in DOMAIN queueScopes /\ queueScopes[r] = IdlePQueue)
  <2>1. queueScopes' = queueScopes
    BY <1>2 DEF Pruned
  <2> QED
    BY <1>2, <2>1 DEF QueueOf
<1> QED
  BY <1>1, <1>2

-----------------------------------------------------------------------------
(* Every action keeps the core and the use of the scopes *)

LEMMA EnqueueKeeps ==
  ASSUME Core, ScopesAreInUse, NEW j \in Jobs, NEW s \in Scopes, Enqueue(j, s)
  PROVE  Core' /\ ScopesAreInUse'
<1> DEFINE q == [QueueOf(s) EXCEPT !.waiting = Append(@, j)]
<1>1. /\ QueueOf(s) \in [waiting : Seq(Jobs), pending : SUBSET Jobs]
      /\ QueueOf(s).waiting \in Seq(Jobs)
  BY QueueOfType DEF Core, PQueues
<1>2. /\ q \in PQueues
      /\ q.waiting = Append(QueueOf(s).waiting, j)
      /\ q.pending = QueueOf(s).pending
  <2> DEFINE w == QueueOf(s).waiting
  <2>1. Append(w, j) \in Seq(Jobs)
    BY <1>1
  <2>2. /\ q = [QueueOf(s) EXCEPT !.waiting = Append(w, j)]
        /\ w = QueueOf(s).waiting
    OBVIOUS
  <2> HIDE DEF q, w
  <2> DEFINE a == Append(w, j)
  <2>3. q = [QueueOf(s) EXCEPT !.waiting = a] /\ a \in Seq(Jobs)
    BY <2>1, <2>2
  <2> HIDE DEF a
  <2>4. q \in PQueues /\ q.waiting = a /\ q.pending = QueueOf(s).pending
    BY <1>1, <2>3 DEF PQueues
  <2> QED
    BY <2>2, <2>4 DEF a
<1> HIDE DEF q
<1>3. /\ queueScopes' = [t \in DOMAIN queueScopes \cup {s} |->
                           IF t = s THEN q ELSE queueScopes[t]]
      /\ activeJobs' = [i \in DOMAIN activeJobs \cup {j} |->
                          IF i = j THEN [scope |-> s, started |-> FALSE]
                          ELSE activeJobs[i]]
      /\ tracked' = tracked \cup {j}
      /\ body[j] = "none"
      /\ body' = [body EXCEPT ![j] = "queued"]
      /\ enqueued' = [enqueued EXCEPT ![s] = Append(@, j)]
  BY DEF Enqueue, q
<1>4. /\ QueueOf(s)' = q
      /\ \A t \in Scopes \ {s} : QueueOf(t)' = QueueOf(t)
  BY <1>3 DEF QueueOf
<1>5. /\ body \in [Jobs -> BodyStates] /\ enqueued \in [Scopes -> Seq(Jobs)]
      /\ enqueued'[s] = Append(enqueued[s], j)
      /\ \A t \in Scopes \ {s} : enqueued'[t] = enqueued[t]
      /\ body'[j] = "queued"
      /\ \A i \in Jobs \ {j} : body'[i] = body[i]
  BY <1>3 DEF Core, TypeOK
<1>6. j \notin DOMAIN activeJobs
  BY <1>3 DEF Core, AccountedFor, Open
<1>7. \A t \in Scopes : \A m \in 1..Len(enqueued[t]) :
        enqueued[t][m] # j /\ enqueued[t][m] \in Jobs
  <2> TAKE t \in Scopes
  <2> TAKE m \in 1..Len(enqueued[t])
  <2>1. enqueued[t] \in Seq(Jobs)
    BY <1>5
  <2> QED
    BY <1>3, <2>1 DEF Core, EnqueuedOnce
<1>8. TypeOK'
  <2>1. enqueued' \in [Scopes -> Seq(Jobs)]
    BY <1>3, <1>5
  <2>2. body' \in [Jobs -> BodyStates]
    BY <1>3, <1>5 DEF BodyStates
  <2>3. \A t \in DOMAIN queueScopes' : queueScopes'[t] \in PQueues
    BY <1>2, <1>3 DEF Core, TypeOK
  <2>4. \A i \in DOMAIN activeJobs' : activeJobs'[i] \in [scope: Scopes, started: BOOLEAN]
    BY <1>3 DEF Core, TypeOK
  <2> QED
    BY <1>3, <2>1, <2>2, <2>3, <2>4 DEF Core, TypeOK
<1>9. AccountedFor'
  BY <1>3, <1>5 DEF Core, AccountedFor, Open
<1>10. SlotsAreHeld'
  <2> SUFFICES ASSUME NEW t \in Scopes
               PROVE  /\ QueueOf(t)'.pending = {i \in DOMAIN activeJobs' :
                            body'[i] = "running" /\ activeJobs'[i].scope = t}
                      /\ \A i, k \in QueueOf(t)'.pending : i = k
    BY DEF SlotsAreHeld
  <2>1. QueueOf(t)'.pending = QueueOf(t).pending
    BY <1>2, <1>4
  <2>2. DOMAIN activeJobs \subseteq Jobs
    BY DEF Core, TypeOK
  <2>3. {i \in DOMAIN activeJobs' : body'[i] = "running" /\ activeJobs'[i].scope = t}
          = {i \in DOMAIN activeJobs : body[i] = "running" /\ activeJobs[i].scope = t}
    BY <1>3, <1>5, <1>6, <2>2
  <2> QED
    BY <2>1, <2>3 DEF Core, SlotsAreHeld
<1>11. WaitingIsTail'
  <2> SUFFICES ASSUME NEW t \in Scopes
               PROVE  LeftOf(QueueOf(t)'.waiting, enqueued'[t], body')
    BY DEF WaitingIsTail
  <2>1. /\ QueueOf(t).waiting \in Seq(Jobs) /\ enqueued[t] \in Seq(Jobs)
        /\ LeftOf(QueueOf(t).waiting, enqueued[t], body)
    BY <1>5, QueueOfType DEF Core, WaitingIsTail
  <2>2. \A m \in 1..Len(enqueued[t]) :
          body[enqueued[t][m]] = "queued" <=> body'[enqueued[t][m]] = "queued"
    BY <1>5, <1>7
  <2>3. CASE t = s
    <3>1. /\ QueueOf(t)'.waiting = Append(QueueOf(t).waiting, j)
          /\ enqueued'[t] = Append(enqueued[t], j)
      BY <1>2, <1>4, <1>5, <2>3
    <3>2. j \in Jobs /\ body'[j] = "queued"
      BY <1>5
    <3>3. LeftOf(Append(QueueOf(t).waiting, j), Append(enqueued[t], j), body')
      BY <2>1, <2>2, <3>2, LeftOfAppended
    <3> QED
      BY <3>1, <3>3
  <2>4. CASE t # s
    BY <1>4, <1>5, <2>1, <2>2, <2>4, LeftOfUnmoved
  <2> QED
    BY <2>3, <2>4
<1>12. EnqueuedOnce'
  <2>1. PICK e \in Nat : e = Len(enqueued[s])
    BY <1>5
  <2>2. /\ Len(enqueued'[s]) = e + 1
        /\ enqueued'[s][e + 1] = j
        /\ \A m \in 1..e : enqueued'[s][m] = enqueued[s][m]
    BY <1>5, <2>1
  <2>3. \A t \in Scopes : \A m \in 1..Len(enqueued'[t]) :
          \/ t = s /\ m = e + 1 /\ enqueued'[t][m] = j
          \/ /\ m \in 1..Len(enqueued[t])
             /\ enqueued'[t][m] = enqueued[t][m]
             /\ enqueued'[t][m] # j
    <3> TAKE t \in Scopes
    <3> TAKE m \in 1..Len(enqueued'[t])
    <3>1. CASE t = s
      <4>1. m \in 1..(e + 1)
        BY <2>2, <3>1
      <4>2. m = e + 1 \/ m \in 1..e
        BY <4>1
      <4> QED
        BY <1>7, <2>1, <2>2, <3>1, <4>2
    <3>2. CASE t # s
      BY <1>5, <1>7, <3>2
    <3> QED
      BY <3>1, <3>2
  <2>4. ASSUME NEW t \in Scopes, NEW m \in 1..Len(enqueued'[t])
        PROVE  LET i == enqueued'[t][m]
               IN /\ body'[i] # "none"
                  /\ i \in DOMAIN activeJobs' => activeJobs'[i].scope = t
                  /\ \A u \in Scopes : \A k \in 1..Len(enqueued'[u]) :
                       enqueued'[u][k] = i => u = t /\ k = m
    <3>1. CASE t = s /\ m = e + 1 /\ enqueued'[t][m] = j
      BY <1>3, <1>5, <2>3, <3>1
    <3>2. CASE /\ m \in 1..Len(enqueued[t])
               /\ enqueued'[t][m] = enqueued[t][m]
               /\ enqueued'[t][m] # j
      <4>1. enqueued[t][m] \in Jobs \ {j}
        BY <1>7, <3>2
      <4>2. body'[enqueued[t][m]] # "none"
        BY <1>5, <3>2, <4>1 DEF Core, EnqueuedOnce
      <4>3. enqueued[t][m] \in DOMAIN activeJobs' => activeJobs'[enqueued[t][m]].scope = t
        BY <1>3, <3>2, <4>1 DEF Core, EnqueuedOnce
      <4>4. \A u \in Scopes : \A k \in 1..Len(enqueued'[u]) :
              enqueued'[u][k] = enqueued[t][m] => u = t /\ k = m
        BY <2>3, <3>2, <4>1 DEF Core, EnqueuedOnce
      <4> QED
        BY <3>2, <4>2, <4>3, <4>4
    <3> QED
      BY <2>3, <3>1, <3>2
  <2>5. ASSUME NEW i \in DOMAIN activeJobs'
        PROVE  \E m \in 1..Len(enqueued'[activeJobs'[i].scope]) :
                 enqueued'[activeJobs'[i].scope][m] = i
    <3>1. CASE i = j
      <4>1. activeJobs'[i].scope = s /\ e + 1 \in 1..Len(enqueued'[s])
        BY <1>3, <2>2, <3>1
      <4> QED
        BY <2>2, <3>1, <4>1
    <3>2. CASE i # j
      <4>1. i \in DOMAIN activeJobs /\ activeJobs'[i] = activeJobs[i]
        BY <1>3, <3>2
      <4>2. activeJobs[i].scope \in Scopes
        BY <4>1 DEF Core, TypeOK
      <4>3. PICK m \in 1..Len(enqueued[activeJobs[i].scope]) :
              enqueued[activeJobs[i].scope][m] = i
        BY <4>1 DEF Core, EnqueuedOnce
      <4>4. CASE activeJobs[i].scope = s
        <5>1. m \in 1..e /\ m \in 1..(e + 1)
          BY <2>1, <4>3, <4>4
        <5> QED
          BY <2>2, <4>1, <4>3, <4>4, <5>1
      <4>5. CASE activeJobs[i].scope # s
        BY <1>5, <4>1, <4>2, <4>3, <4>5
      <4> QED
        BY <4>4, <4>5
    <3> QED
      BY <3>1, <3>2
  <2> QED
    BY <2>4, <2>5 DEF EnqueuedOnce
<1>13. ScopesAreInUse'
  <2> SUFFICES ASSUME NEW t \in DOMAIN queueScopes'
               PROVE  \E i \in DOMAIN activeJobs' : activeJobs'[i].scope = t
    BY DEF ScopesAreInUse
  <2>1. CASE t = s
    <3>1. j \in DOMAIN activeJobs' /\ activeJobs'[j].scope = s
      BY <1>3
    <3> QED
      BY <2>1, <3>1
  <2>2. CASE t # s
    <3>1. PICK i \in DOMAIN activeJobs : activeJobs[i].scope = t
      BY <1>3, <2>2 DEF ScopesAreInUse
    <3>2. i \in DOMAIN activeJobs' /\ activeJobs'[i] = activeJobs[i]
      BY <1>3, <1>6, <3>1
    <3> QED
      BY <3>1, <3>2
  <2> QED
    BY <2>1, <2>2
<1> QED
  BY <1>8, <1>9, <1>10, <1>11, <1>12, <1>13 DEF Core

\* A step that enqueues and starts nothing keeps what is said about the order,
\* if the snapshots that remain are the old ones.
LEMMA OrderIsKept ==
  ASSUME Core, enqueued' = enqueued,
         \A s \in Scopes : QueueOf(s)'.waiting = QueueOf(s).waiting,
         \A i \in Jobs : /\ body'[i] = "queued" <=> body[i] = "queued"
                         /\ body'[i] = "none" <=> body[i] = "none",
         DOMAIN activeJobs' \subseteq DOMAIN activeJobs,
         \A i \in DOMAIN activeJobs' : activeJobs'[i] = activeJobs[i]
  PROVE  WaitingIsTail' /\ EnqueuedOnce'
<1>1. \A s \in Scopes : \A m \in 1..Len(enqueued[s]) : enqueued[s][m] \in Jobs
  <2> TAKE s \in Scopes
  <2>1. enqueued[s] \in Seq(Jobs)
    BY DEF Core, TypeOK
  <2> QED
    BY <2>1
<1>2. ASSUME NEW s \in Scopes
      PROVE  LeftOf(QueueOf(s)'.waiting, enqueued'[s], body')
  <2>1. /\ QueueOf(s).waiting \in Seq(Jobs) /\ enqueued[s] \in Seq(Jobs)
        /\ LeftOf(QueueOf(s).waiting, enqueued[s], body)
    BY QueueOfType DEF Core, TypeOK, WaitingIsTail
  <2>2. \A m \in 1..Len(enqueued[s]) :
          body[enqueued[s][m]] = "queued" <=> body'[enqueued[s][m]] = "queued"
    BY <1>1
  <2> QED
    BY <2>1, <2>2, LeftOfUnmoved
<1>3. WaitingIsTail'
  BY <1>2 DEF WaitingIsTail
<1>4. EnqueuedOnce'
  BY <1>1 DEF Core, EnqueuedOnce
<1> QED
  BY <1>3, <1>4

LEMMA StartKeeps ==
  ASSUME Core, ScopesAreInUse, NEW s \in Scopes, Start(s)
  PROVE  Core' /\ ScopesAreInUse'
<1>1. /\ s \in DOMAIN queueScopes
      /\ QueueOf(s) = queueScopes[s]
      /\ QueueOf(s) \in [waiting : Seq(Jobs), pending : SUBSET Jobs]
      /\ QueueOf(s).waiting \in Seq(Jobs)
      /\ QueueOf(s).waiting # << >>
      /\ QueueOf(s).pending = {}
  BY QueueOfType DEF Start, QueueOf, PQueues, Core
<1>2. PICK W \in Seq(Jobs) : W = QueueOf(s).waiting
  BY <1>1
<1>3. PICK j \in Jobs : j = Head(W)
  BY <1>1, <1>2
<1>4. /\ body[j] = "queued" /\ j \in DOMAIN activeJobs /\ activeJobs[j].scope = s
  <2>1. 1 \in 1..Len(QueueOf(s).waiting) /\ QueueOf(s).waiting[1] = j
    BY <1>1, <1>2, <1>3
  <2> QED
    BY <2>1, WaitingFacts
<1> DEFINE q == [queueScopes[s] EXCEPT !.waiting = Tail(@), !.pending = {j}]
<1>5. q \in PQueues /\ q.waiting = Tail(W) /\ q.pending = {j}
  <2>1. queueScopes[s] \in [waiting : Seq(Jobs), pending : SUBSET Jobs]
    BY <1>1
  <2>2. Tail(W) \in Seq(Jobs)
    BY <1>1, <1>2
  <2> QED
    BY <1>1, <1>2, <2>1, <2>2 DEF PQueues
<1>6. /\ queueScopes' = [queueScopes EXCEPT ![s] = q]
      /\ activeJobs' = [activeJobs EXCEPT ![j].started = TRUE]
      /\ body' = [body EXCEPT ![j] = "running"]
      /\ tracked' = tracked
      /\ enqueued' = enqueued
  BY <1>1, <1>2, <1>3 DEF Start
<1> HIDE DEF q
<1>7. /\ QueueOf(s)' = q
      /\ \A t \in Scopes \ {s} : QueueOf(t)' = QueueOf(t)
  BY <1>1, <1>6 DEF QueueOf
<1>8. /\ body \in [Jobs -> BodyStates]
      /\ body'[j] = "running"
      /\ \A i \in Jobs \ {j} : body'[i] = body[i]
      /\ DOMAIN activeJobs' = DOMAIN activeJobs
      /\ DOMAIN activeJobs \subseteq Jobs
      /\ \A i \in DOMAIN activeJobs : activeJobs[i] \in [scope: Scopes, started: BOOLEAN]
  BY <1>6 DEF Core, TypeOK
<1>9. \A i \in DOMAIN activeJobs :
        /\ activeJobs'[i] \in [scope: Scopes, started: BOOLEAN]
        /\ activeJobs'[i].scope = activeJobs[i].scope
  BY <1>6, <1>8
<1>10. \A t \in Scopes : \A m \in 1..Len(enqueued[t]) : enqueued[t][m] \in Jobs
  <2> TAKE t \in Scopes
  <2>1. enqueued[t] \in Seq(Jobs)
    BY DEF Core, TypeOK
  <2> QED
    BY <2>1
<1>11. TypeOK'
  <2>1. body' \in [Jobs -> BodyStates]
    BY <1>6, <1>8 DEF BodyStates
  <2>2. \A t \in DOMAIN queueScopes' : queueScopes'[t] \in PQueues
    BY <1>5, <1>6 DEF Core, TypeOK
  <2> QED
    BY <1>6, <1>8, <1>9, <2>1, <2>2 DEF Core, TypeOK
<1>12. AccountedFor'
  BY <1>4, <1>6, <1>8 DEF Core, AccountedFor, Open
<1>13. SlotsAreHeld'
  <2> SUFFICES ASSUME NEW t \in Scopes
               PROVE  /\ QueueOf(t)'.pending = {i \in DOMAIN activeJobs' :
                            body'[i] = "running" /\ activeJobs'[i].scope = t}
                      /\ \A i, k \in QueueOf(t)'.pending : i = k
    BY DEF SlotsAreHeld
  <2>1. QueueOf(t).pending =
          {i \in DOMAIN activeJobs : body[i] = "running" /\ activeJobs[i].scope = t}
    BY DEF Core, SlotsAreHeld
  <2>2. CASE t = s
    <3>1. {i \in DOMAIN activeJobs' : body'[i] = "running" /\ activeJobs'[i].scope = s} = {j}
      BY <1>1, <1>4, <1>8, <1>9, <2>1, <2>2
    <3> QED
      BY <1>5, <1>7, <2>2, <3>1
  <2>3. CASE t # s
    <3>1. {i \in DOMAIN activeJobs' : body'[i] = "running" /\ activeJobs'[i].scope = t}
            = {i \in DOMAIN activeJobs : body[i] = "running" /\ activeJobs[i].scope = t}
      BY <1>4, <1>8, <1>9, <2>3
    <3> QED
      BY <1>7, <2>1, <2>3, <3>1 DEF Core, SlotsAreHeld
  <2> QED
    BY <2>2, <2>3
<1>14. WaitingIsTail'
  <2> SUFFICES ASSUME NEW t \in Scopes
               PROVE  LeftOf(QueueOf(t)'.waiting, enqueued'[t], body')
    BY DEF WaitingIsTail
  <2>1. /\ QueueOf(t).waiting \in Seq(Jobs) /\ enqueued[t] \in Seq(Jobs)
        /\ LeftOf(QueueOf(t).waiting, enqueued[t], body)
    BY QueueOfType DEF Core, TypeOK, WaitingIsTail
  <2>2. CASE t = s
    <3>1. \A m \in 1..Len(enqueued[s]) : enqueued[s][m] # j =>
            (body[enqueued[s][m]] = "queued" <=> body'[enqueued[s][m]] = "queued")
      BY <1>8, <1>10
    <3>2. \A m, k \in 1..Len(enqueued[s]) : enqueued[s][m] = enqueued[s][k] => m = k
      BY DEF Core, EnqueuedOnce
    <3>3. LeftOf(Tail(W), enqueued[s], body')
      BY <1>1, <1>2, <1>3, <1>8, <2>1, <2>2, <3>1, <3>2, LeftOfStarted
    <3> QED
      BY <1>5, <1>6, <1>7, <2>2, <3>3
  <2>3. CASE t # s
    <3>1. \A m \in 1..Len(enqueued[t]) : enqueued[t][m] # j
      BY <1>4, <2>3 DEF Core, EnqueuedOnce
    <3>2. \A m \in 1..Len(enqueued[t]) :
            body[enqueued[t][m]] = "queued" <=> body'[enqueued[t][m]] = "queued"
      BY <1>8, <1>10, <3>1
    <3> QED
      BY <1>6, <1>7, <2>1, <2>3, <3>2, LeftOfUnmoved
  <2> QED
    BY <2>2, <2>3
<1>15. EnqueuedOnce'
  <2>1. \A i \in Jobs : body[i] # "none" => body'[i] # "none"
    BY <1>8
  <2> QED
    BY <1>6, <1>8, <1>9, <1>10, <2>1 DEF Core, EnqueuedOnce
<1>16. ScopesAreInUse'
  BY <1>6, <1>8, <1>9 DEF ScopesAreInUse
<1> QED
  BY <1>11, <1>12, <1>13, <1>14, <1>15, <1>16 DEF Core

\* A body is over, or given up: its slot is free.
LEMMA FreedKeeps ==
  ASSUME Core, ScopesAreInUse, NEW j \in Jobs, BodySettles(j) \/ HardTimeout(j)
  PROVE  Core' /\ ScopesAreInUse'
<1>1. /\ body[j] = "running"
      /\ body' = [body EXCEPT ![j] = "settled"] \/ body' = [body EXCEPT ![j] = "abandoned"]
      /\ FreeSlot(j)
      /\ activeJobs' = activeJobs /\ tracked' = tracked /\ enqueued' = enqueued
  BY DEF BodySettles, HardTimeout
<1>2. /\ body \in [Jobs -> BodyStates]
      /\ body'[j] \in {"settled", "abandoned"}
      /\ \A i \in Jobs \ {j} : body'[i] = body[i]
      /\ DOMAIN activeJobs \subseteq Jobs
  BY <1>1 DEF Core, TypeOK
<1>3. /\ DOMAIN queueScopes' = DOMAIN queueScopes
      /\ \A s \in DOMAIN queueScopes : queueScopes'[s] \in PQueues
      /\ \A s \in Scopes :
           /\ QueueOf(s)'.waiting = QueueOf(s).waiting
           /\ QueueOf(s)'.pending = QueueOf(s).pending \ {j}
  BY <1>1, FreeSlotEffect DEF Core
<1>4. TypeOK'
  <2>1. body' \in [Jobs -> BodyStates]
    BY <1>1, <1>2 DEF BodyStates
  <2> QED
    BY <1>1, <1>3, <2>1 DEF Core, TypeOK
<1>5. AccountedFor'
  BY <1>1, <1>2 DEF Core, AccountedFor, Open
<1>6. SlotsAreHeld'
  <2> SUFFICES ASSUME NEW t \in Scopes
               PROVE  /\ QueueOf(t)'.pending = {i \in DOMAIN activeJobs' :
                            body'[i] = "running" /\ activeJobs'[i].scope = t}
                      /\ \A i, k \in QueueOf(t)'.pending : i = k
    BY DEF SlotsAreHeld
  <2>1. /\ QueueOf(t).pending =
             {i \in DOMAIN activeJobs : body[i] = "running" /\ activeJobs[i].scope = t}
        /\ \A i, k \in QueueOf(t).pending : i = k
    BY DEF Core, SlotsAreHeld
  <2>2. {i \in DOMAIN activeJobs' : body'[i] = "running" /\ activeJobs'[i].scope = t}
          = {i \in DOMAIN activeJobs : body[i] = "running" /\ activeJobs[i].scope = t} \ {j}
    BY <1>1, <1>2
  <2> QED
    BY <1>3, <2>1, <2>2
<1>7. WaitingIsTail' /\ EnqueuedOnce'
  BY <1>1, <1>2, <1>3, OrderIsKept
<1>8. ScopesAreInUse'
  BY <1>1, <1>3 DEF ScopesAreInUse
<1> QED
  BY <1>4, <1>5, <1>6, <1>7, <1>8 DEF Core

LEMMA CloseKeeps ==
  ASSUME Core, ScopesAreInUse, NEW j \in Jobs, Close(j)
  PROVE  Core' /\ ScopesAreInUse'
<1>1. /\ body[j] \in {"settled", "abandoned"}
      /\ body' = [body EXCEPT ![j] = IF @ = "settled" THEN "done" ELSE "abandoned-closed"]
      /\ tracked' = tracked \ {j}
      /\ activeJobs' = [i \in DOMAIN activeJobs \ {j} |-> activeJobs[i]]
      /\ queueScopes' = Pruned(activeJobs[j].scope)
      /\ enqueued' = enqueued
  BY DEF Close
<1>2. /\ body \in [Jobs -> BodyStates]
      /\ body'[j] \in {"done", "abandoned-closed"}
      /\ \A i \in Jobs \ {j} : body'[i] = body[i]
      /\ DOMAIN activeJobs \subseteq Jobs
      /\ DOMAIN activeJobs' = DOMAIN activeJobs \ {j}
      /\ \A i \in DOMAIN activeJobs \ {j} : activeJobs'[i] = activeJobs[i]
  BY <1>1 DEF Core, TypeOK
<1> DEFINE r == activeJobs[j].scope
<1>3. /\ DOMAIN queueScopes' \subseteq DOMAIN queueScopes
      /\ \A s \in DOMAIN queueScopes' : queueScopes'[s] = queueScopes[s]
      /\ r \in DOMAIN queueScopes' => queueScopes[r] # IdlePQueue
      /\ \A s \in Scopes : QueueOf(s)' = QueueOf(s)
  BY <1>1, PrunedEffect DEF Core
<1>4. TypeOK'
  <2>1. body' \in [Jobs -> BodyStates]
    BY <1>1, <1>2 DEF BodyStates
  <2> QED
    BY <1>1, <1>2, <1>3, <2>1 DEF Core, TypeOK
<1>5. AccountedFor'
  BY <1>1, <1>2 DEF Core, AccountedFor, Open
<1>6. SlotsAreHeld'
  <2> SUFFICES ASSUME NEW t \in Scopes
               PROVE  /\ QueueOf(t)'.pending = {i \in DOMAIN activeJobs' :
                            body'[i] = "running" /\ activeJobs'[i].scope = t}
                      /\ \A i, k \in QueueOf(t)'.pending : i = k
    BY DEF SlotsAreHeld
  <2>1. {i \in DOMAIN activeJobs' : body'[i] = "running" /\ activeJobs'[i].scope = t}
          = {i \in DOMAIN activeJobs : body[i] = "running" /\ activeJobs[i].scope = t}
    BY <1>1, <1>2
  <2> QED
    BY <1>3, <2>1 DEF Core, SlotsAreHeld
<1>7. WaitingIsTail' /\ EnqueuedOnce'
  BY <1>1, <1>2, <1>3, OrderIsKept
<1>8. ScopesAreInUse'
  <2> SUFFICES ASSUME NEW t \in DOMAIN queueScopes'
               PROVE  \E i \in DOMAIN activeJobs' : activeJobs'[i].scope = t
    BY DEF ScopesAreInUse
  <2>1. PICK i \in DOMAIN activeJobs : activeJobs[i].scope = t
    BY <1>3 DEF ScopesAreInUse
  <2>2. CASE i # j
    BY <1>2, <2>1, <2>2
  <2>3. CASE i = j
    <3>1. /\ t \in Scopes /\ QueueOf(t) = queueScopes[t] /\ QueueOf(t) # IdlePQueue
          /\ QueueOf(t) \in [waiting : Seq(Jobs), pending : SUBSET Jobs]
      BY <1>3, <2>1, <2>3, QueueOfType DEF Core, TypeOK, QueueOf, PQueues
    <3>2. CASE QueueOf(t).pending # {}
      <4>1. PICK k \in DOMAIN activeJobs : body[k] = "running" /\ activeJobs[k].scope = t
        BY <3>1, <3>2 DEF Core, SlotsAreHeld
      <4> QED
        BY <1>1, <1>2, <4>1
    <3>3. CASE QueueOf(t).pending = {}
      <4>1. QueueOf(t).waiting # << >>
        BY <3>1, <3>3 DEF IdlePQueue
      <4>2. 1 \in 1..Len(QueueOf(t).waiting)
        BY <3>1, <4>1
      <4>3. PICK k \in DOMAIN activeJobs : body[k] = "queued" /\ activeJobs[k].scope = t
        BY <3>1, <4>2, WaitingFacts
      <4> QED
        BY <1>1, <1>2, <4>3
    <3> QED
      BY <3>2, <3>3
  <2> QED
    BY <2>2, <2>3
<1> QED
  BY <1>4, <1>5, <1>6, <1>7, <1>8 DEF Core

LEMMA AbandonedBodyEndsKeeps ==
  ASSUME Core, ScopesAreInUse, NEW j \in Jobs, AbandonedBodyEnds(j)
  PROVE  Core' /\ ScopesAreInUse'
<1>1. /\ body[j] = "abandoned-closed"
      /\ body' = [body EXCEPT ![j] = "done"]
      /\ queueScopes' = queueScopes /\ activeJobs' = activeJobs
      /\ tracked' = tracked /\ enqueued' = enqueued
  BY DEF AbandonedBodyEnds
<1>2. /\ body \in [Jobs -> BodyStates]
      /\ body'[j] = "done"
      /\ \A i \in Jobs \ {j} : body'[i] = body[i]
      /\ DOMAIN activeJobs \subseteq Jobs
      /\ \A s \in Scopes : QueueOf(s)' = QueueOf(s)
  BY <1>1 DEF Core, TypeOK, QueueOf
<1>3. TypeOK'
  <2>1. body' \in [Jobs -> BodyStates]
    BY <1>1, <1>2 DEF BodyStates
  <2> QED
    BY <1>1, <2>1 DEF Core, TypeOK
<1>4. AccountedFor'
  BY <1>1, <1>2 DEF Core, AccountedFor, Open
<1>5. SlotsAreHeld'
  <2>1. \A i \in Jobs : body'[i] = "running" <=> body[i] = "running"
    BY <1>1, <1>2
  <2>2. \A t \in Scopes :
          {i \in DOMAIN activeJobs' : body'[i] = "running" /\ activeJobs'[i].scope = t}
            = {i \in DOMAIN activeJobs : body[i] = "running" /\ activeJobs[i].scope = t}
    BY <1>1, <1>2, <2>1
  <2> QED
    BY <1>2, <2>2 DEF Core, SlotsAreHeld
<1>6. WaitingIsTail' /\ EnqueuedOnce'
  BY <1>1, <1>2, OrderIsKept
<1>7. ScopesAreInUse'
  BY <1>1 DEF ScopesAreInUse
<1> QED
  BY <1>3, <1>4, <1>5, <1>6, <1>7 DEF Core

-----------------------------------------------------------------------------
LEMMA NextKeeps ==
  ASSUME Core, ScopesAreInUse, [QueueNext]_queueVars
  PROVE  Core' /\ ScopesAreInUse'
<1>1. CASE UNCHANGED queueVars
  BY <1>1 DEF queueVars, Core, TypeOK, AccountedFor, Open, SlotsAreHeld, WaitingIsTail,
              QueueOf, EnqueuedOnce, ScopesAreInUse
<1>2. CASE QueueNext
  BY <1>2, EnqueueKeeps, StartKeeps, FreedKeeps, CloseKeeps, AbandonedBodyEndsKeeps
     DEF QueueNext
<1> QED
  BY <1>1, <1>2

\* One slot per scope, held by the one job that runs.
LEMMA CoreSerializes == Core => Serialized
<1> SUFFICES ASSUME Core, NEW s \in Scopes
             PROVE  Cardinality({j \in DOMAIN activeJobs :
                      activeJobs[j].scope = s /\ body[j] = "running"}) <= 1
  BY DEF Serialized
<1> DEFINE R == {j \in DOMAIN activeJobs : activeJobs[j].scope = s /\ body[j] = "running"}
<1>1. \A i, j \in R : i = j
  BY DEF Core, SlotsAreHeld
<1>2. CASE R = {}
  BY <1>2, FS_EmptySet
<1>3. CASE R # {}
  <2>1. PICK j : R = {j}
    BY <1>1, <1>3
  <2>2. Cardinality({j}) = 1
    BY FS_Singleton
  <2> QED
    BY <2>1, <2>2
<1> QED
  BY <1>2, <1>3

\* What the proofs carry from step to step is as strong as QueueInv.
LEMMA CoreIsEnough == Core /\ ScopesAreInUse => QueueInv
<1> QED
  BY CoreForgetsNoJob, CoreSerializes DEF Core, QueueInv

\* The bookkeeping of createJobQueue is right in every reachable state.
THEOREM QueueInvariant == QueueSpec => []QueueInv
<1>1. QueueInit => Core /\ ScopesAreInUse
  BY InitCore
<1>2. (Core /\ ScopesAreInUse) /\ [QueueNext]_queueVars => (Core /\ ScopesAreInUse)'
  BY NextKeeps
<1>3. Core /\ ScopesAreInUse => QueueInv
  BY CoreIsEnough
<1> QED
  BY <1>1, <1>2, <1>3, PTL DEF QueueSpec

\* The order of starts is in the books.
LEMMA BooksKeepOrder == QueueInv => StartsInOrder
<1> SUFFICES ASSUME QueueInv, NEW s \in Scopes,
                    NEW i \in 1..Len(enqueued[s]), NEW k \in 1..Len(enqueued[s]),
                    i < k, body[enqueued[s][i]] = "queued"
             PROVE  body[enqueued[s][k]] = "queued"
  BY DEF StartsInOrder
<1>1. PICK W \in Seq(Jobs) : W = QueueOf(s).waiting
  BY QueueOfType DEF QueueInv
<1>2. PICK E \in Seq(Jobs) : E = enqueued[s]
  BY DEF QueueInv, TypeOK
<1>3. PICK n \in Nat : LeftAfter(W, E, body, n)
  BY <1>1, <1>2, LeftOfIsLeftAfter DEF QueueInv, WaitingIsTail
<1>4. i > n
  BY <1>2, <1>3 DEF LeftAfter
<1>5. k > n
  BY <1>4
<1> QED
  BY <1>2, <1>3, <1>5 DEF LeftAfter

\* Jobs of one scope start in the order of their enqueue calls: what waits is
\* the tail of what was enqueued.
THEOREM JobsStartInOrder == QueueSpec => []StartsInOrder
<1> QED
  BY BooksKeepOrder, QueueInvariant, PTL

Books == Core /\ ScopesAreInUse

\* The bodies that execute are of open jobs, or were given up.
LEMMA ExecutingIsOpen ==
  ASSUME NEW j \in Executing
  PROVE  j \in Open \/ body[j] = "abandoned-closed"
<1> QED
  BY DEF Executing, Open

\* Whatever the process does is a step of the queue or leaves it alone.
LEMMA ProcessMovesQueue ==
  ASSUME [ShutdownNext]_vars
  PROVE  [QueueNext]_queueVars
BY DEF ShutdownNext, QueueStep, DispatchBegins, DispatchEnds, BeginShutdown, Drained,
       ExtendGrace, GiveUp, NoticePosted, NoticeFails, NoticeTimesOut, NoticeEnds,
       NoticesSettled, Exit, vars

\* The queue inside its process is the queue of createJobQueue: dispatches,
\* grace windows, notices and the exit add nothing to what it may do.
THEOREM ProcessUsesTheQueue == ShutdownSpec => QueueSpec
<1>1. ShutdownInit => QueueInit
  BY DEF ShutdownInit
<1> QED
  BY <1>1, ProcessMovesQueue, PTL DEF ShutdownSpec, QueueSpec

\* The books stay right whatever the process does.
LEMMA BooksNext ==
  ASSUME Books, [ShutdownNext]_vars
  PROVE  Books'
BY ProcessMovesQueue, NextKeeps DEF Books

LEMMA BooksAlways == ShutdownSpec => []Books
<1>1. ShutdownInit => Books
  BY InitCore DEF ShutdownInit, Books
<1>2. Books /\ [ShutdownNext]_vars => Books'
  BY BooksNext
<1> QED
  BY <1>1, <1>2, PTL DEF ShutdownSpec

\* The bookkeeping of createJobQueue is right in every state of a process that
\* serves, drains, announces and closes.
THEOREM QueueKeepsItsBooks == ShutdownSpec => []QueueInv
<1>1. Books => QueueInv
  BY CoreIsEnough DEF Books
<1> QED
  BY <1>1, BooksAlways, PTL

\* Jobs of one scope start in the order of their enqueue calls.
THEOREM ShutdownKeepsOrder == ShutdownSpec => []StartsInOrder
<1> QED
  BY BooksKeepOrder, QueueKeepsItsBooks, PTL

-----------------------------------------------------------------------------
(* What a step of the queue does to its jobs *)

LEMMA QueueStepEffect ==
  ASSUME Books, QueueNext
  PROVE  /\ \A j \in Executing' :
              j \in Executing \/ j \in Open
         /\ \A j \in Jobs : body[j] = "abandoned-closed" =>
              body'[j] \in {"abandoned-closed", "done"}
         /\ \A j \in Jobs : body[j] \notin {"none", "queued"} =>
              body'[j] \notin {"none", "queued"}
         /\ \A j \in Open \cap Open' :
              /\ activeJobs'[j].scope = activeJobs[j].scope
              /\ activeJobs'[j].started => activeJobs[j].started \/ body'[j] = "running"
         /\ \A j \in Open' \ Open : ~activeJobs'[j].started
<1> USE DEF Executing, Open
<1>0. /\ body \in [Jobs -> BodyStates] /\ DOMAIN activeJobs = Open
      /\ \A j \in DOMAIN activeJobs : activeJobs[j] \in [scope: Scopes, started: BOOLEAN]
  BY DEF Books, Core, TypeOK, AccountedFor
<1>1. ASSUME NEW j \in Jobs, NEW s \in Scopes, Enqueue(j, s)
      PROVE  /\ body[j] = "none" /\ body' = [body EXCEPT ![j] = "queued"]
             /\ \A i \in Open : activeJobs'[i] = activeJobs[i]
             /\ ~activeJobs'[j].started
  BY <1>0, <1>1 DEF Enqueue
<1>2. ASSUME NEW s \in Scopes, Start(s)
      PROVE  \E j \in Jobs :
               /\ body[j] = "queued" /\ body' = [body EXCEPT ![j] = "running"]
               /\ activeJobs' = [activeJobs EXCEPT ![j].started = TRUE]
  <2>1. PICK j : /\ j = Head(queueScopes[s].waiting)
                 /\ body' = [body EXCEPT ![j] = "running"]
                 /\ activeJobs' = [activeJobs EXCEPT ![j].started = TRUE]
    BY <1>2 DEF Start
  <2>2. /\ QueueOf(s) = queueScopes[s] /\ QueueOf(s).waiting # << >>
        /\ QueueOf(s).waiting \in Seq(Jobs)
    BY <1>2, QueueOfType DEF Start, QueueOf, Books, Core
  <2>3. j \in Jobs
    BY <2>1, <2>2
  <2>4. body[j] = "queued"
    <3>1. PICK W \in Seq(Jobs) : W = QueueOf(s).waiting
      BY <2>2
    <3>2. PICK E \in Seq(Jobs) : E = enqueued[s]
      BY DEF Books, Core, TypeOK
    <3>3. PICK n \in Nat : LeftAfter(W, E, body, n)
      BY <3>1, <3>2, LeftOfIsLeftAfter DEF Books, Core, WaitingIsTail
    <3>4. Len(W) > 0 /\ j = W[1]
      BY <2>1, <2>2, <3>1
    <3>5. n + 1 \in 1..Len(E) /\ W[1] = E[n + 1]
      BY <3>1, <3>3, <3>4 DEF LeftAfter
    <3> QED
      BY <3>3, <3>4, <3>5 DEF LeftAfter
  <2> QED
    BY <2>1, <2>3, <2>4
<1>3. ASSUME NEW j \in Jobs, BodySettles(j) \/ HardTimeout(j)
      PROVE  /\ body[j] = "running" /\ activeJobs' = activeJobs
             /\ \E new \in {"settled", "abandoned"} : body' = [body EXCEPT ![j] = new]
  BY <1>3 DEF BodySettles, HardTimeout
<1>4. ASSUME NEW j \in Jobs, Close(j)
      PROVE  /\ body[j] \in {"settled", "abandoned"}
             /\ \A i \in Open \ {j} : activeJobs'[i] = activeJobs[i]
             /\ \E new \in {"done", "abandoned-closed"} : body' = [body EXCEPT ![j] = new]
             /\ body[j] = "settled" => body' = [body EXCEPT ![j] = "done"]
  BY <1>0, <1>4 DEF Close
<1>5. ASSUME NEW j \in Jobs, AbandonedBodyEnds(j)
      PROVE  /\ body[j] = "abandoned-closed" /\ activeJobs' = activeJobs
             /\ body' = [body EXCEPT ![j] = "done"]
  BY <1>5 DEF AbandonedBodyEnds
<1>6. CASE \E j \in Jobs, s \in Scopes : Enqueue(j, s)
  BY <1>0, <1>1, <1>6
<1>7. CASE \E s \in Scopes : Start(s)
  <2>1. PICK j \in Jobs :
               /\ body[j] = "queued" /\ body' = [body EXCEPT ![j] = "running"]
               /\ activeJobs' = [activeJobs EXCEPT ![j].started = TRUE]
    BY <1>2, <1>7
  <2>2. \A i \in Open :
          /\ activeJobs'[i].scope = activeJobs[i].scope
          /\ i # j => activeJobs'[i].started = activeJobs[i].started
    BY <1>0, <2>1
  <2> QED
    BY <1>0, <2>1, <2>2
<1>8. CASE \E j \in Jobs : BodySettles(j) \/ HardTimeout(j)
  BY <1>0, <1>3, <1>8
<1>9. CASE \E j \in Jobs : Close(j)
  BY <1>0, <1>4, <1>9
<1>10. CASE \E j \in Jobs : AbandonedBodyEnds(j)
  BY <1>0, <1>5, <1>10
<1> QED
  BY <1>6, <1>7, <1>8, <1>9, <1>10 DEF QueueNext

-----------------------------------------------------------------------------
(* The process *)

\* A snapshot says "started" only of a job that has.
StartsAreNoted ==
  \A j \in DOMAIN activeJobs : activeJobs[j].started => body[j] # "queued"

\* What a process that has given up owes: the jobs still open are those of the
\* snapshots, and of the pull requests of those only the ones beyond the cap
\* are not told.
Told ==
  exitCode = "one" =>
    /\ \A j \in Open \ late :
         j \in DOMAIN abandoned /\ activeJobs[j].scope = abandoned[j].scope
    /\ \A j \in DOMAIN abandoned :
         PullRequestOf[abandoned[j].scope] \in PullRequests \ DOMAIN notices =>
           /\ Cardinality(DOMAIN notices) = MaxNotices
           /\ abandoned[j].started =>
                \A q \in DOMAIN notices : notices[q].says = "running"

\* Nobody waits for a notice once the database is closed.
NoticesAreOver ==
  mode \in {"closing", "exited"} => \A p \in DOMAIN notices : notices[p].state # "posting"

ProcessInv ==
  /\ ShutdownTypeOK
  /\ Decided <=> exitCode # "none"
  /\ exitCode # "one" => DOMAIN abandoned = {}
  /\ StartsAreNoted
  /\ CleanExitIsIdle
  /\ NoticesAreWarranted
  /\ Told
  /\ NoticesAreOver

LEMMA ProcessInit ==
  ASSUME ShutdownInit
  PROVE  ProcessInv
<1>1. /\ mode = "serving" /\ exitCode = "none" /\ dispatches = 0 /\ late = {}
      /\ DOMAIN abandoned = {} /\ DOMAIN notices = {} /\ DOMAIN activeJobs = {}
  BY DEF ShutdownInit, QueueInit
<1>2. ShutdownTypeOK
  BY <1>1, NoticesAssumption DEF ShutdownTypeOK
<1> QED
  BY <1>1, <1>2 DEF ProcessInv, Decided, StartsAreNoted, CleanExitIsIdle,
                    NoticesAreWarranted, Told, NoticesAreOver

\* The queue goes on.
LEMMA QueueStepKeeps ==
  ASSUME Books, ProcessInv, QueueStep
  PROVE  ProcessInv'
<1>1. /\ QueueNext /\ mode' = mode /\ exitCode' = exitCode /\ dispatches' = dispatches
      /\ abandoned' = abandoned /\ notices' = notices
      /\ late' = IF Decided THEN late \cup (Open' \ Open) ELSE late
  BY DEF QueueStep
<1>2. DOMAIN activeJobs = Open /\ DOMAIN activeJobs' = Open'
  <2>1. Books'
    BY <1>1, NextKeeps DEF Books
  <2> QED
    BY <2>1 DEF Books, Core, AccountedFor
<1>3. ShutdownTypeOK'
  BY <1>1 DEF ProcessInv, ShutdownTypeOK, Open
<1>4. StartsAreNoted'
  <2>1. ASSUME NEW j \in Open', activeJobs'[j].started
        PROVE  body'[j] # "queued"
    <3>1. j \in Open /\ (activeJobs[j].started \/ body'[j] = "running")
      BY <1>1, <2>1, QueueStepEffect
    <3>2. CASE activeJobs[j].started
      <4>1. body[j] \notin {"none", "queued"} /\ j \in Jobs
        BY <1>2, <3>1, <3>2 DEF ProcessInv, StartsAreNoted, Open
      <4> QED
        BY <1>1, <4>1, QueueStepEffect
    <3> QED
      BY <3>1, <3>2
  <2> QED
    BY <1>2, <2>1 DEF StartsAreNoted
<1>5. CleanExitIsIdle'
  <2> SUFFICES ASSUME exitCode = "zero"
               PROVE  /\ Open' \subseteq late'
                      /\ \A j \in Executing' : body'[j] = "abandoned-closed" \/ j \in late'
    BY <1>1 DEF CleanExitIsIdle
  <2>1. /\ late' = late \cup (Open' \ Open) /\ Open \subseteq late
        /\ \A j \in Executing : body[j] = "abandoned-closed" \/ j \in late
    BY <1>1 DEF ProcessInv, CleanExitIsIdle
  <2>2. ASSUME NEW j \in Executing', j \notin late'
        PROVE  body'[j] = "abandoned-closed"
    <3>1. j \in Executing /\ body[j] = "abandoned-closed" /\ j \in Jobs
      BY <1>1, <2>1, <2>2, QueueStepEffect DEF Executing
    <3>2. body'[j] \in {"abandoned-closed", "done"}
      BY <1>1, <3>1, QueueStepEffect
    <3> QED
      BY <2>2, <3>2 DEF Executing
  <2> QED
    BY <2>1, <2>2
<1>6. NoticesAreWarranted'
  <2>1. \A j \in DOMAIN abandoned :
          abandoned[j].started => body'[j] \notin {"none", "queued"}
    BY <1>1, QueueStepEffect DEF ProcessInv, NoticesAreWarranted, ShutdownTypeOK
  <2>2. /\ exitCode \in {"none", "zero"} => DOMAIN notices = {}
        /\ \A p \in DOMAIN notices :
             /\ p \in PullRequestsOf(DOMAIN abandoned, abandoned)
             /\ notices[p].says = "running"
                  <=> p \in PullRequestsOf(StartedIn(abandoned), abandoned)
    BY DEF ProcessInv, NoticesAreWarranted
  <2> QED
    BY <1>1, <2>1, <2>2 DEF NoticesAreWarranted, PullRequestsOf, StartedIn
<1>7. Told'
  <2> SUFFICES ASSUME exitCode = "one"
               PROVE  \A j \in Open' \ late' :
                        j \in DOMAIN abandoned /\ activeJobs'[j].scope = abandoned[j].scope
    BY <1>1 DEF ProcessInv, Told
  <2>1. late' = late \cup (Open' \ Open)
    BY <1>1 DEF ProcessInv
  <2>2. \A j \in Open' \ late' : j \in Open \ late /\ j \in Open \cap Open'
    BY <2>1
  <2>3. \A j \in Open \cap Open' : activeJobs'[j].scope = activeJobs[j].scope
    BY <1>1, QueueStepEffect
  <2> QED
    BY <2>2, <2>3 DEF ProcessInv, Told
<1>8. Decided' = Decided /\ NoticesAreOver'
  BY <1>1 DEF ProcessInv, Decided, NoticesAreOver
<1> QED
  BY <1>1, <1>3, <1>4, <1>5, <1>6, <1>7, <1>8 DEF ProcessInv

\* Steps that touch neither the queue nor the notices, nor decide.
LEMMA QuietStepKeeps ==
  ASSUME ProcessInv, ShutdownTypeOK',
         UNCHANGED <<queueVars, exitCode, abandoned, notices, late>>,
         Decided' = Decided,
         NoticesAreOver'
  PROVE  ProcessInv'
<1>1. Open' = Open /\ Executing' = Executing
  BY DEF Open, Executing, queueVars
<1>2. StartsAreNoted' /\ CleanExitIsIdle'
  BY <1>1 DEF ProcessInv, StartsAreNoted, CleanExitIsIdle, queueVars
<1>3. NoticesAreWarranted'
  BY DEF ProcessInv, NoticesAreWarranted, PullRequestsOf, StartedIn, queueVars
<1>4. Told'
  BY <1>1 DEF ProcessInv, Told, queueVars
<1> QED
  BY <1>2, <1>3, <1>4 DEF ProcessInv

\* The tracker is empty.
LEMMA DrainedKeeps ==
  ASSUME Books, ProcessInv, Drained
  PROVE  ProcessInv'
<1>1. /\ mode \in {"draining", "extended"} /\ mode' = "closing" /\ exitCode' = "zero"
      /\ UNCHANGED <<queueVars, dispatches, abandoned, notices, late>>
      /\ Open = {}
  BY DEF Drained, Books, Core, AccountedFor
<1>2. exitCode = "none" /\ DOMAIN abandoned = {} /\ DOMAIN notices = {}
  BY <1>1 DEF ProcessInv, Decided, NoticesAreWarranted
<1>3. Open' = {} /\ \A j \in Executing' : body'[j] = "abandoned-closed"
  BY <1>1 DEF Open, Executing, queueVars
<1>4. ShutdownTypeOK'
  BY <1>1 DEF ProcessInv, ShutdownTypeOK
<1>5. StartsAreNoted'
  BY <1>1 DEF ProcessInv, StartsAreNoted, queueVars
<1> QED
  BY <1>1, <1>2, <1>3, <1>4, <1>5
     DEF ProcessInv, Decided, CleanExitIsIdle, NoticesAreWarranted, Told, NoticesAreOver

\* The grace is used up: the jobs still open are taken down, and some of their
\* pull requests are to be told.
LEMMA GiveUpKeeps ==
  ASSUME Books, ProcessInv, GiveUp
  PROVE  ProcessInv'
<1>1. /\ mode' = "notifying" /\ exitCode' = "one" /\ abandoned' = activeJobs
      /\ UNCHANGED <<queueVars, dispatches, late>>
  BY DEF GiveUp
<1> DEFINE all == PullRequestsOf(DOMAIN activeJobs, activeJobs)
           first == PullRequestsOf(StartedIn(activeJobs), activeJobs)
<1>2. PICK told \in Selections(activeJobs) :
        notices' = [p \in told |->
          [state |-> "posting", says |-> IF p \in first THEN "running" ELSE "queued"]]
  BY DEF GiveUp
<1>3. /\ DOMAIN notices' = told
      /\ \A p \in told :
           /\ notices'[p] \in Notice
           /\ notices'[p].says = "running" <=> p \in first
  BY <1>2 DEF Notice
<1>4. /\ told \subseteq all /\ all \subseteq PullRequests
      /\ told # all => Cardinality(told) = MaxNotices
      /\ told \subseteq first \/ first \subseteq told
  BY <1>2 DEF Selections, PullRequestsOf
<1>5. /\ DOMAIN activeJobs = Open /\ Open \subseteq Jobs
      /\ \A j \in DOMAIN activeJobs : activeJobs[j] \in [scope: Scopes, started: BOOLEAN]
      /\ Open' = Open
  BY <1>1 DEF Books, Core, TypeOK, AccountedFor, Open, queueVars
<1>6. ShutdownTypeOK'
  BY <1>1, <1>3, <1>4, <1>5 DEF ProcessInv, ShutdownTypeOK
<1>7. StartsAreNoted'
  BY <1>1 DEF ProcessInv, StartsAreNoted, queueVars
<1>8. NoticesAreWarranted'
  <2>1. \A j \in DOMAIN abandoned' :
          abandoned'[j].started => body'[j] \notin {"none", "queued"}
    BY <1>1, <1>5 DEF ProcessInv, StartsAreNoted, Open, queueVars
  <2>2. /\ PullRequestsOf(DOMAIN abandoned, abandoned)' = all
        /\ PullRequestsOf(StartedIn(abandoned), abandoned)' = first
    BY <1>1 DEF PullRequestsOf, StartedIn
  <2> QED
    BY <1>1, <1>3, <1>4, <2>1, <2>2 DEF NoticesAreWarranted
<1>9. Told'
  <2>1. \A j \in Open' \ late' :
          j \in DOMAIN abandoned' /\ activeJobs'[j].scope = abandoned'[j].scope
    BY <1>1, <1>5 DEF queueVars
  <2>2. ASSUME NEW j \in DOMAIN activeJobs,
               PullRequestOf[activeJobs[j].scope] \in PullRequests \ told
        PROVE  /\ Cardinality(told) = MaxNotices
               /\ activeJobs[j].started => \A q \in told : notices'[q].says = "running"
    <3>1. PullRequestOf[activeJobs[j].scope] \in all
      BY <2>2 DEF PullRequestsOf
    <3>2. told # all
      BY <2>2, <3>1
    <3>3. activeJobs[j].started => PullRequestOf[activeJobs[j].scope] \in first
      BY <2>2 DEF PullRequestsOf, StartedIn
    <3> QED
      BY <1>3, <1>4, <2>2, <3>2, <3>3
  <2> QED
    BY <1>1, <1>3, <2>1, <2>2 DEF Told
<1>10. CleanExitIsIdle' /\ Decided' /\ NoticesAreOver'
  BY <1>1 DEF CleanExitIsIdle, Decided, NoticesAreOver
<1> QED
  BY <1>1, <1>6, <1>7, <1>8, <1>9, <1>10 DEF ProcessInv

\* A notice is over.
LEMMA NoticeEndsKeeps ==
  ASSUME ProcessInv, NEW p \in PullRequests,
         NEW state \in {"posted", "failed", "timedOut"}, NoticeEnds(p, state)
  PROVE  ProcessInv'
<1>1. /\ UNCHANGED <<queueVars, mode, exitCode, dispatches, abandoned, late>>
      /\ notices' = [notices EXCEPT ![p].state = state]
      /\ p \in DOMAIN notices
      /\ mode = "notifying"
  BY DEF NoticeEnds
<1>2. /\ DOMAIN notices' = DOMAIN notices
      /\ \A q \in DOMAIN notices :
           notices'[q] \in Notice /\ notices'[q].says = notices[q].says
  <2>1. notices[p] \in Notice
    BY <1>1 DEF ProcessInv, ShutdownTypeOK
  <2>2. /\ [notices[p] EXCEPT !.state = state] \in Notice
        /\ [notices[p] EXCEPT !.state = state].says = notices[p].says
    BY <2>1 DEF Notice
  <2> QED
    BY <1>1, <2>2 DEF ProcessInv, ShutdownTypeOK
<1>3. ShutdownTypeOK'
  BY <1>1, <1>2 DEF ProcessInv, ShutdownTypeOK
<1>4. Open' = Open /\ Executing' = Executing
  BY <1>1 DEF Open, Executing, queueVars
<1>5. StartsAreNoted' /\ CleanExitIsIdle' /\ Decided' = Decided
  BY <1>1, <1>4 DEF ProcessInv, StartsAreNoted, CleanExitIsIdle, Decided, queueVars
<1>6. NoticesAreWarranted'
  BY <1>1, <1>2 DEF ProcessInv, NoticesAreWarranted, PullRequestsOf, StartedIn, queueVars
<1>7. Told' /\ NoticesAreOver'
  BY <1>1, <1>2, <1>4 DEF ProcessInv, Told, NoticesAreOver, queueVars
<1> QED
  BY <1>1, <1>3, <1>5, <1>6, <1>7 DEF ProcessInv

LEMMA ProcessNext ==
  ASSUME Books, ProcessInv, [ShutdownNext]_vars
  PROVE  ProcessInv'
<1>1. CASE QueueStep
  BY <1>1, QueueStepKeeps
<1>2. CASE Drained
  BY <1>2, DrainedKeeps
<1>3. CASE GiveUp
  BY <1>3, GiveUpKeeps
<1>4. ASSUME NEW p \in PullRequests, NoticePosted(p) \/ NoticeFails(p) \/ NoticeTimesOut(p)
      PROVE  ProcessInv'
  BY <1>4, NoticeEndsKeeps DEF NoticePosted, NoticeFails, NoticeTimesOut
<1>5. CASE DispatchBegins \/ DispatchEnds
  <2>1. dispatches' \in 0..MaxDispatches /\ mode' = mode
    BY <1>5, NoticesAssumption
       DEF DispatchBegins, DispatchEnds, ProcessInv, ShutdownTypeOK
  <2> QED
    BY <1>5, <2>1, QuietStepKeeps
       DEF DispatchBegins, DispatchEnds, ProcessInv, ShutdownTypeOK, Decided, NoticesAreOver
<1>6. CASE BeginShutdown \/ ExtendGrace \/ NoticesSettled \/ Exit
  BY <1>6, QuietStepKeeps
     DEF BeginShutdown, ExtendGrace, NoticesSettled, Exit, ProcessInv, ShutdownTypeOK,
         Decided, NoticesAreOver
<1>7. CASE UNCHANGED vars
  BY <1>7, QuietStepKeeps DEF vars, shutdownVars, ProcessInv, ShutdownTypeOK, Decided, NoticesAreOver
<1> QED
  BY <1>1, <1>2, <1>3, <1>4, <1>5, <1>6, <1>7 DEF ShutdownNext

LEMMA ProcessAlways == ShutdownSpec => []ProcessInv
<1> QED
  BY ProcessInit, ProcessNext, BooksAlways, PTL DEF ShutdownSpec

\* Success leaves nothing open, and notices are warranted.
THEOREM ShutdownIsOrderly == ShutdownSpec => []ShutdownInv
<1>1. ProcessInv => ShutdownInv
  BY DEF ProcessInv, ShutdownInv
<1> QED
  BY <1>1, ProcessAlways, PTL

\* Of the jobs that an exit after the grace cuts off, as the snapshots show
\* them, every pull request had its notice posted, or its failure logged, or was
\* beyond the cap, and then jobs that had started went first.
THEOREM LossesAreToldOrLogged == ShutdownSpec => []AbandonedAreToldOrLogged
<1>1. ASSUME ProcessInv
      PROVE  AbandonedAreToldOrLogged
  <2> SUFFICES ASSUME mode = "exited", exitCode = "one", NEW j \in Open \ late,
                      PullRequestOf[activeJobs[j].scope] \in PullRequests
               PROVE  IF PullRequestOf[activeJobs[j].scope] \in DOMAIN notices
                      THEN notices[PullRequestOf[activeJobs[j].scope]].state
                             \in {"posted", "failed", "timedOut"}
                      ELSE /\ Cardinality(DOMAIN notices) = MaxNotices
                           /\ abandoned[j].started =>
                                \A q \in DOMAIN notices : notices[q].says = "running"
    BY DEF AbandonedAreToldOrLogged
  <2>1. j \in DOMAIN abandoned /\ activeJobs[j].scope = abandoned[j].scope
    BY <1>1 DEF ProcessInv, Told
  <2>2. \A p \in DOMAIN notices : notices[p].state \in {"posted", "failed", "timedOut"}
    BY <1>1 DEF ProcessInv, NoticesAreOver, ShutdownTypeOK, Notice
  <2> QED
    BY <1>1, <2>1, <2>2 DEF ProcessInv, Told
<1> QED
  BY <1>1, ProcessAlways, PTL
=============================================================================
