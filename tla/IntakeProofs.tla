---------------------------- MODULE IntakeProofs ----------------------------
(***************************************************************************)
(* Proofs about the intake of webhooks and of Slack messages, for any      *)
(* instances, deliveries, messages, number of requests and size of batches.*)
(* GitHub alone (Spec of WebhookIntake): the tracker counts what is in     *)
(* flight, marks follow what they stand for, a process dispatches a        *)
(* delivery once by its requests and a row once by its replay, and batches *)
(* share no young claim.  GitHub and Slack                                 *)
(* (SlackSpec, from SlackCore on): the tracker counts the calls of the     *)
(* assistant too, a thread opens once in each store, the replay drops a    *)
(* follow-up only in a thread it has not opened, and GitHub keeps what it  *)
(* was promised, over rows of both sources too.                            *)
(***************************************************************************)
EXTENDS SlackIntake, FiniteSetTheorems, TLAPS

Request == [delivery : Deliveries, instance : Instances \cup {"gone"}, state : RequestStates]

\* The types of all variables but past.
CoreTypeOK ==
  /\ mode \in [Instances -> {"down", "serving", "draining"}]
  /\ exitCode \in [Instances -> {"none", "zero", "one", "killed"}]
  /\ marked \in [Instances -> SUBSET Deliveries]
  /\ tracked \in [Instances -> Nat]
  /\ requests \in Seq([delivery: Deliveries,
                       instance: Instances \cup {"gone"},
                       state: RequestStates])
  /\ rows \in Seq(Row)
  /\ replay \in [Instances ->
       [step: {"idle", "dequeuing", "entry", "dispatching", "marking", "failing"},
        batch: Seq(1..Len(rows))]]
  /\ replayed \subseteq 1..Len(rows)

Bounded == Len(requests) <= MaxRequests

\* What a process that is down has left: no replay, and no request under its
\* name; a request that is open has a process.
ProcessesOwn ==
  /\ \A i \in Instances : ~Up(i) => replay[i].step = "idle"
  /\ \A n \in 1..Len(requests) : \A i \in Instances :
       requests[n].instance = i => Up(i)
  /\ \A n \in 1..Len(requests) :
       requests[n].state \in {"inserting", "dispatching"} => requests[n].instance # "gone"

\* Request n was dispatched by the present process of i.
Dispatched(i, n) ==
  requests[n].instance = i /\ requests[n].state \in {"dispatching", "handled"}

\* The cache of a process holds whatever it dispatched, and so it dispatched
\* none twice.
DispatchesAreMarked ==
  \A i \in Instances : \A n \in 1..Len(requests) :
    Dispatched(i, n) => requests[n].delivery \in marked[i]

DispatchesDiffer ==
  \A i \in Instances : \A m, n \in 1..Len(requests) :
    Dispatched(i, m) /\ Dispatched(i, n) /\ requests[m].delivery = requests[n].delivery
      => m = n

\* A replay in the middle of its batch has an entry, and one that is about to
\* mark its entry has seen the end of its dispatch.
ReplaysAreBacked ==
  \A i \in Instances :
    /\ replay[i].step \notin {"idle", "dequeuing"} => replay[i].batch # << >>
    /\ replay[i].step \in {"marking", "failing"} => Head(replay[i].batch) \in replayed

\* MarkedWasAccepted, without the sets of requests.
MarksAreBacked ==
  \A i \in Instances : \A d \in marked[i] : \E n \in 1..Len(requests) :
    /\ requests[n].delivery = d
    /\ requests[n].instance = i
    /\ requests[n].state \in {"dispatching", "handled", "queued"}

CacheInv == DispatchesAreMarked /\ DispatchesDiffer /\ MarksAreBacked
TableInv == ReplaysAreBacked /\ CompletedWasReplayed

IntakeInductive ==
  /\ CoreTypeOK
  /\ Bounded
  /\ ProcessesOwn
  /\ TrackedIsInFlight
  /\ CacheInv
  /\ TableInv

-----------------------------------------------------------------------------
(* What a step does to the requests *)

LEMMA NewRequestEffect ==
  ASSUME CoreTypeOK, NEW i \in Instances, NEW d \in Deliveries,
         NEW state \in RequestStates, NewRequest(i, d, state)
  PROVE  /\ requests' \in Seq(Request)
         /\ Len(requests) \in Nat
         /\ Len(requests') = Len(requests) + 1
         /\ \A n \in 1..Len(requests) : requests'[n] = requests[n]
         /\ requests'[Len(requests) + 1] = [delivery |-> d, instance |-> i, state |-> state]
<1> DEFINE new == [delivery |-> d, instance |-> i, state |-> state]
<1>1. requests \in Seq(Request) /\ new \in Request
  BY DEF CoreTypeOK, Request
<1>2. requests' = Append(requests, new)
  BY DEF NewRequest
<1> HIDE DEF new
<1>3. /\ requests' \in Seq(Request)
      /\ Len(requests) \in Nat
      /\ Len(requests') = Len(requests) + 1
      /\ \A n \in 1..Len(requests) : requests'[n] = requests[n]
      /\ requests'[Len(requests) + 1] = new
  BY <1>1, <1>2
<1> QED
  BY <1>3 DEF new

LEMMA SetRequestEffect ==
  ASSUME CoreTypeOK, NEW n \in 1..Len(requests), NEW state \in RequestStates,
         SetRequest(n, state)
  PROVE  /\ requests' \in Seq(Request)
         /\ Len(requests) \in Nat
         /\ Len(requests') = Len(requests)
         /\ \A m \in 1..Len(requests) : m # n => requests'[m] = requests[m]
         /\ requests'[n].delivery = requests[n].delivery
         /\ requests'[n].instance = requests[n].instance
         /\ requests'[n].state = state
<1>1. requests \in Seq(Request)
  BY DEF CoreTypeOK, Request
<1>2. requests[n] \in Request
  BY <1>1
<1> DEFINE new == [requests[n] EXCEPT !.state = state]
<1>3. /\ new \in Request
      /\ new.delivery = requests[n].delivery
      /\ new.instance = requests[n].instance
      /\ new.state = state
  BY <1>2 DEF Request
<1>4. requests' = [requests EXCEPT ![n] = new]
  BY DEF SetRequest
<1> HIDE DEF new
<1>5. /\ requests' \in Seq(Request)
      /\ Len(requests) \in Nat
      /\ Len(requests') = Len(requests)
      /\ \A m \in 1..Len(requests) : m # n => requests'[m] = requests[m]
      /\ requests'[n] = new
  BY <1>1, <1>3, <1>4
<1> QED
  BY <1>3, <1>5

\* The end of a process takes its name from its requests and closes them.
LEMMA ExitEffect ==
  ASSUME CoreTypeOK, NEW i \in Instances, NEW code, NEW lost \in {"abandoned", "killed"},
         Exit(i, code, lost)
  PROVE  /\ requests' \in Seq(Request)
         /\ Len(requests) \in Nat
         /\ Len(requests') = Len(requests)
         /\ \A n \in 1..Len(requests) :
              /\ requests[n].instance # i => requests'[n] = requests[n]
              /\ requests[n].instance = i =>
                   /\ requests'[n].instance = "gone"
                   /\ requests'[n].state \notin {"dispatching", "inserting"}
<1>1. requests \in Seq(Request) /\ Len(requests) \in Nat
  BY DEF CoreTypeOK, Request
<1> DEFINE new(n) ==
      IF requests[n].instance # i THEN requests[n]
      ELSE [requests[n] EXCEPT
              !.instance = "gone",
              !.state = CASE @ = "dispatching" -> lost
                          [] @ = "inserting" -> "refused"
                          [] OTHER -> @]
<1>2. requests' = [n \in 1..Len(requests) |-> new(n)]
  BY DEF Exit
<1>3. ASSUME NEW n \in 1..Len(requests)
      PROVE  /\ new(n) \in Request
             /\ requests[n].instance # i => new(n) = requests[n]
             /\ requests[n].instance = i =>
                  /\ new(n).instance = "gone"
                  /\ new(n).state \notin {"dispatching", "inserting"}
  <2>1. requests[n] \in Request
    BY <1>1
  <2> QED
    BY <2>1 DEF Request, RequestStates
<1> HIDE DEF new
<1>4. requests' \in Seq(Request) /\ Len(requests') = Len(requests)
  BY <1>1, <1>2, <1>3
<1> QED
  BY <1>1, <1>2, <1>3, <1>4

LEMMA InFlightIsFinite ==
  ASSUME CoreTypeOK, NEW i \in Instances
  PROVE  IsFiniteSet(RequestsIn(i, "dispatching"))
<1>1. IsFiniteSet(1..Len(requests))
  BY FS_Interval DEF CoreTypeOK
<1> QED
  BY <1>1, FS_Subset DEF RequestsIn

-----------------------------------------------------------------------------
(* Every action keeps the invariant *)

LEMMA IntakeInit == Init => IntakeInductive
<1> SUFFICES ASSUME Init PROVE IntakeInductive
  OBVIOUS
<1> USE DEF Init
<1>1. requests = << >> /\ rows = << >> /\ 1..Len(requests) = {} /\ 1..Len(rows) = {}
  OBVIOUS
<1>2. CoreTypeOK /\ Bounded
  BY <1>1, IntakeAssumption DEF CoreTypeOK, Bounded, NoReplay
<1>3. ProcessesOwn
  BY <1>1 DEF ProcessesOwn, NoReplay
<1>4. TrackedIsInFlight
  BY DEF TrackedIsInFlight, Up
<1>5. CacheInv
  BY <1>1 DEF CacheInv, DispatchesAreMarked, DispatchesDiffer, MarksAreBacked
<1>6. TableInv
  BY <1>1 DEF TableInv, ReplaysAreBacked, CompletedWasReplayed, NoReplay
<1> QED
  BY <1>2, <1>3, <1>4, <1>5, <1>6 DEF IntakeInductive

LEMMA ReceiveKeeps ==
  ASSUME IntakeInductive, NEW i \in Instances, NEW d \in Deliveries,
         \/ ReceiveDuplicate(i, d) \/ ReceiveServing(i, d) \/ ReceiveDraining(i, d)
  PROVE  IntakeInductive'
<1> USE DEF IntakeInductive
<1>1. PICK state \in {"duplicate", "dispatching", "inserting"} :
        /\ NewRequest(i, d, state)
        /\ Up(i)
        /\ Len(requests) < MaxRequests
        /\ UNCHANGED <<mode, exitCode, rows, replay, replayed>>
        /\ state = "dispatching" =>
             /\ d \notin marked[i]
             /\ marked' = [marked EXCEPT ![i] = @ \cup {d}]
             /\ tracked' = [tracked EXCEPT ![i] = @ + 1]
        /\ state # "dispatching" => UNCHANGED <<marked, tracked>>
  BY DEF ReceiveDuplicate, ReceiveServing, ReceiveDraining, Up
<1>2. /\ requests' \in Seq(Request)
      /\ Len(requests) \in Nat
      /\ Len(requests') = Len(requests) + 1
      /\ \A n \in 1..Len(requests) : requests'[n] = requests[n]
      /\ requests'[Len(requests) + 1] = [delivery |-> d, instance |-> i, state |-> state]
  <2>1. NewRequest(i, d, state) /\ CoreTypeOK
    BY <1>1
  <2>2. state \in RequestStates
    BY DEF RequestStates
  <2> HIDE DEF IntakeInductive
  <2> QED
    BY <2>1, <2>2, NewRequestEffect
<1>3. /\ 1..Len(requests') = 1..Len(requests) \cup {Len(requests) + 1}
      /\ Len(requests) + 1 \notin 1..Len(requests)
  BY <1>2
<1>4. /\ marked' \in [Instances -> SUBSET Deliveries]
      /\ tracked' \in [Instances -> Nat]
      /\ \A j \in Instances : marked[j] \subseteq marked'[j]
      /\ \A j \in Instances : \A x \in marked'[j] :
           x \in marked[j] \/ (x = d /\ j = i /\ state = "dispatching")
      /\ state = "dispatching" => d \in marked'[i] /\ d \notin marked[i]
  <2>1. marked \in [Instances -> SUBSET Deliveries] /\ tracked \in [Instances -> Nat]
    BY DEF CoreTypeOK
  <2>2. CASE state = "dispatching"
    BY <1>1, <2>1, <2>2
  <2>3. CASE state # "dispatching"
    BY <1>1, <2>1, <2>3
  <2> QED
    BY <2>2, <2>3
<1>5. CoreTypeOK'
  <2>1. /\ mode' = mode /\ exitCode' = exitCode /\ rows' = rows /\ replay' = replay
        /\ replayed' = replayed
    BY <1>1
  <2>2. requests' \in Seq([delivery : Deliveries, instance : Instances \cup {"gone"},
                           state : RequestStates])
    BY <1>2 DEF Request
  <2> QED
    BY <1>4, <2>1, <2>2 DEF CoreTypeOK
<1>6. Bounded'
  BY <1>1, <1>2, IntakeAssumption DEF Bounded
<1>7. ProcessesOwn'
  BY <1>1, <1>2, <1>3, IntakeAssumption DEF ProcessesOwn, Up
<1>8. ASSUME NEW j \in Instances, Up(j)'
      PROVE  tracked'[j] = Cardinality(RequestsIn(j, "dispatching"))'
                             + (IF replay'[j].step = "idle" THEN 0 ELSE 1)
  <2> DEFINE old == RequestsIn(j, "dispatching")
  <2>1. IsFiniteSet(old) /\ Cardinality(old) \in Nat
    BY InFlightIsFinite, FS_CardinalityType
  <2>2. tracked[j] = Cardinality(old) + (IF replay[j].step = "idle" THEN 0 ELSE 1)
    BY <1>1, <1>8 DEF TrackedIsInFlight, Up
  <2>3. CASE state = "dispatching" /\ j = i
    <3>1. RequestsIn(j, "dispatching")' = old \cup {Len(requests) + 1}
      BY <1>2, <1>3, <2>3 DEF RequestsIn
    <3>2. Len(requests) + 1 \notin old
      BY <1>3 DEF RequestsIn
    <3>3. Cardinality(RequestsIn(j, "dispatching"))' = Cardinality(old) + 1
      BY <2>1, <3>1, <3>2, FS_AddElement
    <3>4. tracked'[j] = tracked[j] + 1
      BY <1>1, <2>3 DEF CoreTypeOK
    <3> HIDE DEF old
    <3> QED
      BY <1>1, <2>1, <2>2, <3>3, <3>4
  <2>4. CASE ~(state = "dispatching" /\ j = i)
    <3>1. RequestsIn(j, "dispatching")' = old
      BY <1>2, <1>3, <2>4 DEF RequestsIn
    <3>2. tracked'[j] = tracked[j]
      BY <1>1, <2>4 DEF CoreTypeOK
    <3> QED
      BY <1>1, <2>2, <3>1, <3>2
  <2> QED
    BY <2>3, <2>4
<1>9. TrackedIsInFlight'
  BY <1>8 DEF TrackedIsInFlight
<1>10. DispatchesAreMarked'
  BY <1>2, <1>3, <1>4 DEF CacheInv, DispatchesAreMarked, Dispatched
<1>11. DispatchesDiffer'
  BY <1>2, <1>3, <1>4 DEF CacheInv, DispatchesAreMarked, DispatchesDiffer, Dispatched
<1>12. MarksAreBacked'
  BY <1>2, <1>3, <1>4 DEF CacheInv, MarksAreBacked
<1>13. TableInv'
  BY <1>1 DEF TableInv, ReplaysAreBacked, CompletedWasReplayed
<1> QED
  BY <1>5, <1>6, <1>7, <1>9, <1>10, <1>11, <1>12, <1>13 DEF CacheInv

LEMMA BatchGrows ==
  ASSUME NEW m \in Nat, NEW n \in Nat, m <= n, NEW s \in Seq(1..m)
  PROVE  s \in Seq(1..n)
<1>1. 1..m \subseteq 1..n
  OBVIOUS
<1>2. \A k \in 1..Len(s) : s[k] \in 1..n
  BY <1>1
<1>3. s = [k \in 1..Len(s) |-> s[k]] /\ Len(s) \in Nat
  OBVIOUS
<1> QED
  BY <1>2, <1>3

LEMMA InsertKeeps ==
  ASSUME IntakeInductive, NEW n \in 1..Len(requests),
         InsertSucceeds(n) \/ InsertFails(n)
  PROVE  IntakeInductive'
<1> USE DEF IntakeInductive
<1> DEFINE i == requests[n].instance
           d == requests[n].delivery
           row == [request |-> n, status |-> "pending", stale |-> FALSE]
<1>1. PICK state \in {"queued", "refused"} :
        /\ SetRequest(n, state)
        /\ rows' = Append(rows, row) \/ rows' = rows
        /\ marked' = IF state = "queued" THEN [marked EXCEPT ![i] = @ \cup {d}] ELSE marked
        /\ UNCHANGED <<mode, exitCode, tracked, replay, replayed>>
  BY DEF InsertSucceeds, InsertFails, NewRow
<1>2. requests[n].state = "inserting"
  BY DEF InsertSucceeds, InsertFails
<1>3. /\ requests' \in Seq(Request)
      /\ Len(requests) \in Nat
      /\ Len(requests') = Len(requests)
      /\ \A m \in 1..Len(requests) : m # n => requests'[m] = requests[m]
      /\ requests'[n].delivery = d
      /\ requests'[n].instance = i
      /\ requests'[n].state = state
  BY <1>1, SetRequestEffect DEF RequestStates
<1>4. i \in Instances /\ d \in Deliveries
  <2>1. requests[n] \in Request
    <3>1. requests \in Seq(Request)
      BY DEF CoreTypeOK, Request
    <3> QED
      BY <3>1
  <2> QED
    BY <1>2, <2>1 DEF ProcessesOwn, Request
<1>5. /\ rows' \in Seq(Row)
      /\ Len(rows) \in Nat /\ Len(rows') \in Nat /\ Len(rows) <= Len(rows')
      /\ \A r \in 1..Len(rows) : rows'[r] = rows[r]
      /\ \A r \in 1..Len(rows') : r \notin 1..Len(rows) => rows'[r] = row
  <2>1. row \in Row
    BY <1>3, IntakeAssumption DEF Bounded, Row
  <2>2. rows \in Seq(Row)
    BY DEF CoreTypeOK
  <2> HIDE DEF row
  <2>3. CASE rows' = Append(rows, row)
    BY <2>1, <2>2, <2>3
  <2>4. CASE rows' = rows
    BY <2>2, <2>4
  <2> QED
    BY <1>1, <2>3, <2>4
<1>6. /\ marked' \in [Instances -> SUBSET Deliveries]
      /\ \A j \in Instances : marked[j] \subseteq marked'[j]
      /\ \A j \in Instances : \A x \in marked'[j] :
           x \in marked[j] \/ (x = d /\ j = i /\ state = "queued")
  <2>1. marked \in [Instances -> SUBSET Deliveries]
    BY DEF CoreTypeOK
  <2> HIDE DEF i, d
  <2>2. CASE state = "queued"
    BY <1>1, <1>4, <2>1, <2>2
  <2>3. CASE state # "queued"
    BY <1>1, <2>1, <2>3
  <2> QED
    BY <2>2, <2>3
<1> HIDE DEF i, d
<1>7. CoreTypeOK'
  <2>1. /\ mode' = mode /\ exitCode' = exitCode /\ tracked' = tracked
        /\ replay' = replay /\ replayed' = replayed
    BY <1>1
  <2>2. requests' \in Seq([delivery : Deliveries, instance : Instances \cup {"gone"},
                           state : RequestStates])
    BY <1>3 DEF Request
  <2>3. replay' \in [Instances ->
          [step : {"idle", "dequeuing", "entry", "dispatching", "marking", "failing"},
           batch : Seq(1..Len(rows'))]]
    BY <1>5, <2>1, BatchGrows DEF CoreTypeOK
  <2>4. replayed' \subseteq 1..Len(rows')
    BY <1>5, <2>1 DEF CoreTypeOK
  <2> QED
    BY <1>5, <1>6, <2>1, <2>2, <2>3, <2>4 DEF CoreTypeOK
<1>8. Bounded'
  BY <1>3 DEF Bounded
<1>9. ProcessesOwn'
  BY <1>1, <1>2, <1>3 DEF ProcessesOwn, Up, i
<1>10. TrackedIsInFlight'
  <2>1. \A j \in Instances : RequestsIn(j, "dispatching")' = RequestsIn(j, "dispatching")
    BY <1>1, <1>2, <1>3 DEF RequestsIn, i
  <2> QED
    BY <1>1, <2>1 DEF TrackedIsInFlight, Up
<1>11. \A j \in Instances : \A m \in 1..Len(requests) :
        Dispatched(j, m)' => Dispatched(j, m) /\ m # n
  BY <1>1, <1>3 DEF Dispatched
<1>12. DispatchesAreMarked'
  BY <1>3, <1>6, <1>11 DEF CacheInv, DispatchesAreMarked
<1>13. DispatchesDiffer'
  BY <1>3, <1>11 DEF CacheInv, DispatchesDiffer
<1>14. MarksAreBacked'
  BY <1>2, <1>3, <1>6 DEF CacheInv, MarksAreBacked
<1>15. TableInv'
  BY <1>1, <1>5 DEF TableInv, ReplaysAreBacked, CompletedWasReplayed, row
<1> QED
  BY <1>7, <1>8, <1>9, <1>10, <1>12, <1>13, <1>14, <1>15 DEF CacheInv

LEMMA DispatchEndsKeeps ==
  ASSUME IntakeInductive, NEW n \in 1..Len(requests), DispatchEnds(n)
  PROVE  IntakeInductive'
<1> USE DEF IntakeInductive
<1> DEFINE i == requests[n].instance
           d == requests[n].delivery
<1>1. /\ requests[n].state = "dispatching"
      /\ tracked' = [tracked EXCEPT ![i] = @ - 1]
      /\ UNCHANGED <<mode, exitCode, marked, rows, replay, replayed>>
  BY DEF DispatchEnds
<1>2. /\ requests' \in Seq(Request)
      /\ Len(requests) \in Nat
      /\ Len(requests') = Len(requests)
      /\ \A m \in 1..Len(requests) : m # n => requests'[m] = requests[m]
      /\ requests'[n].delivery = d
      /\ requests'[n].instance = i
      /\ requests'[n].state = "handled"
  BY SetRequestEffect DEF RequestStates, DispatchEnds
<1>3. i \in Instances /\ Up(i)
  <2>1. requests[n] \in Request
    <3>1. requests \in Seq(Request)
      BY DEF CoreTypeOK, Request
    <3> QED
      BY <3>1
  <2> QED
    BY <1>1, <2>1 DEF ProcessesOwn, Request
<1>4. ASSUME NEW j \in Instances
      PROVE  IF j = i
             THEN Cardinality(RequestsIn(j, "dispatching"))' + 1
                    = Cardinality(RequestsIn(j, "dispatching"))
             ELSE Cardinality(RequestsIn(j, "dispatching"))'
                    = Cardinality(RequestsIn(j, "dispatching"))
  <2> DEFINE old == RequestsIn(j, "dispatching")
  <2>1. IsFiniteSet(old) /\ Cardinality(old) \in Nat
    BY InFlightIsFinite, FS_CardinalityType
  <2>2. CASE j = i
    <3>1. RequestsIn(j, "dispatching")' = old \ {n} /\ n \in old
      BY <1>1, <1>2, <2>2 DEF RequestsIn
    <3>2. Cardinality(old \ {n}) = Cardinality(old) - 1
      BY <2>1, <3>1, FS_RemoveElement
    <3> HIDE DEF old
    <3>3. Cardinality(old \ {n}) + 1 = Cardinality(old)
      BY <2>1, <3>2
    <3> QED
      BY <2>2, <3>1, <3>3 DEF old
  <2>3. CASE j # i
    <3>1. RequestsIn(j, "dispatching")' = old
      BY <1>1, <1>2, <2>3 DEF RequestsIn
    <3> QED
      BY <2>3, <3>1
  <2> QED
    BY <2>2, <2>3
<1>5. \A j \in Instances : Cardinality(RequestsIn(j, "dispatching")) \in Nat
  BY InFlightIsFinite, FS_CardinalityType
<1>6. Cardinality(RequestsIn(i, "dispatching")) >= 1
  <2>1. RequestsIn(i, "dispatching") # {}
    BY <1>1 DEF RequestsIn
  <2> QED
    BY <1>3, <1>5, <2>1, InFlightIsFinite, FS_EmptySet
<1> HIDE DEF i, d
<1>7. /\ tracked[i] \in Nat /\ tracked[i] >= 1
      /\ tracked \in [Instances -> Nat]
  <2>1. tracked \in [Instances -> Nat]
    BY DEF CoreTypeOK
  <2>2. tracked[i] = Cardinality(RequestsIn(i, "dispatching"))
                       + (IF replay[i].step = "idle" THEN 0 ELSE 1)
    BY <1>3 DEF TrackedIsInFlight
  <2>3. \A c \in Nat : c >= 1 => c + (IF replay[i].step = "idle" THEN 0 ELSE 1) >= 1
    OBVIOUS
  <2> QED
    BY <1>3, <1>5, <1>6, <2>1, <2>2, <2>3
<1>8. /\ tracked' \in [Instances -> Nat]
      /\ tracked'[i] = tracked[i] - 1
      /\ \A j \in Instances : j # i => tracked'[j] = tracked[j]
  BY <1>1, <1>3, <1>7
<1>9. CoreTypeOK'
  <2>1. requests' \in Seq([delivery : Deliveries, instance : Instances \cup {"gone"},
                           state : RequestStates])
    BY <1>2 DEF Request
  <2> QED
    BY <1>1, <1>8, <2>1 DEF CoreTypeOK
<1>10. Bounded'
  BY <1>2 DEF Bounded
<1>11. ProcessesOwn'
  BY <1>1, <1>2 DEF ProcessesOwn, Up, i
<1>12. TrackedIsInFlight'
  <2> SUFFICES ASSUME NEW j \in Instances, Up(j)
               PROVE  tracked'[j] = Cardinality(RequestsIn(j, "dispatching"))'
                                      + (IF replay[j].step = "idle" THEN 0 ELSE 1)
    BY <1>1 DEF TrackedIsInFlight, Up
  <2>1. tracked[j] = Cardinality(RequestsIn(j, "dispatching"))
                       + (IF replay[j].step = "idle" THEN 0 ELSE 1)
    BY DEF TrackedIsInFlight
  <2>2. CASE j = i
    <3>1. Cardinality(RequestsIn(j, "dispatching"))' + 1
            = Cardinality(RequestsIn(j, "dispatching"))
      BY <1>4, <2>2
    <3>2. Cardinality(RequestsIn(j, "dispatching"))'
            = Cardinality(RequestsIn(j, "dispatching")) - 1
      <4>1. IsFiniteSet(RequestsIn(j, "dispatching")')
        <5>1. IsFiniteSet(1..Len(requests))
          BY <1>2, FS_Interval
        <5> QED
          BY <1>2, <5>1, FS_Subset DEF RequestsIn
      <4>2. Cardinality(RequestsIn(j, "dispatching"))' \in Nat
        BY <4>1, FS_CardinalityType
      <4> QED
        BY <1>5, <3>1, <4>2
    <3> QED
      BY <1>5, <1>8, <2>1, <2>2, <3>2
  <2>3. CASE j # i
    BY <1>4, <1>8, <2>1, <2>3
  <2> QED
    BY <2>2, <2>3
<1>13. \A j \in Instances : \A m \in 1..Len(requests) :
        /\ Dispatched(j, m)' => Dispatched(j, m)
        /\ requests'[m].delivery = requests[m].delivery
  BY <1>1, <1>2 DEF Dispatched, i, d
<1>14. DispatchesAreMarked' /\ DispatchesDiffer'
  BY <1>1, <1>2, <1>13 DEF CacheInv, DispatchesAreMarked, DispatchesDiffer
<1>15. MarksAreBacked'
  BY <1>1, <1>2 DEF CacheInv, MarksAreBacked, i, d
<1>16. TableInv'
  BY <1>1 DEF TableInv, ReplaysAreBacked, CompletedWasReplayed
<1> QED
  BY <1>9, <1>10, <1>11, <1>12, <1>14, <1>15, <1>16 DEF CacheInv

\* What a replay is, over a table of some length.
ReplayOver(length) ==
  [step : {"idle", "dequeuing", "entry", "dispatching", "marking", "failing"},
   batch : Seq(1..length)]

\* A step of a replay that is under way leaves the requests and the cache
\* alone, and the tracker too unless it is the last one.
LEMMA ReplayMoves ==
  ASSUME IntakeInductive, NEW i \in Instances, replay[i].step # "idle",
         NEW next \in ReplayOver(Len(rows)),
         replay' = [replay EXCEPT ![i] = next],
         tracked' = IF next.step = "idle" THEN [tracked EXCEPT ![i] = @ - 1] ELSE tracked,
         rows' \in Seq(Row), Len(rows') = Len(rows), replayed' \subseteq 1..Len(rows),
         UNCHANGED <<mode, exitCode, marked, requests>>,
         TableInv'
  PROVE  IntakeInductive'
<1> USE DEF IntakeInductive
<1>1. /\ replay' \in [Instances -> ReplayOver(Len(rows))]
      /\ replay'[i] = next
      /\ \A j \in Instances : j # i => replay'[j] = replay[j]
  <2>1. replay \in [Instances -> ReplayOver(Len(rows))]
    BY DEF CoreTypeOK, ReplayOver
  <2> QED
    BY <2>1
<1>2. Up(i)
  BY DEF ProcessesOwn
<1>3. \A j \in Instances : Cardinality(RequestsIn(j, "dispatching")) \in Nat
  BY InFlightIsFinite, FS_CardinalityType
<1>4. /\ tracked \in [Instances -> Nat]
      /\ tracked[i] = Cardinality(RequestsIn(i, "dispatching")) + 1
  BY <1>2 DEF CoreTypeOK, TrackedIsInFlight
<1>5. /\ tracked' \in [Instances -> Nat]
      /\ tracked'[i] = Cardinality(RequestsIn(i, "dispatching"))
                         + (IF next.step = "idle" THEN 0 ELSE 1)
      /\ \A j \in Instances : j # i => tracked'[j] = tracked[j]
  <2>1. CASE next.step = "idle"
    BY <1>3, <1>4, <2>1
  <2>2. CASE next.step # "idle"
    BY <1>3, <1>4, <2>2
  <2> QED
    BY <2>1, <2>2
<1>6. CoreTypeOK'
  BY <1>1, <1>5 DEF CoreTypeOK, ReplayOver
<1>7. Bounded'
  BY DEF Bounded
<1>8. ProcessesOwn'
  BY <1>1, <1>2 DEF ProcessesOwn, Up
<1>9. TrackedIsInFlight'
  <2>1. \A j \in Instances : RequestsIn(j, "dispatching")' = RequestsIn(j, "dispatching")
    BY DEF RequestsIn
  <2>2. ASSUME NEW j \in Instances, Up(j)'
        PROVE  tracked'[j] = Cardinality(RequestsIn(j, "dispatching"))
                               + (IF replay'[j].step = "idle" THEN 0 ELSE 1)
    <3>1. CASE j = i
      BY <1>1, <1>5, <3>1
    <3>2. CASE j # i
      BY <1>1, <1>5, <2>2, <3>2 DEF TrackedIsInFlight, Up
    <3> QED
      BY <3>1, <3>2
  <2> QED
    BY <2>1, <2>2 DEF TrackedIsInFlight
<1>10. CacheInv'
  BY DEF CacheInv, DispatchesAreMarked, DispatchesDiffer, MarksAreBacked, Dispatched
<1> QED
  BY <1>6, <1>7, <1>8, <1>9, <1>10

\* The types of a replay and of its batch.
LEMMA ReplayType ==
  ASSUME CoreTypeOK, NEW i \in Instances
  PROVE  /\ rows \in Seq(Row) /\ Len(rows) \in Nat
         /\ replayed \subseteq 1..Len(rows)
         /\ replay[i] \in ReplayOver(Len(rows))
         /\ replay[i].batch \in Seq(1..Len(rows))
         /\ replay[i].batch # << >> => /\ Head(replay[i].batch) \in 1..Len(rows)
                                       /\ Tail(replay[i].batch) \in Seq(1..Len(rows))
<1>1. /\ rows \in Seq(Row) /\ Len(rows) \in Nat
      /\ replayed \subseteq 1..Len(rows)
      /\ replay[i] \in ReplayOver(Len(rows))
  BY DEF CoreTypeOK, ReplayOver
<1>2. replay[i].batch \in Seq(1..Len(rows))
  BY <1>1 DEF ReplayOver
<1>3. ASSUME NEW batch \in Seq(1..Len(rows)), batch # << >>
      PROVE  Head(batch) \in 1..Len(rows) /\ Tail(batch) \in Seq(1..Len(rows))
  BY <1>3
<1> QED
  BY <1>1, <1>2, <1>3

LEMMA ReplayEndsKeeps ==
  ASSUME IntakeInductive, NEW i \in Instances, ReplayStops(i) \/ MarkFailedFails(i)
  PROVE  IntakeInductive'
<1> USE DEF IntakeInductive
<1>1. NoReplay \in ReplayOver(Len(rows)) /\ NoReplay.step = "idle"
  BY DEF NoReplay, ReplayOver
<1>2. /\ replay[i].step # "idle"
      /\ replay' = [replay EXCEPT ![i] = NoReplay]
      /\ tracked' = [tracked EXCEPT ![i] = @ - 1]
      /\ UNCHANGED <<mode, exitCode, marked, requests, rows, replayed>>
  BY DEF ReplayStops, MarkFailedFails, EndReplay
<1>3. TableInv'
  <2>1. replay \in [Instances -> ReplayOver(Len(rows))]
    BY DEF CoreTypeOK, ReplayOver
  <2>2. \A j \in Instances : replay'[j] = IF j = i THEN NoReplay ELSE replay[j]
    BY <1>2, <2>1
  <2> QED
    BY <1>1, <1>2, <2>2 DEF TableInv, ReplaysAreBacked, CompletedWasReplayed
<1> QED
  BY <1>1, <1>2, <1>3, ReplayType, ReplayMoves

\* The steps that end neither the replay nor the entry.
LEMMA EntryMovesKeeps ==
  ASSUME IntakeInductive, NEW i \in Instances,
         ReplayEntry(i) \/ ReplayDispatched(i) \/ MarkCompletedFails(i)
  PROVE  IntakeInductive'
<1> USE DEF IntakeInductive
<1>1. PICK step \in {"dispatching", "marking", "failing"} :
        /\ replay[i].step \in {"entry", "dispatching", "marking"}
        /\ replay' = [replay EXCEPT ![i].step = step]
        /\ replayed' = replayed \/ replayed' = replayed \cup {Head(replay[i].batch)}
        /\ step \in {"marking", "failing"} =>
             Head(replay[i].batch) \in replayed' \/ replay[i].step = "marking"
        /\ UNCHANGED <<mode, exitCode, marked, tracked, requests, rows>>
  BY DEF ReplayEntry, DispatchHead, ReplayDispatched, MarkCompletedFails, ReplayStep
<1>2. /\ rows \in Seq(Row) /\ replayed \subseteq 1..Len(rows)
      /\ replay[i] \in ReplayOver(Len(rows))
      /\ replay[i].batch # << >>
      /\ Head(replay[i].batch) \in 1..Len(rows)
  BY <1>1, ReplayType DEF TableInv, ReplaysAreBacked
<1> DEFINE next == [replay[i] EXCEPT !.step = step]
<1>3. /\ next \in ReplayOver(Len(rows)) /\ next.step = step
      /\ next.batch = replay[i].batch
  BY <1>2 DEF ReplayOver
<1>4. replay' = [replay EXCEPT ![i] = next]
  BY <1>1
<1> HIDE DEF next
<1>5. TableInv'
  <2>1. replay \in [Instances -> ReplayOver(Len(rows))]
    BY DEF CoreTypeOK, ReplayOver
  <2>2. \A j \in Instances : replay'[j] = IF j = i THEN next ELSE replay[j]
    BY <1>4, <2>1
  <2>3. replayed \subseteq replayed'
    BY <1>1
  <2>4. step \in {"marking", "failing"} => Head(next.batch) \in replayed'
    BY <1>1, <1>3, <2>3 DEF TableInv, ReplaysAreBacked
  <2>5. ReplaysAreBacked'
    BY <1>2, <1>3, <2>2, <2>3, <2>4 DEF TableInv, ReplaysAreBacked
  <2>6. CompletedWasReplayed'
    BY <1>1, <2>3 DEF TableInv, CompletedWasReplayed
  <2> QED
    BY <2>5, <2>6 DEF TableInv
<1> QED
  BY <1>1, <1>2, <1>3, <1>4, <1>5, ReplayMoves

\* An entry gets its status, and the replay goes on.
LEMMA MarkKeeps ==
  ASSUME IntakeInductive, NEW i \in Instances, MarkCompleted(i) \/ MarkFailed(i)
  PROVE  IntakeInductive'
<1> USE DEF IntakeInductive
<1> DEFINE head == Head(replay[i].batch)
           left == Tail(replay[i].batch)
           next == [step |-> IF left = << >> THEN "dequeuing" ELSE "entry", batch |-> left]
<1>1. PICK status \in {"completed", "failed"} :
        /\ rows' = [rows EXCEPT ![head].status = status, ![head].stale = FALSE]
        /\ replay' = [replay EXCEPT ![i] = next]
        /\ replay[i].step \in {"marking", "failing"}
        /\ UNCHANGED <<mode, exitCode, marked, tracked, requests, replayed>>
  BY DEF MarkCompleted, MarkFailed, SetStatus, NextEntry
<1>2. /\ rows \in Seq(Row) /\ Len(rows) \in Nat
      /\ replayed \subseteq 1..Len(rows)
      /\ replay[i].batch # << >>
      /\ head \in 1..Len(rows) /\ head \in replayed
      /\ left \in Seq(1..Len(rows))
  BY <1>1, ReplayType DEF TableInv, ReplaysAreBacked
<1>3. /\ next \in ReplayOver(Len(rows))
      /\ next.step \in {"dequeuing", "entry"}
      /\ next.step = "entry" => next.batch # << >>
  BY <1>2 DEF ReplayOver
<1> HIDE DEF head, left, next
<1>4. /\ rows' \in Seq(Row) /\ Len(rows') = Len(rows)
      /\ \A r \in 1..Len(rows) : r # head => rows'[r] = rows[r]
  <2> DEFINE new == [rows[head] EXCEPT !.status = status, !.stale = FALSE]
  <2>1. rows[head] \in Row
    BY <1>2
  <2>2. new \in Row
    BY <2>1 DEF Row
  <2>3. rows' = [rows EXCEPT ![head] = new]
    BY <1>1, <1>2
  <2> HIDE DEF new
  <2> QED
    BY <1>2, <2>2, <2>3
<1>5. TableInv'
  <2>1. replay \in [Instances -> ReplayOver(Len(rows))]
    BY DEF CoreTypeOK, ReplayOver
  <2>2. \A j \in Instances : replay'[j] = IF j = i THEN next ELSE replay[j]
    BY <1>1, <2>1
  <2>3. ReplaysAreBacked'
    BY <1>1, <1>3, <2>2 DEF TableInv, ReplaysAreBacked
  <2>4. CompletedWasReplayed'
    BY <1>1, <1>2, <1>4 DEF TableInv, CompletedWasReplayed
  <2> QED
    BY <2>3, <2>4 DEF TableInv
<1> QED
  BY <1>1, <1>2, <1>3, <1>4, <1>5, ReplayMoves

\* A batch is in the order of the table.
Increasing(s) == \A m, n \in 1..Len(s) : m < n => s[m] < s[n]

\* A batch of dequeuePending is a sequence of rows it found, in the order of the
\* table, and is not empty.
LEMMA OldestAreFound ==
  ASSUME NEW length \in Nat, NEW found \in SUBSET (1..length), found # {},
         NEW batch \in Oldest(found)
  PROVE  /\ batch \in Seq(1..length) /\ batch # << >> /\ Range(batch) \subseteq found
         /\ Increasing(batch)
<1>1. IsFiniteSet(found)
  <2>1. IsFiniteSet(1..length)
    BY FS_Interval
  <2> QED
    BY <2>1, FS_Subset
<1>2. Cardinality(found) \in Nat /\ Cardinality(found) # 0
  BY <1>1, FS_CardinalityType, FS_EmptySet
<1> DEFINE size == IF Cardinality(found) < BatchSize THEN Cardinality(found) ELSE BatchSize
<1>3. batch \in [1..size -> found]
  BY DEF Oldest
<1>4. size \in Nat \ {0}
  BY <1>2, IntakeAssumption
<1> HIDE DEF size
<1>5. Len(batch) = size
  BY <1>3, <1>4
<1>6. batch \in Seq(1..length)
  <2>1. batch \in [1..size -> 1..length]
    BY <1>3
  <2> QED
    BY <1>4, <2>1
<1>7. batch # << >>
  BY <1>4, <1>5
<1>8. Range(batch) \subseteq found
  BY <1>3 DEF Range
<1>9. Increasing(batch)
  <2>1. \A m, n \in 1..size : m < n => batch[m] < batch[n]
    BY DEF Oldest, size
  <2> QED
    BY <1>5, <2>1 DEF Increasing
<1> QED
  BY <1>6, <1>7, <1>8, <1>9

LEMMA DequeueKeeps ==
  ASSUME IntakeInductive, NEW i \in Instances, Dequeue(i)
  PROVE  IntakeInductive'
<1> USE DEF IntakeInductive
<1> DEFINE found == {r \in 1..Len(rows) : Claimable(rows[r])}
<1>1. /\ replay[i].step = "dequeuing"
      /\ UNCHANGED <<mode, exitCode, marked, requests, replayed>>
  BY DEF Dequeue
<1>2. rows \in Seq(Row) /\ Len(rows) \in Nat /\ replayed \subseteq 1..Len(rows)
  BY ReplayType
<1>3. replay \in [Instances -> ReplayOver(Len(rows))]
  BY DEF CoreTypeOK, ReplayOver
<1>4. CASE found = {}
  <2>1. EndReplay(i) /\ UNCHANGED rows
    BY <1>4 DEF Dequeue
  <2>2. NoReplay \in ReplayOver(Len(rows)) /\ NoReplay.step = "idle"
    BY DEF NoReplay, ReplayOver
  <2>3. replay' = [replay EXCEPT ![i] = NoReplay] /\ tracked' = [tracked EXCEPT ![i] = @ - 1]
    BY <2>1 DEF EndReplay
  <2>4. TableInv'
    <3>1. \A j \in Instances : replay'[j] = IF j = i THEN NoReplay ELSE replay[j]
      BY <1>3, <2>3
    <3> QED
      BY <1>1, <2>1, <2>2, <3>1 DEF TableInv, ReplaysAreBacked, CompletedWasReplayed
  <2> QED
    BY <1>1, <1>2, <2>1, <2>2, <2>3, <2>4, ReplayMoves
<1>5. CASE found # {}
  <2>1. PICK batch \in Oldest(found) :
          /\ rows' = [r \in 1..Len(rows) |->
                        IF r \in Range(batch)
                        THEN [rows[r] EXCEPT !.status = "processing",
                                             !.stale = FALSE]
                        ELSE IF r \in found
                        THEN [rows[r] EXCEPT !.status = "pending"]
                        ELSE rows[r]]
          /\ replay' = [replay EXCEPT ![i] = [step |-> "entry", batch |-> batch]]
          /\ UNCHANGED tracked
    BY <1>5 DEF Dequeue
  <2>2. batch \in Seq(1..Len(rows)) /\ batch # << >> /\ Range(batch) \subseteq found
    BY <1>2, <1>5, OldestAreFound
  <2> DEFINE next == [step |-> "entry", batch |-> batch]
  <2>3. next \in ReplayOver(Len(rows)) /\ next.step = "entry" /\ next.batch # << >>
    BY <2>2 DEF ReplayOver
  <2>4. replay' = [replay EXCEPT ![i] = next]
    BY <2>1
  <2> HIDE DEF next, found
  <2>5. \A r \in 1..Len(rows) : rows[r] \in Row
    BY <1>2
  <2>6. /\ rows' \in [1..Len(rows) -> Row]
        /\ \A r \in 1..Len(rows) :
             rows'[r].status = "completed" => rows[r].status = "completed"
    BY <2>1, <2>5 DEF Row
  <2>7. rows' \in Seq(Row) /\ Len(rows') = Len(rows)
    BY <1>2, <2>6
  <2>8. TableInv'
    <3>1. \A j \in Instances : replay'[j] = IF j = i THEN next ELSE replay[j]
      BY <1>3, <2>4
    <3>2. ReplaysAreBacked'
      BY <1>1, <2>3, <3>1 DEF TableInv, ReplaysAreBacked
    <3>3. CompletedWasReplayed'
      BY <1>1, <2>6, <2>7 DEF TableInv, CompletedWasReplayed
    <3> QED
      BY <3>2, <3>3 DEF TableInv
  <2> QED
    BY <1>1, <1>2, <2>1, <2>3, <2>4, <2>7, <2>8, ReplayMoves
<1> QED
  BY <1>4, <1>5

LEMMA AgeKeeps ==
  ASSUME IntakeInductive, NEW r \in 1..MaxRequests, Age(r)
  PROVE  IntakeInductive'
<1> USE DEF IntakeInductive
<1>1. /\ r \in 1..Len(rows)
      /\ rows' = [rows EXCEPT ![r].stale = TRUE]
      /\ UNCHANGED <<mode, exitCode, marked, tracked, requests, replay, replayed>>
  BY DEF Age
<1>2. rows \in Seq(Row) /\ Len(rows) \in Nat /\ r \in 1..Len(rows) /\ rows[r] \in Row
  <2>1. rows \in Seq(Row)
    BY DEF CoreTypeOK
  <2> QED
    BY <1>1, <2>1
<1> DEFINE new == [rows[r] EXCEPT !.stale = TRUE]
<1>3. new \in Row /\ new.status = rows[r].status
  BY <1>2 DEF Row
<1>4. rows' = [rows EXCEPT ![r] = new]
  BY <1>1
<1> HIDE DEF new
<1>5. /\ rows' \in Seq(Row) /\ Len(rows') = Len(rows)
      /\ \A s \in 1..Len(rows) : rows'[s].status = rows[s].status
  <2>1. rows' \in Seq(Row) /\ Len(rows') = Len(rows)
    BY <1>2, <1>3, <1>4
  <2>2. \A s \in 1..Len(rows) : rows'[s] = IF s = r THEN new ELSE rows[s]
    BY <1>2, <1>4
  <2> QED
    BY <1>3, <2>1, <2>2
<1>6. CoreTypeOK' /\ Bounded'
  BY <1>1, <1>5 DEF CoreTypeOK, Bounded
<1>7. ProcessesOwn' /\ TrackedIsInFlight'
  BY <1>1 DEF ProcessesOwn, TrackedIsInFlight, Up, RequestsIn
<1>8. CacheInv'
  BY <1>1 DEF CacheInv, DispatchesAreMarked, DispatchesDiffer, MarksAreBacked, Dispatched
<1>9. TableInv'
  BY <1>1, <1>5 DEF TableInv, ReplaysAreBacked, CompletedWasReplayed
<1> QED
  BY <1>6, <1>7, <1>8, <1>9

LEMMA StartKeeps ==
  ASSUME IntakeInductive, NEW i \in Instances, StartProcess(i)
  PROVE  IntakeInductive'
<1> USE DEF IntakeInductive
<1> DEFINE fresh == [step |-> "dequeuing", batch |-> << >>]
<1>1. /\ ~Up(i)
      /\ mode' = [mode EXCEPT ![i] = "serving"]
      /\ exitCode' = [exitCode EXCEPT ![i] = "none"]
      /\ marked' = [marked EXCEPT ![i] = {}]
      /\ tracked' = [tracked EXCEPT ![i] = 1]
      /\ replay' = [replay EXCEPT ![i] = fresh]
      /\ UNCHANGED <<requests, rows, replayed>>
  BY DEF StartProcess, Up
<1>2. fresh \in ReplayOver(Len(rows)) /\ fresh.step = "dequeuing"
  BY DEF ReplayOver
<1> HIDE DEF fresh
<1>3. /\ mode \in [Instances -> {"down", "serving", "draining"}]
      /\ exitCode \in [Instances -> {"none", "zero", "one", "killed"}]
      /\ marked \in [Instances -> SUBSET Deliveries]
      /\ tracked \in [Instances -> Nat]
      /\ replay \in [Instances -> ReplayOver(Len(rows))]
  BY DEF CoreTypeOK, ReplayOver
<1>4. /\ mode' \in [Instances -> {"down", "serving", "draining"}]
      /\ exitCode' \in [Instances -> {"none", "zero", "one", "killed"}]
      /\ marked' \in [Instances -> SUBSET Deliveries]
      /\ tracked' \in [Instances -> Nat]
      /\ replay' \in [Instances -> ReplayOver(Len(rows))]
  BY <1>1, <1>2, <1>3
<1>5. /\ \A j \in Instances : mode'[j] = IF j = i THEN "serving" ELSE mode[j]
      /\ \A j \in Instances : marked'[j] = IF j = i THEN {} ELSE marked[j]
      /\ \A j \in Instances : tracked'[j] = IF j = i THEN 1 ELSE tracked[j]
      /\ \A j \in Instances : replay'[j] = IF j = i THEN fresh ELSE replay[j]
  BY <1>1, <1>3
<1>6. \A n \in 1..Len(requests) : requests[n].instance # i
  BY <1>1 DEF ProcessesOwn
<1>7. CoreTypeOK' /\ Bounded'
  BY <1>1, <1>4 DEF CoreTypeOK, Bounded, ReplayOver
<1>8. ProcessesOwn'
  BY <1>1, <1>5 DEF ProcessesOwn, Up
<1>9. TrackedIsInFlight'
  <2>1. \A j \in Instances : RequestsIn(j, "dispatching")' = RequestsIn(j, "dispatching")
    BY <1>1 DEF RequestsIn
  <2>2. RequestsIn(i, "dispatching") = {}
    BY <1>6 DEF RequestsIn
  <2>3. Cardinality({}) = 0
    BY FS_EmptySet
  <2>4. ASSUME NEW j \in Instances, Up(j)'
        PROVE  tracked'[j] = Cardinality(RequestsIn(j, "dispatching"))
                               + (IF replay'[j].step = "idle" THEN 0 ELSE 1)
    <3>1. CASE j = i
      <4>1. Cardinality(RequestsIn(j, "dispatching")) = 0
        BY <2>2, <2>3, <3>1
      <4>2. tracked'[j] = 1 /\ replay'[j].step = "dequeuing"
        BY <1>2, <1>5, <3>1
      <4> QED
        BY <4>1, <4>2
    <3>2. CASE j # i
      BY <1>5, <2>4, <3>2 DEF TrackedIsInFlight, Up
    <3> QED
      BY <3>1, <3>2
  <2> QED
    BY <2>1, <2>4 DEF TrackedIsInFlight
<1>10. CacheInv'
  BY <1>1, <1>5, <1>6 DEF CacheInv, DispatchesAreMarked, DispatchesDiffer, MarksAreBacked,
                          Dispatched
<1>11. TableInv'
  BY <1>1, <1>2, <1>5 DEF TableInv, ReplaysAreBacked, CompletedWasReplayed
<1> QED
  BY <1>7, <1>8, <1>9, <1>10, <1>11

LEMMA ShutdownKeeps ==
  ASSUME IntakeInductive, NEW i \in Instances, BeginShutdown(i)
  PROVE  IntakeInductive'
<1> USE DEF IntakeInductive
<1>1. /\ Up(i)
      /\ mode' = [mode EXCEPT ![i] = "draining"]
      /\ UNCHANGED <<exitCode, marked, tracked, requests, rows, replay, replayed>>
  BY DEF BeginShutdown, Up
<1>2. mode \in [Instances -> {"down", "serving", "draining"}]
  BY DEF CoreTypeOK
<1>3. /\ mode' \in [Instances -> {"down", "serving", "draining"}]
      /\ \A j \in Instances : mode'[j] = IF j = i THEN "draining" ELSE mode[j]
  BY <1>1, <1>2
<1>4. CoreTypeOK' /\ Bounded'
  BY <1>1, <1>3 DEF CoreTypeOK, Bounded
<1>5. \A j \in Instances : Up(j)' <=> Up(j)
  BY <1>1, <1>3 DEF Up
<1>6. ProcessesOwn'
  BY <1>1, <1>5 DEF ProcessesOwn
<1>7. TrackedIsInFlight'
  BY <1>1, <1>5 DEF TrackedIsInFlight, RequestsIn
<1>8. CacheInv' /\ TableInv'
  BY <1>1 DEF CacheInv, DispatchesAreMarked, DispatchesDiffer, MarksAreBacked, Dispatched,
              TableInv, ReplaysAreBacked, CompletedWasReplayed
<1> QED
  BY <1>4, <1>6, <1>7, <1>8

LEMMA ExitKeeps ==
  ASSUME IntakeInductive, NEW i \in Instances,
         ExitDrained(i) \/ ForceExit(i) \/ Kill(i)
  PROVE  IntakeInductive'
<1> USE DEF IntakeInductive
<1>1. PICK code \in {"zero", "one", "killed"}, lost \in {"abandoned", "killed"} :
        Exit(i, code, lost)
  BY DEF ExitDrained, ForceExit, Kill
<1>2. /\ requests' \in Seq(Request)
      /\ Len(requests) \in Nat
      /\ Len(requests') = Len(requests)
      /\ \A n \in 1..Len(requests) :
           /\ requests[n].instance # i => requests'[n] = requests[n]
           /\ requests[n].instance = i =>
                /\ requests'[n].instance = "gone"
                /\ requests'[n].state \notin {"dispatching", "inserting"}
  BY <1>1, ExitEffect
<1>3. /\ mode' = [mode EXCEPT ![i] = "down"]
      /\ exitCode' = [exitCode EXCEPT ![i] = code]
      /\ marked' = [marked EXCEPT ![i] = {}]
      /\ tracked' = [tracked EXCEPT ![i] = 0]
      /\ replay' = [replay EXCEPT ![i] = NoReplay]
      /\ UNCHANGED <<rows, replayed>>
  BY <1>1 DEF Exit
<1>4. NoReplay \in ReplayOver(Len(rows)) /\ NoReplay.step = "idle"
  BY DEF NoReplay, ReplayOver
<1>5. /\ mode \in [Instances -> {"down", "serving", "draining"}]
      /\ exitCode \in [Instances -> {"none", "zero", "one", "killed"}]
      /\ marked \in [Instances -> SUBSET Deliveries]
      /\ tracked \in [Instances -> Nat]
      /\ replay \in [Instances -> ReplayOver(Len(rows))]
  BY DEF CoreTypeOK, ReplayOver
<1>6. /\ mode' \in [Instances -> {"down", "serving", "draining"}]
      /\ exitCode' \in [Instances -> {"none", "zero", "one", "killed"}]
      /\ marked' \in [Instances -> SUBSET Deliveries]
      /\ tracked' \in [Instances -> Nat]
      /\ replay' \in [Instances -> ReplayOver(Len(rows))]
  BY <1>3, <1>4, <1>5
<1>7. /\ \A j \in Instances : mode'[j] = IF j = i THEN "down" ELSE mode[j]
      /\ \A j \in Instances : marked'[j] = IF j = i THEN {} ELSE marked[j]
      /\ \A j \in Instances : j # i => tracked'[j] = tracked[j]
      /\ \A j \in Instances : replay'[j] = IF j = i THEN NoReplay ELSE replay[j]
  BY <1>3, <1>5
<1>8. \A n \in 1..Len(requests) : \A j \in Instances :
        requests'[n].instance = j =>
          j # i /\ requests[n].instance = j /\ requests'[n] = requests[n]
  BY <1>2, IntakeAssumption
<1>9. CoreTypeOK' /\ Bounded'
  <2>1. requests' \in Seq([delivery : Deliveries, instance : Instances \cup {"gone"},
                           state : RequestStates])
    BY <1>2 DEF Request
  <2> QED
    BY <1>2, <1>3, <1>6, <2>1 DEF CoreTypeOK, Bounded, ReplayOver
<1>10. ProcessesOwn'
  BY <1>2, <1>4, <1>7, <1>8, IntakeAssumption DEF ProcessesOwn, Up
<1>11. TrackedIsInFlight'
  <2> SUFFICES ASSUME NEW j \in Instances, Up(j)'
               PROVE  tracked'[j] = Cardinality(RequestsIn(j, "dispatching"))'
                                      + (IF replay'[j].step = "idle" THEN 0 ELSE 1)
    BY DEF TrackedIsInFlight
  <2>1. j # i /\ Up(j) /\ tracked'[j] = tracked[j] /\ replay'[j] = replay[j]
    BY <1>7 DEF Up
  <2>2. RequestsIn(j, "dispatching")' = RequestsIn(j, "dispatching")
    BY <1>2, <1>8, <2>1 DEF RequestsIn
  <2> QED
    BY <2>1, <2>2 DEF TrackedIsInFlight
<1>12. \A j \in Instances : \A n \in 1..Len(requests) :
         Dispatched(j, n)' => /\ Dispatched(j, n) /\ j # i
                              /\ requests'[n] = requests[n]
  BY <1>8 DEF Dispatched
<1>13. DispatchesAreMarked' /\ DispatchesDiffer'
  BY <1>2, <1>7, <1>12 DEF CacheInv, DispatchesAreMarked, DispatchesDiffer
<1>14. MarksAreBacked'
  BY <1>2, <1>7 DEF CacheInv, MarksAreBacked
<1>15. TableInv'
  BY <1>3, <1>4, <1>7 DEF TableInv, ReplaysAreBacked, CompletedWasReplayed
<1> QED
  BY <1>9, <1>10, <1>11, <1>13, <1>14, <1>15 DEF CacheInv

LEMMA IntakeStep == IntakeInductive /\ [Next]_vars => IntakeInductive'
<1> SUFFICES ASSUME IntakeInductive, [Next]_vars PROVE IntakeInductive'
  OBVIOUS
<1>1. CASE UNCHANGED vars
  BY <1>1 DEF vars, IntakeInductive, CoreTypeOK, Bounded, ProcessesOwn, Up,
       TrackedIsInFlight, RequestsIn, CacheInv, DispatchesAreMarked, DispatchesDiffer,
       MarksAreBacked, Dispatched, TableInv, ReplaysAreBacked, CompletedWasReplayed
<1>2. ASSUME NEW i \in Instances, NEW d \in Deliveries,
             ReceiveDuplicate(i, d) \/ ReceiveServing(i, d) \/ ReceiveDraining(i, d)
      PROVE  IntakeInductive'
  BY <1>2, ReceiveKeeps
<1>3. ASSUME NEW n \in 1..Len(requests), InsertSucceeds(n) \/ InsertFails(n)
      PROVE  IntakeInductive'
  BY <1>3, InsertKeeps
<1>4. ASSUME NEW n \in 1..Len(requests), DispatchEnds(n)
      PROVE  IntakeInductive'
  BY <1>4, DispatchEndsKeeps
<1>5. ASSUME NEW i \in Instances, Dequeue(i)
      PROVE  IntakeInductive'
  BY <1>5, DequeueKeeps
<1>6. ASSUME NEW i \in Instances, ReplayStops(i) \/ MarkFailedFails(i)
      PROVE  IntakeInductive'
  BY <1>6, ReplayEndsKeeps
<1>7. ASSUME NEW i \in Instances,
             ReplayEntry(i) \/ ReplayDispatched(i) \/ MarkCompletedFails(i)
      PROVE  IntakeInductive'
  BY <1>7, EntryMovesKeeps
<1>8. ASSUME NEW i \in Instances, MarkCompleted(i) \/ MarkFailed(i)
      PROVE  IntakeInductive'
  BY <1>8, MarkKeeps
<1>9. ASSUME NEW r \in 1..MaxRequests, Age(r)
      PROVE  IntakeInductive'
  BY <1>9, AgeKeeps
<1>10. ASSUME NEW i \in Instances, StartProcess(i)
       PROVE  IntakeInductive'
  BY <1>10, StartKeeps
<1>11. ASSUME NEW i \in Instances, BeginShutdown(i)
       PROVE  IntakeInductive'
  BY <1>11, ShutdownKeeps
<1>12. ASSUME NEW i \in Instances, ExitDrained(i) \/ ForceExit(i) \/ Kill(i)
       PROVE  IntakeInductive'
  BY <1>12, ExitKeeps
<1> QED
  BY <1>1, <1>2, <1>3, <1>4, <1>5, <1>6, <1>7, <1>8, <1>9, <1>10, <1>11, <1>12 DEF Next

LEMMA IntakeAlways == Spec => []IntakeInductive
  BY IntakeInit, IntakeStep, PTL DEF Spec

-----------------------------------------------------------------------------
(* What holds of webhook intake *)

\* The dispatches of deliveries differ in their delivery.
DeliveriesDiffer ==
  \A i \in Instances : \A m, n \in 1..Len(requests) :
    /\ Dispatched(i, m) /\ Dispatched(i, n)
    /\ requests[m].delivery = requests[n].delivery
    /\ requests[n].delivery \in Deliveries
    => m = n

\* The part of DispatchedOnceEachWay that is about HTTP requests.
RequestsDispatchOnce ==
  \A i \in Instances, d \in Deliveries :
    Cardinality({n \in RequestsIn(i, "dispatching") \cup RequestsIn(i, "handled") :
                   requests[n].delivery = d}) <= 1

LEMMA DifferentMeansOnce ==
  ASSUME DeliveriesDiffer
  PROVE  RequestsDispatchOnce
<1> SUFFICES ASSUME NEW i \in Instances, NEW d \in Deliveries
             PROVE  Cardinality({n \in RequestsIn(i, "dispatching")
                                          \cup RequestsIn(i, "handled") :
                                   requests[n].delivery = d}) <= 1
  BY DEF RequestsDispatchOnce
<1> DEFINE same == {n \in RequestsIn(i, "dispatching") \cup RequestsIn(i, "handled") :
                      requests[n].delivery = d}
<1>1. \A m, n \in same : m = n
  BY DEF DeliveriesDiffer, Dispatched, RequestsIn
<1> HIDE DEF same
<1>2. CASE same = {}
  <2>1. Cardinality(same) = 0
    BY <1>2, FS_EmptySet
  <2> QED
    BY <2>1 DEF same
<1>3. CASE same # {}
  <2>1. PICK n \in same : TRUE
    BY <1>3
  <2>2. same = {n}
    BY <1>1, <2>1
  <2>3. Cardinality(same) = 1
    BY <2>2, FS_Singleton
  <2> QED
    BY <2>3 DEF same
<1> QED
  BY <1>2, <1>3

\* A delivery id is in the cache only once its request was accepted, and a row
\* is completed only once its dispatch ended: a failed INSERT does not swallow
\* the redelivery, nor a crash the row.
THEOREM MarksFollow == Spec => []MarkedAfterwards
<1>1. ASSUME IntakeInductive PROVE MarkedAfterwards
  <2>1. MarkedWasAccepted
    BY <1>1 DEF IntakeInductive, CacheInv, MarksAreBacked, MarkedWasAccepted, RequestsIn
  <2> QED
    BY <1>1, <2>1 DEF IntakeInductive, TableInv, MarkedAfterwards
<1> QED
  BY <1>1, IntakeAlways, PTL

\* The ways in which a step changes the table.
RowsChange ==
  \/ UNCHANGED rows
  \/ \E n \in 1..Len(requests) : NewRow(n)
  \/ \E i \in Instances : Dequeue(i)
  \/ \E i \in Instances : MarkCompleted(i) \/ MarkFailed(i)
  \/ \E r \in 1..MaxRequests : Age(r)

LEMMA RowsOfRequest ==
  ASSUME NEW n \in 1..Len(requests),
         InsertSucceeds(n) \/ InsertFails(n) \/ DispatchEnds(n)
  PROVE  RowsChange
BY DEF InsertSucceeds, InsertFails, DispatchEnds, RowsChange

LEMMA RowsOfProcess ==
  ASSUME NEW i \in Instances,
         \/ Dequeue(i) \/ ReplayStops(i) \/ ReplayEntry(i) \/ ReplayDispatched(i)
         \/ MarkCompleted(i) \/ MarkCompletedFails(i) \/ MarkFailed(i) \/ MarkFailedFails(i)
         \/ StartProcess(i) \/ BeginShutdown(i) \/ ExitDrained(i) \/ ForceExit(i) \/ Kill(i)
  PROVE  RowsChange
<1>1. CASE Dequeue(i)
  BY <1>1 DEF RowsChange
<1>2. CASE MarkCompleted(i) \/ MarkFailed(i)
  BY <1>2 DEF RowsChange
<1>3. CASE \/ ReplayStops(i) \/ ReplayEntry(i) \/ ReplayDispatched(i)
           \/ MarkCompletedFails(i) \/ MarkFailedFails(i)
  BY <1>3 DEF ReplayStops, ReplayEntry, ReplayDispatched, MarkCompletedFails,
       MarkFailedFails, RowsChange
<1>4. CASE StartProcess(i) \/ BeginShutdown(i) \/ ExitDrained(i) \/ ForceExit(i) \/ Kill(i)
  BY <1>4 DEF StartProcess, BeginShutdown, ExitDrained, ForceExit, Kill, Exit, RowsChange
<1> QED
  BY <1>1, <1>2, <1>3, <1>4

LEMMA RowsOfArrival ==
  ASSUME NEW i \in Instances, NEW d \in Deliveries,
         ReceiveDuplicate(i, d) \/ ReceiveServing(i, d) \/ ReceiveDraining(i, d)
  PROVE  RowsChange
BY DEF ReceiveDuplicate, ReceiveServing, ReceiveDraining, RowsChange

LEMMA IntakeRows ==
  ASSUME [Next]_vars
  PROVE  RowsChange
<1>1. CASE UNCHANGED vars
  BY <1>1 DEF vars, RowsChange
<1>2. ASSUME NEW r \in 1..MaxRequests, Age(r)
      PROVE  RowsChange
  BY <1>2 DEF RowsChange
<1> QED
  BY <1>1, <1>2, RowsOfRequest, RowsOfProcess, RowsOfArrival DEF Next

\* What a dequeue does to one row.
LEMMA DequeueEffect ==
  ASSUME NEW i \in Instances, Dequeue(i), rows \in Seq(Row), rows' # rows
  PROVE  /\ rows' \in [1..Len(rows) -> Row]
         /\ \A r \in 1..Len(rows) :
              /\ rows'[r].request = rows[r].request
              /\ rows'[r].status = "completed" => rows[r].status = "completed"
              /\ ~Claimable(rows[r]) => rows'[r] = rows[r]
<1> DEFINE found == {r \in 1..Len(rows) : Claimable(rows[r])}
<1>1. found # {}
  BY DEF Dequeue
<1>2. PICK batch \in Oldest(found) :
        rows' = [r \in 1..Len(rows) |->
                   IF r \in Range(batch)
                   THEN [rows[r] EXCEPT !.status = "processing",
                                        !.stale = FALSE]
                   ELSE IF r \in found
                   THEN [rows[r] EXCEPT !.status = "pending"]
                   ELSE rows[r]]
  BY <1>1 DEF Dequeue
<1>3. /\ Len(rows) \in Nat
      /\ \A r \in 1..Len(rows) : rows[r] \in Row
      /\ found \in SUBSET (1..Len(rows))
      /\ \A r \in 1..Len(rows) : ~Claimable(rows[r]) => r \notin found
  OBVIOUS
<1> HIDE DEF found
<1>4. Range(batch) \subseteq found
  BY <1>1, <1>3, OldestAreFound
<1>5. ASSUME NEW r \in 1..Len(rows)
      PROVE  /\ rows'[r] \in Row
             /\ rows'[r].request = rows[r].request
             /\ rows'[r].status = "completed" => rows[r].status = "completed"
  BY <1>2, <1>3 DEF Row
<1> QED
  BY <1>2, <1>3, <1>4, <1>5

\* What a mark does to the rows; an entry that is no row marks none.
LEMMA SetStatusEffect ==
  ASSUME NEW i \in Instances, NEW status \in {"completed", "failed"}, SetStatus(i, status),
         rows \in Seq(Row)
  PROVE  /\ rows' \in Seq(Row)
         /\ Len(rows') = Len(rows)
         /\ \A r \in 1..Len(rows) :
              /\ rows'[r].request = rows[r].request
              /\ \/ rows'[r] = rows[r]
                 \/ r = Head(replay[i].batch) /\ rows'[r].status = status
<1> DEFINE head == Head(replay[i].batch)
           one == [rows[head] EXCEPT !.status = status]
           two == [rows[head] EXCEPT !.stale = FALSE]
           new == [one EXCEPT !.stale = FALSE]
<1>1. /\ Len(rows) \in Nat
      /\ \A r \in 1..Len(rows) : rows[r] \in Row
  OBVIOUS
<1>2. rows' = [rows EXCEPT ![head].status = status, ![head].stale = FALSE]
  BY DEF SetStatus
<1> HIDE DEF head
<1>3. CASE head \in 1..Len(rows)
  <2>1. rows' = [rows EXCEPT ![head] = new]
    BY <1>1, <1>2, <1>3
  <2>2. /\ new \in Row /\ new.status = status
        /\ new.request = rows[head].request
    BY <1>1, <1>3 DEF Row
  <2> HIDE DEF new
  <2>3. rows' \in Seq(Row) /\ Len(rows') = Len(rows)
    BY <1>1, <1>3, <2>1, <2>2
  <2>4. \A r \in 1..Len(rows) : rows'[r] = IF r = head THEN new ELSE rows[r]
    BY <1>1, <1>3, <2>1
  <2> QED
    BY <2>2, <2>3, <2>4 DEF head
<1>4. CASE head \notin 1..Len(rows)
  <2>1. ASSUME NEW row
        PROVE  [rows EXCEPT ![head] = row] = rows
    BY <1>1, <1>4
  <2>2. [rows EXCEPT ![head].status = status] = [rows EXCEPT ![head] = one]
    OBVIOUS
  <2>3. [rows EXCEPT ![head].stale = FALSE] = [rows EXCEPT ![head] = two]
    OBVIOUS
  <2> HIDE DEF one, two
  <2>4. rows' = [rows EXCEPT ![head].stale = FALSE]
    BY <1>2, <2>1, <2>2
  <2>5. rows' = rows
    BY <2>1, <2>3, <2>4
  <2> QED
    BY <2>5
<1> QED
  BY <1>3, <1>4

-----------------------------------------------------------------------------
(* What a replay has had and has begun, over rows of any source *)

\* A replay has a step, and a batch of rows, which is not empty in the middle
\* of it.
ReplaysTyped ==
  /\ rows \in Seq(Row)
  /\ replay \in [Instances -> ReplayOver(Len(rows))]
  /\ \A i \in Instances :
       replay[i].step \notin {"idle", "dequeuing"} => replay[i].batch # << >>

Over(r) == rows[r].status \in {"completed", "failed"}

\* The batch of i is in the order of the table.  No other process can claim a
\* row of it that i has had for less than a minute, and what i began to
\* dispatch is its entry or is over.
HistoryOf(i) ==
  /\ past[i] \in [late : SUBSET (1..Len(rows)), begun : SUBSET (1..Len(rows))]
  /\ replay[i].step \in {"idle", "dequeuing"} => replay[i].batch = << >>
  /\ Increasing(replay[i].batch)
  /\ \A r \in Range(replay[i].batch) : Claimable(rows[r]) => r \in past[i].late
  /\ \A r \in past[i].begun :
       IF r \in Range(replay[i].batch)
       THEN replay[i].step # "entry" /\ r = Head(replay[i].batch)
       ELSE Over(r)

HistInv ==
  /\ DOMAIN past = Instances /\ past = [i \in Instances |-> past[i]]
  /\ \A i \in Instances : HistoryOf(i)
  /\ BatchesAreApart

\* The replay of i stands at its next step, with the same batch and history.
ReplayGoesOn(i) ==
  /\ replay[i].step \in {"entry", "dispatching", "marking"}
  /\ ReplayStep(i, "marking") \/ ReplayStep(i, "failing")
  /\ UNCHANGED <<rows, past>>

\* The loop of i is over, or it is about to begin.
ReplayIsReset(i) ==
  /\ replay' = [replay EXCEPT ![i] = NoReplay]
  /\ past' = [past EXCEPT ![i] = NoPast]
  /\ UNCHANGED rows
ReplayBegins(i) ==
  /\ replay[i].step = "idle"
  /\ replay' = [replay EXCEPT ![i] = [step |-> "dequeuing", batch |-> << >>]]
  /\ UNCHANGED <<rows, past>>

\* The ways in which a step changes the rows and what the replays do with them.
ReplaysChange ==
  \/ (UNCHANGED rows \/ \E n \in 1..Len(requests) : NewRow(n)) /\ UNCHANGED <<replay, past>>
  \/ \E i \in Instances :
       \/ Dequeue(i) \/ MarkCompleted(i) \/ MarkFailed(i)
       \/ replay[i].step = "entry" /\ DispatchHead(i) /\ UNCHANGED rows
       \/ ReplayGoesOn(i) \/ ReplayIsReset(i) \/ ReplayBegins(i)
  \/ \E r \in 1..MaxRequests : Age(r)

\* Taking the head off a batch in the order of the table.
LEMMA IncreasingTail ==
  ASSUME NEW length \in Nat, NEW s \in Seq(1..length), s # << >>, Increasing(s)
  PROVE  /\ Head(s) \in 1..length /\ Head(s) \in Range(s)
         /\ Tail(s) \in Seq(1..length)
         /\ Increasing(Tail(s))
         /\ Range(Tail(s)) = Range(s) \ {Head(s)}
<1>1. /\ Len(s) \in Nat \ {0} /\ DOMAIN s = 1..Len(s)
      /\ Head(s) = s[1]
      /\ \A k \in 1..Len(s) : s[k] \in 1..length
  OBVIOUS
<1>2. /\ Tail(s) \in Seq(1..length)
      /\ Len(Tail(s)) = Len(s) - 1
      /\ \A k \in 1..(Len(s) - 1) : Tail(s)[k] = s[k + 1]
  OBVIOUS
<1>3. DOMAIN Tail(s) = 1..(Len(s) - 1)
  BY <1>2
<1>4. PICK t : t = Tail(s)
  OBVIOUS
<1>5. Increasing(t)
  <2>1. ASSUME NEW m \in 1..Len(t), NEW n \in 1..Len(t), m < n
        PROVE  t[m] < t[n]
    <3>1. m + 1 \in 1..Len(s) /\ n + 1 \in 1..Len(s) /\ m + 1 < n + 1
      BY <1>1, <1>2, <1>4, <2>1
    <3>2. s[m + 1] < s[n + 1]
      BY <3>1 DEF Increasing
    <3> QED
      BY <1>1, <1>2, <1>4, <2>1, <3>2
  <2> QED
    BY <2>1 DEF Increasing
<1>6. Range(s) = {s[k] : k \in 1..Len(s)} /\ Range(t) = {t[k] : k \in 1..(Len(s) - 1)}
  BY <1>1, <1>3, <1>4 DEF Range
<1>7. Range(t) = Range(s) \ {Head(s)}
  <2>1. ASSUME NEW k \in 1..(Len(s) - 1)
        PROVE  t[k] \in Range(s) /\ t[k] # s[1]
    <3>1. k + 1 \in 1..Len(s) /\ 1 \in 1..Len(s) /\ 1 < k + 1
      BY <1>1, <2>1
    <3>2. s[1] < s[k + 1]
      BY <3>1 DEF Increasing
    <3>3. t[k] = s[k + 1] /\ s[1] # s[k + 1]
      BY <1>1, <1>2, <1>4, <3>1, <3>2
    <3> QED
      BY <1>6, <3>1, <3>3
  <2>2. ASSUME NEW k \in 1..Len(s), s[k] # s[1]
        PROVE  s[k] \in Range(t)
    <3>1. k - 1 \in 1..(Len(s) - 1) /\ (k - 1) + 1 = k
      BY <1>1, <2>2
    <3>2. t[k - 1] = s[k]
      BY <1>2, <1>4, <3>1
    <3> QED
      BY <1>6, <3>1, <3>2
  <2>3. Range(t) \subseteq Range(s) \ {s[1]}
    BY <1>6, <2>1
  <2>4. Range(s) \ {s[1]} \subseteq Range(t)
    BY <1>6, <2>2
  <2> QED
    BY <1>1, <2>3, <2>4
<1>8. Head(s) \in 1..length /\ Head(s) \in Range(s)
  <2>1. 1 \in 1..Len(s)
    BY <1>1
  <2> QED
    BY <1>1, <1>6, <2>1
<1> QED
  BY <1>2, <1>4, <1>5, <1>7, <1>8

\* Claims of dequeuePending: only rows that were claimable, no longer so.
LEMMA DequeueClaims ==
  ASSUME NEW i \in Instances, Dequeue(i), rows \in Seq(Row)
  PROVE  \/ ReplayIsReset(i)
         \/ \E batch \in Seq(1..Len(rows)) :
              /\ batch # << >> /\ Increasing(batch)
              /\ \A r \in Range(batch) : Claimable(rows[r]) /\ ~Claimable(rows'[r])
              /\ replay' = [replay EXCEPT ![i] = [step |-> "entry", batch |-> batch]]
              /\ UNCHANGED past
<1> DEFINE found == {r \in 1..Len(rows) : Claimable(rows[r])}
<1>1. CASE found = {}
  BY <1>1 DEF Dequeue, EndReplay, ReplayIsReset
<1>2. CASE found # {}
  <2>1. PICK batch \in Oldest(found) :
          /\ rows' = [r \in 1..Len(rows) |->
                        IF r \in Range(batch)
                        THEN [rows[r] EXCEPT !.status = "processing",
                                             !.stale = FALSE]
                        ELSE IF r \in found
                        THEN [rows[r] EXCEPT !.status = "pending"]
                        ELSE rows[r]]
          /\ replay' = [replay EXCEPT ![i] = [step |-> "entry", batch |-> batch]]
          /\ UNCHANGED past
    BY <1>2 DEF Dequeue
  <2>2. /\ Len(rows) \in Nat /\ found \in SUBSET (1..Len(rows))
        /\ \A r \in found : rows[r] \in Row /\ Claimable(rows[r])
    OBVIOUS
  <2> HIDE DEF found
  <2>3. /\ batch \in Seq(1..Len(rows)) /\ batch # << >>
        /\ Range(batch) \subseteq found /\ Increasing(batch)
    BY <1>2, <2>2, OldestAreFound
  <2>4. \A r \in Range(batch) : ~Claimable(rows'[r])
    BY <2>1, <2>2, <2>3 DEF Claimable, Row
  <2> QED
    BY <2>1, <2>2, <2>3, <2>4
<1> QED
  BY <1>1, <1>2

\* A step that claims nothing it may not, and takes no row back that is over,
\* leaves the history of a replay that it does not move in order.
RowsKept ==
  /\ Len(rows) \in Nat /\ Len(rows') \in Nat /\ Len(rows) <= Len(rows')
  /\ \A r \in 1..Len(rows) :
       /\ Claimable(rows'[r]) => Claimable(rows[r])
       /\ Over(r) => Over(r)'

LEMMA RowsAreKept ==
  ASSUME rows \in Seq(Row),
         \/ UNCHANGED rows
         \/ \E n \in 1..Len(requests) : NewRow(n)
         \/ \E i \in Instances : Dequeue(i) \/ MarkCompleted(i) \/ MarkFailed(i)
  PROVE  RowsKept
<1>1. Len(rows) \in Nat /\ \A r \in 1..Len(rows) : rows[r] \in Row
  OBVIOUS
<1>2. CASE UNCHANGED rows
  BY <1>1, <1>2 DEF RowsKept, Over
<1>3. ASSUME NEW n \in 1..Len(requests), NewRow(n)
      PROVE  RowsKept
  <2> DEFINE row == [request |-> n, status |-> "pending", stale |-> FALSE]
  <2>1. rows' = Append(rows, row)
    BY <1>3 DEF NewRow
  <2> HIDE DEF row
  <2>2. Len(rows') = Len(rows) + 1 /\ \A r \in 1..Len(rows) : rows'[r] = rows[r]
    BY <1>1, <2>1
  <2> QED
    BY <1>1, <2>2 DEF RowsKept, Over
<1>4. ASSUME NEW i \in Instances, Dequeue(i), rows' # rows
      PROVE  RowsKept
  <2>1. /\ rows' \in [1..Len(rows) -> Row]
        /\ \A r \in 1..Len(rows) : ~Claimable(rows[r]) => rows'[r] = rows[r]
    BY <1>4, DequeueEffect
  <2>2. Len(rows') = Len(rows)
    BY <1>1, <2>1
  <2>3. \A r \in 1..Len(rows) : Over(r) => ~Claimable(rows[r])
    BY DEF Over, Claimable
  <2> QED
    BY <1>1, <2>1, <2>2, <2>3 DEF RowsKept, Over
<1>5. ASSUME NEW i \in Instances, NEW status \in {"completed", "failed"},
             SetStatus(i, status)
      PROVE  RowsKept
  <2>1. /\ Len(rows') = Len(rows)
        /\ \A r \in 1..Len(rows) :
             \/ rows'[r] = rows[r]
             \/ r = Head(replay[i].batch) /\ rows'[r].status = status
    BY <1>5, SetStatusEffect
  <2> QED
    BY <1>1, <1>5, <2>1 DEF RowsKept, Over, Claimable
<1>6. ASSUME NEW i \in Instances, MarkCompleted(i) \/ MarkFailed(i)
      PROVE  RowsKept
  BY <1>5, <1>6 DEF MarkCompleted, MarkFailed
<1> QED
  BY <1>2, <1>3, <1>4, <1>6

LEMMA HistoryRests ==
  ASSUME ReplaysTyped, RowsKept, NEW i \in Instances, HistoryOf(i),
         replay'[i] = replay[i], past'[i] = past[i]
  PROVE  HistoryOf(i)'
<1>1. /\ Range(replay[i].batch) \subseteq 1..Len(rows)
      /\ 1..Len(rows) \subseteq 1..Len(rows')
  <2>1. replay[i].batch \in Seq(1..Len(rows))
    BY DEF ReplaysTyped, ReplayOver
  <2> QED
    BY <2>1 DEF RowsKept, Range
<1>2. past[i].begun \subseteq 1..Len(rows)
  BY DEF HistoryOf
<1>3. past'[i] \in [late : SUBSET (1..Len(rows')), begun : SUBSET (1..Len(rows'))]
  BY <1>1 DEF HistoryOf
<1> QED
  BY <1>1, <1>2, <1>3 DEF HistoryOf, RowsKept

\* One replay moves: the others rest, and it shares no young row with them.
LEMMA HistoryTurns ==
  ASSUME ReplaysTyped, HistInv, RowsKept, NEW i \in Instances, NEW record, NEW history,
         replay' = [replay EXCEPT ![i] = record], past' = [past EXCEPT ![i] = history],
         HistoryOf(i)',
         \A r \in Range(record.batch) :
           \/ r \in Range(replay[i].batch) /\ (r \in past[i].late => r \in history.late)
           \/ Claimable(rows[r])
  PROVE  HistInv'
<1>1. /\ \A j \in Instances : replay'[j] = IF j = i THEN record ELSE replay[j]
      /\ \A j \in Instances : past'[j] = IF j = i THEN history ELSE past[j]
      /\ DOMAIN past' = Instances /\ past' = [j \in Instances |-> past'[j]]
  <2>1. replay = [j \in Instances |-> replay[j]]
    BY DEF ReplaysTyped
  <2> QED
    BY <2>1 DEF HistInv
<1>2. ASSUME NEW j \in Instances
      PROVE  HistoryOf(j)'
  BY <1>1, HistoryRests DEF HistInv
<1>3. ASSUME NEW j \in Instances, j # i,
             NEW r \in Range(record.batch) \cap Range(replay[j].batch)
      PROVE  r \in history.late \cup past[j].late
  BY <1>3 DEF HistInv, HistoryOf, BatchesAreApart
<1>4. BatchesAreApart'
  BY <1>1, <1>3 DEF HistInv, BatchesAreApart
<1> QED
  BY <1>1, <1>2, <1>4 DEF HistInv

LEMMA HistoryDequeues ==
  ASSUME ReplaysTyped, HistInv, NEW i \in Instances, Dequeue(i)
  PROVE  HistInv' \/ ReplayIsReset(i)
<1>1. RowsKept /\ rows \in Seq(Row)
  BY RowsAreKept DEF ReplaysTyped
<1>2. SUFFICES ASSUME NEW batch \in Seq(1..Len(rows)), batch # << >>, Increasing(batch),
                      \A r \in Range(batch) : Claimable(rows[r]) /\ ~Claimable(rows'[r]),
                      replay' = [replay EXCEPT ![i] = [step |-> "entry", batch |-> batch]],
                      UNCHANGED past
               PROVE  HistInv'
  BY <1>1, DequeueClaims
<1> DEFINE record == [step |-> "entry", batch |-> batch]
<1>3. /\ past' = [past EXCEPT ![i] = past[i]] /\ past'[i] = past[i]
      /\ replay'[i] = record
  BY <1>2 DEF HistInv, ReplaysTyped
<1>4. HistoryOf(i)'
  <2>1. past[i].begun \subseteq 1..Len(rows) /\ 1..Len(rows) \subseteq 1..Len(rows')
    BY <1>1 DEF HistInv, HistoryOf, RowsKept
  <2>2. past'[i] \in [late : SUBSET (1..Len(rows')), begun : SUBSET (1..Len(rows'))]
    BY <1>3, <2>1 DEF HistInv, HistoryOf
  <2>3. ASSUME NEW r \in past[i].begun
        PROVE  r \notin Range(batch) /\ Over(r)'
    <3>1. replay[i].batch = << >>
      BY DEF Dequeue, HistInv, HistoryOf
    <3>2. r \notin Range(<< >>)
      BY DEF Range
    <3>3. Over(r)
      BY <3>1, <3>2 DEF HistInv, HistoryOf
    <3> QED
      BY <1>1, <1>2, <2>1, <3>3 DEF RowsKept, Over, Claimable
  <2> QED
    BY <1>2, <1>3, <2>2, <2>3 DEF HistoryOf
<1> QED
  BY <1>1, <1>2, <1>3, <1>4, HistoryTurns

\* The mark of an entry takes it off the batch, and it is over.
LEMMA HistoryMarks ==
  ASSUME ReplaysTyped, HistInv, NEW i \in Instances, MarkCompleted(i) \/ MarkFailed(i)
  PROVE  HistInv'
<1>1. RowsKept /\ rows \in Seq(Row)
  BY RowsAreKept DEF ReplaysTyped
<1>2. PICK batch, head, left : batch = replay[i].batch /\ head = Head(batch) /\ left = Tail(batch)
  OBVIOUS
<1>3. /\ batch \in Seq(1..Len(rows)) /\ batch # << >> /\ Increasing(batch)
      /\ replay[i].step \in {"marking", "failing"}
  BY <1>2 DEF MarkCompleted, MarkFailed, ReplaysTyped, ReplayOver, HistInv, HistoryOf
<1>4. /\ head \in 1..Len(rows) /\ head \in Range(batch)
      /\ left \in Seq(1..Len(rows)) /\ Increasing(left)
      /\ Range(left) = Range(batch) \ {head}
  <2>1. Len(rows) \in Nat
    BY <1>1
  <2> QED
    BY <1>2, <1>3, <2>1, IncreasingTail
<1> DEFINE record == [step |-> IF left = << >> THEN "dequeuing" ELSE "entry", batch |-> left]
           history == [past[i] EXCEPT !.late = @ \ {head}]
<1>5. /\ replay' = [replay EXCEPT ![i] = record]
      /\ past' = [past EXCEPT ![i].late = @ \ {head}]
  BY <1>2 DEF MarkCompleted, MarkFailed, NextEntry
<1>6. /\ past[i] \in [late : SUBSET (1..Len(rows)), begun : SUBSET (1..Len(rows))]
      /\ history \in [late : SUBSET (1..Len(rows)), begun : SUBSET (1..Len(rows))]
      /\ history.late = past[i].late \ {head} /\ history.begun = past[i].begun
  BY DEF HistInv, HistoryOf
<1>7. past' = [past EXCEPT ![i] = history]
  BY <1>5
<1>8. replay'[i] = record /\ past'[i] = history
  BY <1>5, <1>7 DEF HistInv, ReplaysTyped
<1>9. Over(head)'
  <2>1. PICK status \in {"completed", "failed"} : SetStatus(i, status)
    BY DEF MarkCompleted, MarkFailed
  <2>2. rows' = [rows EXCEPT ![head].status = status, ![head].stale = FALSE]
    BY <1>2, <2>1 DEF SetStatus
  <2>3. rows[head] \in Row
    BY <1>1, <1>4
  <2>4. rows'[head].status = status
    BY <1>1, <1>4, <2>2, <2>3 DEF Row
  <2> QED
    BY <2>4 DEF Over
<1>10. 1..Len(rows) \subseteq 1..Len(rows')
  BY <1>1 DEF RowsKept
<1> HIDE DEF history
<1>11. HistoryOf(i)'
  <2>1. past'[i] \in [late : SUBSET (1..Len(rows')), begun : SUBSET (1..Len(rows'))]
    BY <1>6, <1>8, <1>10
  <2>2. \A r \in Range(left) : Claimable(rows'[r]) => r \in history.late
    <3>1. \A r \in Range(batch) : r \in 1..Len(rows)
      BY <1>3 DEF Range
    <3> QED
      BY <1>1, <1>2, <1>4, <1>6, <3>1 DEF HistInv, HistoryOf, RowsKept
  <2>3. \A r \in past[i].begun : r \notin Range(left) /\ Over(r)'
    BY <1>1, <1>2, <1>4, <1>6, <1>9 DEF HistInv, HistoryOf, RowsKept
  <2> QED
    BY <1>4, <1>6, <1>8, <2>1, <2>2, <2>3 DEF HistoryOf
<1>12. \A r \in Range(record.batch) :
         r \in Range(replay[i].batch) /\ (r \in past[i].late => r \in history.late)
  BY <1>2, <1>4, <1>6
<1> QED
  BY <1>1, <1>5, <1>7, <1>11, <1>12, HistoryTurns

\* The entry at hand is begun, or its dispatch, or its mark, is over.
LEMMA HistoryEntries ==
  ASSUME ReplaysTyped, HistInv, NEW i \in Instances,
         \/ replay[i].step = "entry" /\ DispatchHead(i) /\ UNCHANGED rows
         \/ ReplayGoesOn(i)
  PROVE  HistInv'
<1>1. RowsKept /\ rows \in Seq(Row)
  BY RowsAreKept DEF ReplaysTyped, ReplayGoesOn
<1>2. PICK batch, head : batch = replay[i].batch /\ head = Head(batch)
  OBVIOUS
<1>3. /\ batch \in Seq(1..Len(rows)) /\ batch # << >> /\ Increasing(batch)
      /\ replay[i] \in ReplayOver(Len(rows))
  BY <1>2 DEF ReplayGoesOn, ReplaysTyped, ReplayOver, HistInv, HistoryOf
<1>4. head \in 1..Len(rows) /\ head \in Range(batch)
  BY <1>1, <1>2, <1>3, IncreasingTail
<1>5. /\ past[i] \in [late : SUBSET (1..Len(rows)), begun : SUBSET (1..Len(rows))]
      /\ past = [past EXCEPT ![i] = past[i]]
  BY DEF HistInv, HistoryOf
<1>6. PICK step \in {"dispatching", "marking", "failing"}, begun \in {{}, {head}} :
        /\ replay' = [replay EXCEPT ![i].step = step]
        /\ past' = [past EXCEPT ![i].begun = @ \cup begun]
        /\ UNCHANGED rows
  <2>1. CASE DispatchHead(i) /\ UNCHANGED rows
    BY <1>2, <2>1 DEF DispatchHead, ReplayStep
  <2>2. CASE ReplayGoesOn(i)
    <3>1. past' = [past EXCEPT ![i].begun = @ \cup {}]
      BY <1>5, <2>2 DEF ReplayGoesOn
    <3> QED
      BY <2>2, <3>1 DEF ReplayGoesOn, ReplayStep
  <2> QED
    BY <2>1, <2>2
<1> DEFINE record == [step |-> step, batch |-> batch]
           history == [past[i] EXCEPT !.begun = @ \cup begun]
<1>7. replay' = [replay EXCEPT ![i] = record]
  <2>1. [replay[i] EXCEPT !.step = step] = record
    BY <1>2, <1>3 DEF ReplayOver
  <2> QED
    BY <1>6, <2>1
<1>8. past' = [past EXCEPT ![i] = history]
  BY <1>6
<1>9. replay'[i] = record /\ past'[i] = history
  BY <1>7, <1>8 DEF HistInv, ReplaysTyped
<1>10. /\ history \in [late : SUBSET (1..Len(rows)), begun : SUBSET (1..Len(rows))]
       /\ history.late = past[i].late /\ history.begun = past[i].begun \cup begun
  BY <1>4, <1>5, <1>6
<1> HIDE DEF history
<1>11. HistoryOf(i)'
  <2>1. \A r \in past[i].begun \cup begun :
          IF r \in Range(batch) THEN r = head ELSE Over(r)'
    <3>1. \A r \in past[i].begun : IF r \in Range(batch) THEN r = head ELSE Over(r)
      BY <1>2 DEF HistInv, HistoryOf
    <3>2. \A r : Over(r)' <=> Over(r)
      BY <1>6 DEF Over
    <3> QED
      BY <1>4, <1>6, <3>1, <3>2
  <2>2. \A r \in Range(batch) : Claimable(rows'[r]) => r \in past[i].late
    BY <1>2, <1>6 DEF HistInv, HistoryOf
  <2>3. rows' = rows /\ record.step = step /\ record.batch = batch
    BY <1>6
  <2> HIDE DEF record
  <2> QED
    BY <1>2, <1>3, <1>6, <1>9, <1>10, <2>1, <2>2, <2>3 DEF HistoryOf
<1>12. \A r \in Range(record.batch) :
         r \in Range(replay[i].batch) /\ (r \in past[i].late => r \in history.late)
  BY <1>2, <1>10
<1> QED
  BY <1>1, <1>7, <1>8, <1>11, <1>12, HistoryTurns

LEMMA HistoryEndsAndBegins ==
  ASSUME ReplaysTyped, HistInv, NEW i \in Instances, ReplayIsReset(i) \/ ReplayBegins(i)
  PROVE  HistInv'
<1>1. RowsKept /\ UNCHANGED rows
  BY RowsAreKept DEF ReplaysTyped, ReplayIsReset, ReplayBegins
<1>2. Increasing(<< >>) /\ Range(<< >>) = {}
  BY DEF Increasing, Range
<1>3. CASE ReplayIsReset(i)
  <2>1. replay'[i] = NoReplay /\ past'[i] = NoPast
    BY <1>3 DEF ReplayIsReset, HistInv, ReplaysTyped
  <2>2. HistoryOf(i)'
    BY <1>2, <2>1 DEF HistoryOf, NoReplay, NoPast
  <2>3. Range(NoReplay.batch) = {}
    BY <1>2 DEF NoReplay
  <2> QED
    BY <1>1, <1>3, <2>2, <2>3, HistoryTurns DEF ReplayIsReset
<1>4. CASE ReplayBegins(i)
  <2> DEFINE record == [step |-> "dequeuing", batch |-> << >>]
  <2>1. replay'[i] = record /\ past'[i] = past[i] /\ past' = [past EXCEPT ![i] = past[i]]
    BY <1>4 DEF ReplayBegins, HistInv, ReplaysTyped
  <2>2. replay[i].batch = << >>
    BY <1>4 DEF ReplayBegins, HistInv, HistoryOf
  <2>3. HistoryOf(i)'
    BY <1>1, <1>2, <2>1, <2>2 DEF HistoryOf, HistInv, Over
  <2>4. Range(record.batch) = {}
    BY <1>2
  <2> QED
    BY <1>1, <1>4, <2>1, <2>3, <2>4, HistoryTurns DEF ReplayBegins
<1> QED
  BY <1>3, <1>4

\* A claim that turns a minute old is late with every replay that has the row.
LEMMA HistoryAges ==
  ASSUME ReplaysTyped, HistInv, NEW r \in 1..MaxRequests, Age(r)
  PROVE  HistInv'
<1>1. /\ rows \in Seq(Row) /\ r \in 1..Len(rows)
      /\ rows' = [rows EXCEPT ![r].stale = TRUE] /\ replay' = replay
      /\ rows[r].status = "processing"
  BY DEF Age, ReplaysTyped
<1>2. /\ Len(rows') = Len(rows)
      /\ \A q \in 1..Len(rows) : q # r => rows'[q] = rows[q]
      /\ \A q \in 1..Len(rows) : Over(q) => Over(q)'
  <2>1. rows[r] \in Row
    BY <1>1
  <2> DEFINE new == [rows[r] EXCEPT !.stale = TRUE]
  <2>2. new \in Row /\ new.status = rows[r].status /\ rows' = [rows EXCEPT ![r] = new]
    BY <1>1, <2>1 DEF Row
  <2> HIDE DEF new
  <2>3. rows \in Seq(Row) /\ r \in 1..Len(rows)
    BY <1>1
  <2>4. /\ Len(rows') = Len(rows)
        /\ \A q \in 1..Len(rows) : rows'[q] = IF q = r THEN new ELSE rows[q]
    BY <2>2, <2>3
  <2> QED
    BY <2>2, <2>4 DEF Over
<1>3. ASSUME NEW i \in Instances
      PROVE  /\ past'[i].begun = past[i].begun
             /\ past[i].late \subseteq past'[i].late
             /\ past'[i] \in [late : SUBSET (1..Len(rows)), begun : SUBSET (1..Len(rows))]
             /\ r \in Range(replay[i].batch) => r \in past'[i].late
  <2>1. past[i] \in [late : SUBSET (1..Len(rows)), begun : SUBSET (1..Len(rows))]
    BY DEF HistInv, HistoryOf
  <2>2. past'[i] = IF r \in Range(replay[i].batch)
                   THEN [past[i] EXCEPT !.late = @ \cup {r}] ELSE past[i]
    BY DEF Age
  <2> QED
    BY <1>1, <2>1, <2>2
<1>4. ASSUME NEW i \in Instances
      PROVE  HistoryOf(i)'
  <2>1. Range(replay[i].batch) \subseteq 1..Len(rows)
    <3>1. replay[i].batch \in Seq(1..Len(rows))
      BY DEF ReplaysTyped, ReplayOver
    <3> QED
      BY <3>1 DEF Range
  <2>2. \A q \in Range(replay[i].batch) : Claimable(rows'[q]) => q \in past'[i].late
    BY <1>2, <1>3, <2>1 DEF HistInv, HistoryOf
  <2>3. \A q \in past[i].begun : q \in 1..Len(rows)
    BY DEF HistInv, HistoryOf
  <2> QED
    BY <1>1, <1>2, <1>3, <2>2, <2>3 DEF HistInv, HistoryOf
<1>5. BatchesAreApart'
  BY <1>1, <1>3 DEF HistInv, BatchesAreApart
<1>6. DOMAIN past' = Instances /\ past' = [i \in Instances |-> past'[i]]
  BY DEF Age
<1> QED
  BY <1>4, <1>5, <1>6 DEF HistInv

LEMMA HistoryStep ==
  ASSUME ReplaysTyped, HistInv, ReplaysChange
  PROVE  HistInv'
<1>1. CASE /\ UNCHANGED rows \/ \E n \in 1..Len(requests) : NewRow(n)
           /\ UNCHANGED <<replay, past>>
  <2>1. RowsKept
    BY <1>1, RowsAreKept DEF ReplaysTyped
  <2>2. \A i \in Instances : HistoryOf(i)'
    BY <1>1, <2>1, HistoryRests DEF HistInv
  <2> QED
    BY <1>1, <2>2 DEF HistInv, BatchesAreApart
<1>2. ASSUME NEW i \in Instances, Dequeue(i)
      PROVE  HistInv'
  BY <1>2, HistoryDequeues, HistoryEndsAndBegins
<1> QED
  BY <1>1, <1>2, HistoryMarks, HistoryEntries, HistoryEndsAndBegins, HistoryAges
     DEF ReplaysChange

LEMMA HistoryBegins == Init => HistInv
<1> SUFFICES ASSUME Init PROVE HistInv
  OBVIOUS
<1>1. /\ past = [i \in Instances |-> NoPast]
      /\ \A i \in Instances : replay[i] = NoReplay
  BY DEF Init
<1>2. NoReplay.batch = << >> /\ NoReplay.step = "idle"
  BY DEF NoReplay
<1>3. Increasing(<< >>) /\ Range(<< >>) = {}
  BY DEF Increasing, Range
<1>4. \A i \in Instances : HistoryOf(i)
  BY <1>1, <1>2, <1>3 DEF HistoryOf, NoPast
<1> QED
  BY <1>1, <1>2, <1>3, <1>4 DEF HistInv, BatchesAreApart

\* The second part of DispatchedOnceEachWay: an entry at hand was not begun.
LEMMA EntriesAreNew ==
  ASSUME ReplaysTyped, HistInv, NEW i \in Instances, replay[i].step = "entry"
  PROVE  Head(replay[i].batch) \notin past[i].begun
<1>1. /\ Len(rows) \in Nat /\ replay[i].batch \in Seq(1..Len(rows))
      /\ replay[i].batch # << >> /\ Increasing(replay[i].batch)
  BY DEF ReplaysTyped, ReplayOver, HistInv, HistoryOf
<1>2. Head(replay[i].batch) \in Range(replay[i].batch)
  BY <1>1, IncreasingTail
<1> QED
  BY <1>2 DEF HistInv, HistoryOf

\* Steps that touch neither a replay nor its history, and those that do.
LEMMA RequestsSpareReplays ==
  ASSUME \/ \E i \in Instances, d \in Deliveries :
              ReceiveDuplicate(i, d) \/ ReceiveServing(i, d) \/ ReceiveDraining(i, d)
         \/ \E n \in 1..Len(requests) :
              InsertSucceeds(n) \/ InsertFails(n) \/ DispatchEnds(n)
         \/ \E i \in Instances : BeginShutdown(i)
  PROVE  ReplaysChange
BY DEF ReceiveDuplicate, ReceiveServing, ReceiveDraining, InsertSucceeds, InsertFails,
     DispatchEnds, BeginShutdown, ReplaysChange

LEMMA ReplaysOfProcess ==
  ASSUME ProcessesOwn, NEW i \in Instances,
         \/ Dequeue(i) \/ ReplayStops(i) \/ ReplayEntry(i) \/ ReplayDispatched(i)
         \/ MarkCompleted(i) \/ MarkCompletedFails(i) \/ MarkFailed(i) \/ MarkFailedFails(i)
         \/ StartProcess(i) \/ ExitDrained(i) \/ ForceExit(i) \/ Kill(i)
  PROVE  ReplaysChange
<1>1. CASE Dequeue(i) \/ MarkCompleted(i) \/ MarkFailed(i)
  BY <1>1 DEF ReplaysChange
<1>2. CASE ReplayEntry(i)
  BY <1>2 DEF ReplayEntry, ReplaysChange
<1>3. CASE ReplayDispatched(i) \/ MarkCompletedFails(i)
  <2>1. ReplayGoesOn(i)
    BY <1>3 DEF ReplayDispatched, MarkCompletedFails, ReplayGoesOn
  <2> QED
    BY <2>1 DEF ReplaysChange
<1>4. CASE \/ ReplayStops(i) \/ MarkFailedFails(i)
           \/ ExitDrained(i) \/ ForceExit(i) \/ Kill(i)
  <2>1. ReplayIsReset(i)
    BY <1>4 DEF ReplayStops, MarkFailedFails, EndReplay, ExitDrained, ForceExit, Kill, Exit,
         ReplayIsReset
  <2> QED
    BY <2>1 DEF ReplaysChange
<1>5. CASE StartProcess(i)
  <2>1. ReplayBegins(i)
    BY <1>5 DEF StartProcess, ReplayBegins, ProcessesOwn, Up
  <2> QED
    BY <2>1 DEF ReplaysChange
<1> QED
  BY <1>1, <1>2, <1>3, <1>4, <1>5

LEMMA IntakeReplays ==
  ASSUME ProcessesOwn, [Next]_vars
  PROVE  ReplaysChange
<1>1. CASE UNCHANGED vars
  BY <1>1 DEF vars, ReplaysChange
<1>2. ASSUME NEW r \in 1..MaxRequests, Age(r)
      PROVE  ReplaysChange
  BY <1>2 DEF ReplaysChange
<1> QED
  BY <1>1, <1>2, RequestsSpareReplays, ReplaysOfProcess DEF Next

LEMMA HistoryAlways == Spec => [](IntakeInductive /\ ReplaysTyped /\ HistInv)
<1>1. IntakeInductive => ReplaysTyped
  BY DEF IntakeInductive, CoreTypeOK, TableInv, ReplaysAreBacked, ReplaysTyped, ReplayOver
<1>2. IntakeInductive /\ HistInv /\ [Next]_vars => HistInv'
  BY <1>1, IntakeReplays, HistoryStep DEF IntakeInductive
<1> QED
  BY <1>1, <1>2, HistoryBegins, IntakeAlways, PTL DEF Spec

\* The types of all variables, and the tracker that a drain waits for counts
\* the dispatches in flight and the replay, on every path out of both.
THEOREM TrackerCountsWhatIsInFlight == Spec => []IntakeInv
<1>1. ASSUME IntakeInductive, HistInv
      PROVE  IntakeInv
  <2>1. past \in [Instances -> [late : SUBSET (1..Len(rows)), begun : SUBSET (1..Len(rows))]]
    BY <1>1 DEF HistInv, HistoryOf
  <2> QED
    BY <1>1, <2>1 DEF IntakeInductive, CoreTypeOK, IntakeTypeOK, IntakeInv
<1> QED
  BY <1>1, HistoryAlways, PTL

\* However often GitHub sends a delivery, the requests of one process dispatch
\* it at most once, and its replay dispatches no row a second time, whatever
\* other processes claim, mark and leave behind meanwhile.
THEOREM NoSecondDispatch == Spec => []DispatchedOnceEachWay
<1>1. ASSUME IntakeInductive, ReplaysTyped, HistInv
      PROVE  DispatchedOnceEachWay
  <2>1. RequestsDispatchOnce
    BY <1>1, DifferentMeansOnce
       DEF IntakeInductive, CacheInv, DispatchesDiffer, DeliveriesDiffer
  <2> QED
    BY <1>1, <2>1, EntriesAreNew DEF DispatchedOnceEachWay, RequestsDispatchOnce
<1> QED
  BY <1>1, HistoryAlways, PTL

\* Two processes have the same row yet to dispatch or to mark only if one of
\* them has had it for over a minute, whatever rows crashes leave behind.
THEOREM BatchesStayApart == Spec => []BatchesAreApart
<1>1. HistInv => BatchesAreApart
  BY DEF HistInv
<1> QED
  BY <1>1, HistoryAlways, PTL

-----------------------------------------------------------------------------
(* Slack beside GitHub: processes, requests and the tracker *)

SlackRequest ==
  [delivery : Deliveries \cup Messages, instance : Instances \cup {"gone"},
   state : RequestStates \cup {"ignored", "requeueing"}]

\* Every instance has a replay, with a step and a batch.
ReplaysHaveSteps ==
  replay = [i \in Instances |-> [step |-> replay[i].step, batch |-> replay[i].batch]]

\* What the tracker depends on.  A message is in flight from the call of the
\* assistant to its end; one that waits to be queued again is not, and may
\* outlive its process.
SlackCore ==
  /\ mode \in [Instances -> {"down", "serving", "draining"}]
  /\ tracked \in [Instances -> Nat]
  /\ requests \in Seq(SlackRequest)
  /\ ReplaysHaveSteps
  /\ ProcessesOwn
  /\ TrackedIsInFlight

\* A store has a thread if and only if the process has called the assistant
\* for its first message, once, and every call was for a thread it has.
CallsFollow(store, threads, calls) ==
  \A i \in Instances, m \in Messages :
    /\ calls[i][store][m] > 0 => Root[m] \in threads[i]
    /\ Opens(m) => calls[i][store][m] = IF m \in threads[i] THEN 1 ELSE 0

SessionsInv ==
  /\ sessions \in [Instances -> SUBSET Messages]
  /\ replaySessions \in [Instances -> SUBSET Messages]
  /\ recent \in [Instances -> SUBSET Messages]
  /\ called \in [Instances -> [Stores -> [Messages -> Nat]]]
  /\ CallsFollow("route", sessions, called)
  /\ CallsFollow("replay", replaySessions, called)

SlackInductive == SlackCore /\ SessionsInv

LEMMA SlackRequestTypes ==
  ASSUME SlackCore, NEW n \in 1..Len(requests)
  PROVE  /\ Len(requests) \in Nat
         /\ requests[n] \in SlackRequest
         /\ requests[n].state = "dispatching" =>
              requests[n].instance \in Instances /\ Up(requests[n].instance)
<1>1. requests \in Seq(SlackRequest) /\ ProcessesOwn
  BY DEF SlackCore
<1>2. Len(requests) \in Nat /\ requests[n] \in SlackRequest
  BY <1>1
<1>3. requests[n].instance \in Instances \cup {"gone"}
  BY <1>2 DEF SlackRequest
<1> QED
  BY <1>1, <1>2, <1>3 DEF ProcessesOwn

LEMMA SlackInFlightIsFinite ==
  ASSUME SlackCore, NEW i \in Instances
  PROVE  /\ IsFiniteSet(RequestsIn(i, "dispatching"))
         /\ Cardinality(RequestsIn(i, "dispatching")) \in Nat
<1>1. IsFiniteSet(1..Len(requests))
  BY FS_Interval DEF SlackCore
<1>2. IsFiniteSet(RequestsIn(i, "dispatching"))
  BY <1>1, FS_Subset DEF RequestsIn
<1> QED
  BY <1>2, FS_CardinalityType

\* The effects on the requests, as in WebhookIntake.
LEMMA ArrivalEffect ==
  ASSUME SlackCore, NEW i \in Instances, NEW d \in Deliveries \cup Messages,
         NEW state \in RequestStates \cup {"ignored", "requeueing"}, NewRequest(i, d, state)
  PROVE  /\ requests' \in Seq(SlackRequest)
         /\ Len(requests) \in Nat
         /\ Len(requests') = Len(requests) + 1
         /\ \A n \in 1..Len(requests) : requests'[n] = requests[n]
         /\ requests'[Len(requests) + 1].delivery = d
         /\ requests'[Len(requests) + 1].instance = i
         /\ requests'[Len(requests) + 1].state = state
         /\ 1..Len(requests') = 1..Len(requests) \cup {Len(requests) + 1}
         /\ Len(requests) + 1 \notin 1..Len(requests)
<1> DEFINE new == [delivery |-> d, instance |-> i, state |-> state]
<1>1. /\ new \in SlackRequest
      /\ new.delivery = d /\ new.instance = i /\ new.state = state
  BY DEF SlackRequest
<1>2. requests' = Append(requests, new) /\ requests \in Seq(SlackRequest)
  BY DEF NewRequest, SlackCore
<1> HIDE DEF new
<1>3. /\ requests' \in Seq(SlackRequest)
      /\ Len(requests) \in Nat
      /\ Len(requests') = Len(requests) + 1
      /\ \A n \in 1..Len(requests) : requests'[n] = requests[n]
      /\ requests'[Len(requests) + 1] = new
  BY <1>1, <1>2
<1>4. /\ 1..Len(requests') = 1..Len(requests) \cup {Len(requests) + 1}
      /\ Len(requests) + 1 \notin 1..Len(requests)
  BY <1>3
<1> QED
  BY <1>1, <1>3, <1>4

LEMMA MoveEffect ==
  ASSUME SlackCore, NEW n \in 1..Len(requests),
         NEW state \in RequestStates \cup {"ignored", "requeueing"}, SetRequest(n, state)
  PROVE  /\ requests' \in Seq(SlackRequest)
         /\ Len(requests) \in Nat
         /\ Len(requests') = Len(requests)
         /\ \A m \in 1..Len(requests) : m # n => requests'[m] = requests[m]
         /\ requests'[n].delivery = requests[n].delivery
         /\ requests'[n].instance = requests[n].instance
         /\ requests'[n].state = state
<1> DEFINE new == [requests[n] EXCEPT !.state = state]
<1>1. requests \in Seq(SlackRequest) /\ Len(requests) \in Nat /\ requests[n] \in SlackRequest
  BY SlackRequestTypes DEF SlackCore
<1>2. /\ new \in SlackRequest
      /\ new.delivery = requests[n].delivery
      /\ new.instance = requests[n].instance
      /\ new.state = state
  BY <1>1 DEF SlackRequest
<1>3. requests' = [requests EXCEPT ![n] = new]
  BY DEF SetRequest
<1> HIDE DEF new
<1>4. /\ requests' \in Seq(SlackRequest) /\ Len(requests') = Len(requests)
      /\ \A m \in 1..Len(requests) : m # n => requests'[m] = requests[m]
      /\ requests'[n] = new
  BY <1>1, <1>2, <1>3
<1> QED
  BY <1>1, <1>2, <1>4

LEMMA EndEffect ==
  ASSUME SlackCore, NEW i \in Instances, NEW code, NEW lost \in {"abandoned", "killed"},
         Exit(i, code, lost)
  PROVE  /\ requests' \in Seq(SlackRequest)
         /\ Len(requests) \in Nat
         /\ Len(requests') = Len(requests)
         /\ \A n \in 1..Len(requests) :
              /\ requests'[n].delivery = requests[n].delivery
              /\ requests[n].instance # i => requests'[n] = requests[n]
              /\ requests[n].instance = i =>
                   /\ requests'[n].instance = "gone"
                   /\ requests'[n].state \notin {"dispatching", "inserting"}
<1>1. requests \in Seq(SlackRequest) /\ Len(requests) \in Nat
  BY DEF SlackCore
<1> DEFINE new(n) ==
      IF requests[n].instance # i THEN requests[n]
      ELSE [requests[n] EXCEPT
              !.instance = "gone",
              !.state = CASE @ = "dispatching" -> lost
                          [] @ = "inserting" -> "refused"
                          [] OTHER -> @]
<1>2. requests' = [n \in 1..Len(requests) |-> new(n)]
  BY DEF Exit
<1>3. ASSUME NEW n \in 1..Len(requests)
      PROVE  /\ new(n) \in SlackRequest
             /\ new(n).delivery = requests[n].delivery
             /\ requests[n].instance # i => new(n) = requests[n]
             /\ requests[n].instance = i =>
                  /\ new(n).instance = "gone"
                  /\ new(n).state \notin {"dispatching", "inserting"}
  <2>1. requests[n] \in SlackRequest
    BY <1>1
  <2> QED
    BY <2>1 DEF SlackRequest, RequestStates
<1> HIDE DEF new
<1>4. requests' \in Seq(SlackRequest) /\ Len(requests') = Len(requests)
  BY <1>1, <1>2, <1>3
<1> QED
  BY <1>1, <1>2, <1>3, <1>4

\* A request arrives at a process that is up: it is tracked if and only if it
\* is dispatched at once.
LEMMA RequestArrives ==
  ASSUME SlackCore, NEW i \in Instances, NEW d \in Deliveries \cup Messages,
         NEW state \in RequestStates \cup {"ignored", "requeueing"},
         NewRequest(i, d, state), Up(i),
         tracked' = IF state = "dispatching" THEN [tracked EXCEPT ![i] = @ + 1] ELSE tracked,
         UNCHANGED <<mode, replay>>
  PROVE  SlackCore'
<1> USE DEF SlackCore
<1>1. /\ requests' \in Seq(SlackRequest)
      /\ Len(requests) \in Nat
      /\ Len(requests') = Len(requests) + 1
      /\ \A n \in 1..Len(requests) : requests'[n] = requests[n]
      /\ requests'[Len(requests) + 1].instance = i
      /\ requests'[Len(requests) + 1].state = state
      /\ 1..Len(requests') = 1..Len(requests) \cup {Len(requests) + 1}
      /\ Len(requests) + 1 \notin 1..Len(requests)
  BY ArrivalEffect
<1>2. tracked' \in [Instances -> Nat]
  <2>1. CASE state = "dispatching"
    BY <2>1
  <2>2. CASE state # "dispatching"
    BY <2>2
  <2> QED
    BY <2>1, <2>2
<1>3. ReplaysHaveSteps'
  BY DEF ReplaysHaveSteps
<1>4. ProcessesOwn'
  <2>1. \A j \in Instances : mode'[j] = mode[j] /\ replay'[j] = replay[j]
    OBVIOUS
  <2>2. \A j \in Instances : ~Up(j)' => replay'[j].step = "idle"
    BY <2>1 DEF ProcessesOwn, Up
  <2>3. \A n \in 1..Len(requests') :
          /\ \A j \in Instances : requests'[n].instance = j => Up(j)'
          /\ requests'[n].state \in {"inserting", "dispatching"}
               => requests'[n].instance # "gone"
    <3> TAKE n \in 1..Len(requests')
    <3>1. CASE n \in 1..Len(requests)
      BY <1>1, <2>1, <3>1 DEF ProcessesOwn, Up
    <3>2. CASE n = Len(requests) + 1
      BY <1>1, <2>1, <3>2, IntakeAssumption DEF Up
    <3> QED
      BY <1>1, <3>1, <3>2
  <2> QED
    BY <2>2, <2>3 DEF ProcessesOwn
<1>5. ASSUME NEW j \in Instances, Up(j)'
      PROVE  tracked'[j] = Cardinality(RequestsIn(j, "dispatching"))'
                             + (IF replay'[j].step = "idle" THEN 0 ELSE 1)
  <2> DEFINE old == RequestsIn(j, "dispatching")
  <2>1. IsFiniteSet(old) /\ Cardinality(old) \in Nat
    BY SlackInFlightIsFinite
  <2>2. tracked[j] = Cardinality(old) + (IF replay[j].step = "idle" THEN 0 ELSE 1)
    BY <1>5 DEF TrackedIsInFlight, Up
  <2>3. CASE state = "dispatching" /\ j = i
    <3>1. RequestsIn(j, "dispatching")' = old \cup {Len(requests) + 1}
      BY <1>1, <2>3 DEF RequestsIn
    <3>2. Len(requests) + 1 \notin old
      BY <1>1 DEF RequestsIn
    <3>3. Cardinality(RequestsIn(j, "dispatching"))' = Cardinality(old) + 1
      BY <2>1, <3>1, <3>2, FS_AddElement
    <3>4. tracked'[j] = tracked[j] + 1
      BY <2>3
    <3> HIDE DEF old
    <3> QED
      BY <2>1, <2>2, <3>3, <3>4
  <2>4. CASE ~(state = "dispatching" /\ j = i)
    <3>1. RequestsIn(j, "dispatching")' = old
      BY <1>1, <2>4 DEF RequestsIn
    <3>2. tracked'[j] = tracked[j]
      BY <2>4
    <3> QED
      BY <2>2, <3>1, <3>2
  <2> QED
    BY <2>3, <2>4
<1> QED
  BY <1>1, <1>2, <1>3, <1>4, <1>5 DEF TrackedIsInFlight

\* A request gets another state, and is untracked if it was in flight.
LEMMA RequestMoves ==
  ASSUME SlackCore, NEW n \in 1..Len(requests),
         NEW state \in (RequestStates \cup {"ignored", "requeueing"})
                         \ {"dispatching", "inserting"},
         SetRequest(n, state),
         tracked' = IF requests[n].state = "dispatching"
                    THEN [tracked EXCEPT ![requests[n].instance] = @ - 1]
                    ELSE tracked,
         UNCHANGED <<mode, replay>>
  PROVE  SlackCore'
<1> USE DEF SlackCore
<1> DEFINE i == requests[n].instance
           inFlight == requests[n].state = "dispatching"
<1>1. /\ requests \in Seq(SlackRequest) /\ Len(requests) \in Nat
      /\ requests[n] \in SlackRequest
      /\ inFlight => i \in Instances /\ Up(i)
  BY SlackRequestTypes
<1>2. /\ requests' \in Seq(SlackRequest)
      /\ Len(requests') = Len(requests)
      /\ \A m \in 1..Len(requests) : m # n => requests'[m] = requests[m]
      /\ requests'[n].instance = i
      /\ requests'[n].state = state
  BY MoveEffect
<1>3. ASSUME NEW j \in Instances
      PROVE  Cardinality(RequestsIn(j, "dispatching"))'
               = Cardinality(RequestsIn(j, "dispatching"))
                   - (IF inFlight /\ j = i THEN 1 ELSE 0)
  <2> DEFINE old == RequestsIn(j, "dispatching")
  <2>1. IsFiniteSet(old) /\ Cardinality(old) \in Nat
    BY SlackInFlightIsFinite
  <2>2. CASE inFlight /\ j = i
    <3>1. RequestsIn(j, "dispatching")' = old \ {n} /\ n \in old
      BY <1>2, <2>2 DEF RequestsIn
    <3>2. Cardinality(old \ {n}) = Cardinality(old) - 1
      BY <2>1, <3>1, FS_RemoveElement
    <3> HIDE DEF old
    <3> QED
      BY <2>2, <3>1, <3>2 DEF old
  <2>3. CASE ~(inFlight /\ j = i)
    <3>1. RequestsIn(j, "dispatching")' = old
      BY <1>2, <2>3 DEF RequestsIn
    <3> HIDE DEF old
    <3> QED
      BY <2>1, <2>3, <3>1 DEF old
  <2> QED
    BY <2>2, <2>3
<1>4. \A j \in Instances : Cardinality(RequestsIn(j, "dispatching")) \in Nat
  BY SlackInFlightIsFinite
<1>5. inFlight => tracked[i] \in Nat /\ tracked[i] >= 1
  <2> SUFFICES ASSUME inFlight PROVE tracked[i] \in Nat /\ tracked[i] >= 1
    OBVIOUS
  <2>1. n \in RequestsIn(i, "dispatching")
    BY DEF RequestsIn
  <2>2. Cardinality(RequestsIn(i, "dispatching")) # 0
    BY <1>1, <2>1, SlackInFlightIsFinite, FS_EmptySet
  <2>3. tracked[i] = Cardinality(RequestsIn(i, "dispatching"))
                       + (IF replay[i].step = "idle" THEN 0 ELSE 1)
    BY <1>1 DEF TrackedIsInFlight
  <2>4. tracked[i] \in Nat
    BY <1>1
  <2>5. \A c \in Nat \ {0} : c + (IF replay[i].step = "idle" THEN 0 ELSE 1) >= 1
    OBVIOUS
  <2> QED
    BY <1>1, <1>4, <2>2, <2>3, <2>4, <2>5
<1> HIDE DEF i, inFlight
<1>6. /\ tracked' \in [Instances -> Nat]
      /\ \A j \in Instances :
           tracked'[j] = tracked[j] - (IF inFlight /\ j = i THEN 1 ELSE 0)
  <2>1. CASE inFlight
    <3>1. i \in Instances /\ tracked' = [tracked EXCEPT ![i] = @ - 1]
      BY <1>1, <2>1 DEF i, inFlight
    <3>2. tracked[i] - 1 \in Nat /\ \A j \in Instances : tracked[j] - 0 = tracked[j]
      BY <1>5, <2>1
    <3>3. \A j \in Instances : tracked'[j] = IF j = i THEN tracked[i] - 1 ELSE tracked[j]
      BY <3>1
    <3>4. tracked' \in [Instances -> Nat]
      BY <3>1, <3>2
    <3> QED
      BY <2>1, <3>2, <3>3, <3>4
  <2>2. CASE ~inFlight
    <3>1. tracked' = tracked
      BY <2>2 DEF inFlight
    <3>2. \A j \in Instances : tracked[j] - 0 = tracked[j]
      OBVIOUS
    <3>3. \A j \in Instances : (IF inFlight /\ j = i THEN 1 ELSE 0) = 0
      BY <2>2
    <3> QED
      BY <3>1, <3>2, <3>3
  <2> QED
    BY <2>1, <2>2
<1>7. ReplaysHaveSteps'
  BY DEF ReplaysHaveSteps
<1>8. ProcessesOwn'
  <2>1. \A m \in 1..Len(requests) : requests'[m].instance = requests[m].instance
    BY <1>2 DEF i
  <2>2. \A m \in 1..Len(requests) :
          requests'[m].state \in {"inserting", "dispatching"} =>
            requests[m].state \in {"inserting", "dispatching"}
    BY <1>2
  <2>3. \A j \in Instances : (Up(j)' <=> Up(j)) /\ replay'[j] = replay[j]
    BY DEF Up
  <2>4. \A j \in Instances : ~Up(j)' => replay'[j].step = "idle"
    BY <2>3 DEF ProcessesOwn
  <2>5. \A m \in 1..Len(requests) : \A j \in Instances :
          requests'[m].instance = j => Up(j)'
    BY <2>1, <2>3 DEF ProcessesOwn
  <2>6. \A m \in 1..Len(requests) :
          requests'[m].state \in {"inserting", "dispatching"} =>
            requests'[m].instance # "gone"
    BY <2>1, <2>2 DEF ProcessesOwn
  <2>7. 1..Len(requests') = 1..Len(requests)
    BY <1>2
  <2> QED
    BY <2>4, <2>5, <2>6, <2>7 DEF ProcessesOwn
<1>9. TrackedIsInFlight'
  <2> SUFFICES ASSUME NEW j \in Instances, Up(j)
               PROVE  tracked'[j] = Cardinality(RequestsIn(j, "dispatching"))'
                                      + (IF replay[j].step = "idle" THEN 0 ELSE 1)
    BY DEF TrackedIsInFlight, Up
  <2>1. tracked[j] = Cardinality(RequestsIn(j, "dispatching"))
                       + (IF replay[j].step = "idle" THEN 0 ELSE 1)
    BY DEF TrackedIsInFlight
  <2>2. \A c \in Nat : \A more, less \in {0, 1} :
          (c + more) - less = (c - less) + more
    OBVIOUS
  <2> QED
    BY <1>3, <1>4, <1>6, <2>1, <2>2
<1> QED
  BY <1>2, <1>6, <1>7, <1>8, <1>9

\* A replay that is under way makes a step, and is untracked with the last.
LEMMA ReplayTurns ==
  ASSUME SlackCore, NEW i \in Instances, replay[i].step # "idle",
         NEW step, NEW batch,
         replay' = [replay EXCEPT ![i] = [step |-> step, batch |-> batch]],
         tracked' = IF step = "idle" THEN [tracked EXCEPT ![i] = @ - 1] ELSE tracked,
         UNCHANGED <<mode, requests>>
  PROVE  SlackCore'
<1> USE DEF SlackCore
<1> DEFINE next == [step |-> step, batch |-> batch]
<1>1. next.step = step /\ next = [step |-> next.step, batch |-> next.batch]
  OBVIOUS
<1> HIDE DEF next
<1>2. replay' = [j \in Instances |-> IF j = i THEN next ELSE replay[j]]
  BY DEF ReplaysHaveSteps, next
<1>3. ReplaysHaveSteps'
  <2>1. \A j \in Instances : replay'[j] = [step |-> replay'[j].step, batch |-> replay'[j].batch]
    BY <1>1, <1>2 DEF ReplaysHaveSteps
  <2> QED
    BY <1>2, <2>1 DEF ReplaysHaveSteps
<1>4. Up(i)
  BY DEF ProcessesOwn
<1>5. \A j \in Instances : Cardinality(RequestsIn(j, "dispatching")) \in Nat
  BY SlackInFlightIsFinite
<1>6. tracked[i] = Cardinality(RequestsIn(i, "dispatching")) + 1
  BY <1>4 DEF TrackedIsInFlight
<1>7. /\ tracked' \in [Instances -> Nat]
      /\ tracked'[i] = Cardinality(RequestsIn(i, "dispatching"))
                         + (IF step = "idle" THEN 0 ELSE 1)
      /\ \A j \in Instances : j # i => tracked'[j] = tracked[j]
  <2>1. CASE step = "idle"
    BY <1>5, <1>6, <2>1
  <2>2. CASE step # "idle"
    BY <1>5, <1>6, <2>2
  <2> QED
    BY <2>1, <2>2
<1>8. ProcessesOwn'
  BY <1>2, <1>4 DEF ProcessesOwn, Up
<1>9. TrackedIsInFlight'
  <2>1. \A j \in Instances : RequestsIn(j, "dispatching")' = RequestsIn(j, "dispatching")
    BY DEF RequestsIn
  <2>2. ASSUME NEW j \in Instances, Up(j)'
        PROVE  tracked'[j] = Cardinality(RequestsIn(j, "dispatching"))
                               + (IF replay'[j].step = "idle" THEN 0 ELSE 1)
    <3>1. CASE j = i
      BY <1>1, <1>2, <1>7, <3>1
    <3>2. CASE j # i
      BY <1>2, <1>7, <2>2, <3>2 DEF TrackedIsInFlight, Up
    <3> QED
      BY <3>1, <3>2
  <2> QED
    BY <2>1, <2>2 DEF TrackedIsInFlight
<1> QED
  BY <1>3, <1>7, <1>8, <1>9

\* ReplayStep, with the record it leaves.
LEMMA StepOfReplay ==
  ASSUME ReplaysHaveSteps, NEW i \in Instances, NEW step
  PROVE  [replay EXCEPT ![i].step = step]
           = [replay EXCEPT ![i] = [step |-> step, batch |-> replay[i].batch]]
<1>1. replay[i] = [step |-> replay[i].step, batch |-> replay[i].batch]
  BY DEF ReplaysHaveSteps
<1>2. PICK s, b : s = replay[i].step /\ b = replay[i].batch
  OBVIOUS
<1>3. replay[i] = [step |-> s, batch |-> b]
  BY <1>1, <1>2
<1>4. [replay[i] EXCEPT !.step = step] = [step |-> step, batch |-> b]
  BY <1>3
<1> QED
  BY <1>2, <1>4

\* A process starts to serve, with a replay under way.
LEMMA ProcessStarts ==
  ASSUME SlackCore, NEW i \in Instances, StartProcess(i)
  PROVE  SlackCore'
<1> USE DEF SlackCore
<1> DEFINE fresh == [step |-> "dequeuing", batch |-> << >>]
<1>1. /\ ~Up(i)
      /\ mode' = [mode EXCEPT ![i] = "serving"]
      /\ tracked' = [tracked EXCEPT ![i] = 1]
      /\ replay' = [replay EXCEPT ![i] = fresh]
      /\ UNCHANGED requests
  BY DEF StartProcess, Up
<1>2. fresh.step = "dequeuing" /\ fresh = [step |-> fresh.step, batch |-> fresh.batch]
  OBVIOUS
<1> HIDE DEF fresh
<1>3. /\ mode' \in [Instances -> {"down", "serving", "draining"}]
      /\ tracked' \in [Instances -> Nat]
      /\ \A j \in Instances : mode'[j] = IF j = i THEN "serving" ELSE mode[j]
      /\ \A j \in Instances : tracked'[j] = IF j = i THEN 1 ELSE tracked[j]
  BY <1>1
<1>4. replay' = [j \in Instances |-> IF j = i THEN fresh ELSE replay[j]]
  BY <1>1 DEF ReplaysHaveSteps
<1>5. ReplaysHaveSteps'
  <2>1. \A j \in Instances : replay'[j] = [step |-> replay'[j].step, batch |-> replay'[j].batch]
    BY <1>2, <1>4 DEF ReplaysHaveSteps
  <2> QED
    BY <1>4, <2>1 DEF ReplaysHaveSteps
<1>6. ProcessesOwn'
  BY <1>1, <1>3, <1>4 DEF ProcessesOwn, Up
<1>7. TrackedIsInFlight'
  <2>1. \A j \in Instances : RequestsIn(j, "dispatching")' = RequestsIn(j, "dispatching")
    BY <1>1 DEF RequestsIn
  <2>2. Cardinality(RequestsIn(i, "dispatching")) = 0
    <3>1. RequestsIn(i, "dispatching") = {}
      BY <1>1 DEF RequestsIn, ProcessesOwn
    <3> QED
      BY <3>1, FS_EmptySet
  <2>3. ASSUME NEW j \in Instances, Up(j)'
        PROVE  tracked'[j] = Cardinality(RequestsIn(j, "dispatching"))
                               + (IF replay'[j].step = "idle" THEN 0 ELSE 1)
    <3>1. CASE j = i
      BY <1>2, <1>3, <1>4, <2>2, <3>1
    <3>2. CASE j # i
      BY <1>3, <1>4, <2>3, <3>2 DEF TrackedIsInFlight, Up
    <3> QED
      BY <3>1, <3>2
  <2> QED
    BY <2>1, <2>3 DEF TrackedIsInFlight
<1> QED
  BY <1>1, <1>3, <1>5, <1>6, <1>7

\* A process ends: its requests lose their process, and none is in flight.
LEMMA ProcessExits ==
  ASSUME SlackCore, NEW i \in Instances, NEW code, NEW lost \in {"abandoned", "killed"},
         Exit(i, code, lost)
  PROVE  SlackCore'
<1> USE DEF SlackCore
<1>1. /\ requests' \in Seq(SlackRequest)
      /\ Len(requests') = Len(requests)
      /\ \A n \in 1..Len(requests) :
           /\ requests[n].instance # i => requests'[n] = requests[n]
           /\ requests[n].instance = i =>
                /\ requests'[n].instance = "gone"
                /\ requests'[n].state \notin {"dispatching", "inserting"}
  BY EndEffect
<1>2. \A n \in 1..Len(requests) : \A j \in Instances :
        requests'[n].instance = j =>
          j # i /\ requests[n].instance = j /\ requests'[n] = requests[n]
  BY <1>1, IntakeAssumption
<1>3. /\ mode' = [mode EXCEPT ![i] = "down"]
      /\ tracked' = [tracked EXCEPT ![i] = 0]
      /\ replay' = [replay EXCEPT ![i] = NoReplay]
  BY DEF Exit
<1>4. /\ mode' \in [Instances -> {"down", "serving", "draining"}]
      /\ tracked' \in [Instances -> Nat]
      /\ \A j \in Instances : mode'[j] = IF j = i THEN "down" ELSE mode[j]
      /\ \A j \in Instances : j # i => tracked'[j] = tracked[j]
  BY <1>3
<1>5. NoReplay.step = "idle" /\ NoReplay = [step |-> NoReplay.step, batch |-> NoReplay.batch]
  BY DEF NoReplay
<1>6. replay' = [j \in Instances |-> IF j = i THEN NoReplay ELSE replay[j]]
  BY <1>3 DEF ReplaysHaveSteps
<1>7. ReplaysHaveSteps'
  <2>1. \A j \in Instances : replay'[j] = [step |-> replay'[j].step, batch |-> replay'[j].batch]
    BY <1>5, <1>6 DEF ReplaysHaveSteps
  <2> QED
    BY <1>6, <2>1 DEF ReplaysHaveSteps
<1>8. ProcessesOwn'
  <2>1. \A j \in Instances : ~Up(j)' => replay'[j].step = "idle"
    BY <1>4, <1>5, <1>6 DEF ProcessesOwn, Up
  <2>2. \A n \in 1..Len(requests) : \A j \in Instances :
          requests'[n].instance = j => Up(j)'
    <3> SUFFICES ASSUME NEW n \in 1..Len(requests), NEW j \in Instances,
                        requests'[n].instance = j
                 PROVE  Up(j)'
      OBVIOUS
    <3>1. j # i /\ requests[n].instance = j
      BY <1>2
    <3>2. Up(j)
      BY <3>1 DEF ProcessesOwn
    <3> QED
      BY <1>4, <3>1, <3>2 DEF Up
  <2>3. \A n \in 1..Len(requests) :
          requests'[n].state \in {"inserting", "dispatching"} =>
            requests'[n].instance # "gone"
    BY <1>1 DEF ProcessesOwn
  <2> QED
    BY <1>1, <2>1, <2>2, <2>3 DEF ProcessesOwn
<1>9. TrackedIsInFlight'
  <2> SUFFICES ASSUME NEW j \in Instances, Up(j)'
               PROVE  tracked'[j] = Cardinality(RequestsIn(j, "dispatching"))'
                                      + (IF replay'[j].step = "idle" THEN 0 ELSE 1)
    BY DEF TrackedIsInFlight
  <2>1. j # i /\ Up(j) /\ tracked'[j] = tracked[j] /\ replay'[j] = replay[j]
    BY <1>4, <1>6 DEF Up
  <2>2. RequestsIn(j, "dispatching")' = RequestsIn(j, "dispatching")
    BY <1>1, <1>2, <2>1 DEF RequestsIn
  <2> QED
    BY <2>1, <2>2 DEF TrackedIsInFlight
<1> QED
  BY <1>1, <1>4, <1>7, <1>8, <1>9

\* Steps that leave alone what the tracker depends on.
LEMMA CoreRests ==
  ASSUME SlackCore, UNCHANGED <<mode, tracked, requests, replay>>
  PROVE  SlackCore'
BY DEF SlackCore, ReplaysHaveSteps, ProcessesOwn, Up, TrackedIsInFlight, RequestsIn

-----------------------------------------------------------------------------
(* Every action of the two sources *)

LEMMA GitHubKeepsCore ==
  ASSUME SlackCore, GitHubStep
  PROVE  SlackCore'
<1>1. ASSUME NEW i \in Instances, NEW d \in Deliveries,
             ReceiveDuplicate(i, d) \/ ReceiveServing(i, d) \/ ReceiveDraining(i, d)
      PROVE  SlackCore'
  <2>1. PICK state \in {"duplicate", "dispatching", "inserting"} :
          /\ NewRequest(i, d, state) /\ Up(i)
          /\ tracked' = IF state = "dispatching" THEN [tracked EXCEPT ![i] = @ + 1]
                        ELSE tracked
          /\ UNCHANGED <<mode, replay>>
    BY <1>1 DEF ReceiveDuplicate, ReceiveServing, ReceiveDraining, Up
  <2> QED
    BY <2>1, RequestArrives DEF RequestStates
<1>2. ASSUME NEW n \in 1..Len(requests), InsertSucceeds(n) \/ InsertFails(n)
      PROVE  SlackCore'
  <2>1. PICK state \in {"queued", "refused"} :
          /\ SetRequest(n, state) /\ requests[n].state # "dispatching"
          /\ UNCHANGED <<mode, tracked, replay>>
    BY <1>2 DEF InsertSucceeds, InsertFails
  <2> QED
    BY <2>1, RequestMoves DEF RequestStates
<1>3. ASSUME NEW n \in 1..Len(requests), DispatchEnds(n)
      PROVE  SlackCore'
  <2>1. /\ SetRequest(n, "handled") /\ requests[n].state = "dispatching"
        /\ tracked' = [tracked EXCEPT ![requests[n].instance] = @ - 1]
        /\ UNCHANGED <<mode, replay>>
    BY <1>3 DEF DispatchEnds
  <2> QED
    BY <2>1, RequestMoves DEF RequestStates
<1> QED
  BY <1>1, <1>2, <1>3 DEF GitHubStep

LEMMA SharedKeepsCore ==
  ASSUME SlackCore, SharedStep
  PROVE  SlackCore'
<1>1. ASSUME NEW i \in Instances, ReplayStops(i) \/ MarkFailedFails(i)
      PROVE  SlackCore'
  <2>1. /\ replay[i].step # "idle" /\ UNCHANGED <<mode, requests>>
        /\ replay' = [replay EXCEPT ![i] = [step |-> "idle", batch |-> << >>]]
        /\ tracked' = [tracked EXCEPT ![i] = @ - 1]
    BY <1>1 DEF ReplayStops, MarkFailedFails, EndReplay, NoReplay
  <2> QED
    BY <2>1, ReplayTurns
<1>2. ASSUME NEW i \in Instances, ReplayDispatched(i) \/ MarkCompletedFails(i)
      PROVE  SlackCore'
  <2>1. PICK step \in {"marking", "failing"} :
          /\ replay[i].step # "idle" /\ UNCHANGED <<mode, tracked, requests>>
          /\ replay' = [replay EXCEPT ![i].step = step]
    BY <1>2 DEF ReplayDispatched, MarkCompletedFails, ReplayStep
  <2>2. replay' = [replay EXCEPT ![i] = [step |-> step, batch |-> replay[i].batch]]
    BY <2>1, StepOfReplay DEF SlackCore
  <2>3. PICK batch : replay' = [replay EXCEPT ![i] = [step |-> step, batch |-> batch]]
    BY <2>2
  <2>4. step # "idle"
    OBVIOUS
  <2> QED
    BY <2>1, <2>3, <2>4, ReplayTurns
<1>3. ASSUME NEW i \in Instances, MarkCompleted(i) \/ MarkFailed(i)
      PROVE  SlackCore'
  <2>1. PICK step \in {"dequeuing", "entry"} :
          /\ replay[i].step # "idle" /\ UNCHANGED <<mode, tracked, requests>>
          /\ replay' = [replay EXCEPT
                          ![i] = [step |-> step, batch |-> Tail(replay[i].batch)]]
    BY <1>3 DEF MarkCompleted, MarkFailed, NextEntry
  <2> QED
    BY <2>1, ReplayTurns
<1>4. ASSUME NEW i \in Instances, Dequeue(i)
      PROVE  SlackCore'
  <2>1. PICK step \in {"idle", "entry"} : \E batch :
          /\ replay[i].step # "idle" /\ UNCHANGED <<mode, requests>>
          /\ replay' = [replay EXCEPT ![i] = [step |-> step, batch |-> batch]]
          /\ tracked' = IF step = "idle" THEN [tracked EXCEPT ![i] = @ - 1] ELSE tracked
    <3> DEFINE found == {r \in 1..Len(rows) : Claimable(rows[r])}
    <3>1. CASE found = {}
      BY <1>4, <3>1 DEF Dequeue, EndReplay, NoReplay
    <3>2. CASE found # {}
      <4>1. PICK batch \in Oldest(found) :
              /\ replay' = [replay EXCEPT ![i] = [step |-> "entry", batch |-> batch]]
              /\ UNCHANGED tracked
        BY <1>4, <3>2 DEF Dequeue
      <4> QED
        BY <1>4, <4>1 DEF Dequeue
    <3> QED
      BY <3>1, <3>2
  <2> QED
    BY <2>1, ReplayTurns
<1>5. ASSUME NEW i \in Instances, StartProcess(i)
      PROVE  SlackCore'
  BY <1>5, ProcessStarts
<1>6. ASSUME NEW i \in Instances, BeginShutdown(i)
      PROVE  SlackCore'
  <2> USE DEF SlackCore
  <2>1. /\ Up(i) /\ UNCHANGED <<tracked, requests, replay>>
        /\ mode' = [mode EXCEPT ![i] = "draining"]
    BY <1>6 DEF BeginShutdown, Up
  <2>2. /\ mode' \in [Instances -> {"down", "serving", "draining"}]
        /\ \A j \in Instances : Up(j)' <=> Up(j)
    BY <2>1 DEF Up
  <2>3. ReplaysHaveSteps' /\ ProcessesOwn'
    BY <2>1, <2>2 DEF ReplaysHaveSteps, ProcessesOwn
  <2>4. TrackedIsInFlight'
    BY <2>1, <2>2 DEF TrackedIsInFlight, RequestsIn
  <2> QED
    BY <2>1, <2>2, <2>3, <2>4
<1>7. ASSUME NEW r \in 1..MaxRequests, Age(r)
      PROVE  SlackCore'
  BY <1>7, CoreRests DEF Age
<1> QED
  BY <1>1, <1>2, <1>3, <1>4, <1>5, <1>6, <1>7 DEF SharedStep

LEMMA SlackKeepsCore ==
  ASSUME SlackCore, [SlackNext]_allVars
  PROVE  SlackCore'
<1>1. CASE UNCHANGED allVars
  BY <1>1, CoreRests DEF allVars, vars
<1>2. ASSUME NEW i \in Instances, NEW m \in Messages,
             \/ SlackOutOfScope(i, m) \/ SlackDuplicate(i, m) \/ SlackServing(i, m)
             \/ SlackDraining(i, m)
      PROVE  SlackCore'
  <2>1. PICK state \in {"ignored", "duplicate", "dispatching", "inserting"} :
          /\ NewRequest(i, m, state) /\ Up(i)
          /\ tracked' = IF state = "dispatching" THEN [tracked EXCEPT ![i] = @ + 1]
                        ELSE tracked
          /\ UNCHANGED <<mode, replay>>
    BY <1>2 DEF SlackOutOfScope, SlackDuplicate, SlackServing, SlackDraining, Up
  <2> QED
    BY <2>1, RequestArrives DEF RequestStates
<1>3. ASSUME NEW i \in Instances, NEW m \in Messages, SlackWindowEnds(i, m)
      PROVE  SlackCore'
  BY <1>3, CoreRests DEF SlackWindowEnds, vars
<1>4. ASSUME NEW n \in 1..Len(requests), AssistantReturns(n) \/ AssistantThrows(n)
      PROVE  SlackCore'
  <2>1. PICK state \in {"handled", "requeueing"} :
          /\ SetRequest(n, state) /\ requests[n].state = "dispatching"
          /\ tracked' = [tracked EXCEPT ![requests[n].instance] = @ - 1]
          /\ UNCHANGED <<mode, replay>>
    BY <1>4 DEF AssistantReturns, DispatchEnds, AssistantThrows
  <2> QED
    BY <2>1, RequestMoves DEF RequestStates
<1>5. ASSUME NEW n \in 1..Len(requests), SlackInsertSucceeds(n) \/ SlackInsertFails(n)
      PROVE  SlackCore'
  <2>1. PICK state \in {"queued", "refused"} :
          /\ SetRequest(n, state) /\ requests[n].state # "dispatching"
          /\ UNCHANGED <<mode, tracked, replay>>
    BY <1>5 DEF SlackInsertSucceeds, SlackInsertFails
  <2> QED
    BY <2>1, RequestMoves DEF RequestStates
<1>6. ASSUME NEW i \in Instances, TakeEntry(i)
      PROVE  SlackCore'
  <2>1. PICK step \in {"marking", "dispatching"} :
          /\ replay[i].step # "idle" /\ UNCHANGED <<mode, tracked, requests>>
          /\ replay' = [replay EXCEPT ![i].step = step]
    BY <1>6 DEF TakeEntry, RowIsDropped, RowIsHeard, ReplayEntry, DispatchHead, ReplayStep
  <2>2. PICK batch : replay' = [replay EXCEPT ![i] = [step |-> step, batch |-> batch]]
    BY <2>1, StepOfReplay DEF SlackCore
  <2>3. step # "idle"
    OBVIOUS
  <2> QED
    BY <2>1, <2>2, <2>3, ReplayTurns
<1>7. ASSUME NEW i \in Instances, ProcessEnds(i)
      PROVE  SlackCore'
  <2>1. PICK code \in {"zero", "one", "killed"}, lost \in {"abandoned", "killed"} :
          Exit(i, code, lost)
    BY <1>7 DEF ProcessEnds, ExitDrained, ForceExit, Kill
  <2> QED
    BY <2>1, ProcessExits
<1> QED
  BY <1>1, <1>2, <1>3, <1>4, <1>5, <1>6, <1>7, GitHubKeepsCore, SharedKeepsCore DEF SlackNext

\* A call for m that the store of a process allows, and the thread it leaves.
LEMMA CallKeepsFollow ==
  ASSUME NEW i \in Instances, NEW m \in Messages, NEW store \in Stores,
         NEW threads \in [Instances -> SUBSET Messages],
         NEW calls \in [Instances -> [Stores -> [Messages -> Nat]]],
         CallsFollow(store, threads, calls),
         Opens(m) <=> Root[m] \notin threads[i]
  PROVE  CallsFollow(store, [threads EXCEPT ![i] = @ \cup {Root[m]}],
                     [calls EXCEPT ![i][store][m] = @ + 1])
<1> DEFINE threads1 == [threads EXCEPT ![i] = @ \cup {Root[m]}]
           calls1 == [calls EXCEPT ![i][store][m] = @ + 1]
<1>1. Root[m] \in Messages
  BY SlackAssumption
<1>2. \A j \in Instances : threads1[j] = IF j = i THEN threads[i] \cup {Root[m]} ELSE threads[j]
  OBVIOUS
<1>3. \A j \in Instances, n \in Messages :
        calls1[j][store][n] = calls[j][store][n] + (IF j = i /\ n = m THEN 1 ELSE 0)
  <2> SUFFICES ASSUME NEW j \in Instances, NEW n \in Messages
               PROVE  calls1[j][store][n]
                        = calls[j][store][n] + (IF j = i /\ n = m THEN 1 ELSE 0)
    OBVIOUS
  <2>1. calls[j][store][n] \in Nat
    OBVIOUS
  <2>2. CASE j = i /\ n = m
    BY <2>1, <2>2
  <2>3. CASE ~(j = i /\ n = m)
    <3>1. calls1[j][store][n] = calls[j][store][n]
      BY <2>3
    <3> QED
      BY <2>1, <2>3, <3>1
  <2> QED
    BY <2>2, <2>3
<1>4. \A j \in Instances, n \in Messages : calls[j][store][n] \in Nat
  OBVIOUS
<1> HIDE DEF threads1, calls1
<1>5. ASSUME NEW j \in Instances, NEW n \in Messages
      PROVE  /\ calls1[j][store][n] > 0 => Root[n] \in threads1[j]
             /\ Opens(n) => calls1[j][store][n] = IF n \in threads1[j] THEN 1 ELSE 0
  <2>1. CASE j = i /\ n = m
    <3>1. Root[n] \in threads1[j]
      BY <1>2, <2>1
    <3>2. Opens(n) => n \notin threads[j] /\ n \in threads1[j]
      BY <2>1, <3>1 DEF Opens
    <3>3. Opens(n) => calls[j][store][n] = 0
      BY <3>2 DEF CallsFollow
    <3>4. calls1[j][store][n] = calls[j][store][n] + 1
      BY <1>3, <2>1
    <3> QED
      BY <3>1, <3>2, <3>3, <3>4
  <2>2. CASE ~(j = i /\ n = m)
    <3>1. calls1[j][store][n] = calls[j][store][n]
      BY <1>3, <1>4, <2>2
    <3>2. Opens(n) => (n \in threads1[j] <=> n \in threads[j])
      BY <1>2, <2>2 DEF Opens
    <3>3. threads[j] \subseteq threads1[j]
      BY <1>2
    <3> QED
      BY <3>1, <3>2, <3>3 DEF CallsFollow
  <2> QED
    BY <2>1, <2>2
<1> QED
  BY <1>5 DEF CallsFollow, threads1, calls1

\* It leaves the other store alone.
LEMMA CallSparesOther ==
  ASSUME NEW i \in Instances, NEW m \in Messages,
         NEW store \in Stores, NEW other \in Stores \ {store}, NEW threads,
         NEW calls \in [Instances -> [Stores -> [Messages -> Nat]]],
         CallsFollow(other, threads, calls)
  PROVE  CallsFollow(other, threads, [calls EXCEPT ![i][store][m] = @ + 1])
<1> DEFINE calls1 == [calls EXCEPT ![i][store][m] = @ + 1]
<1>1. \A j \in Instances, n \in Messages : calls1[j][other][n] = calls[j][other][n]
  OBVIOUS
<1> HIDE DEF calls1
<1>2. CallsFollow(other, threads, calls1)
  BY <1>1 DEF CallsFollow
<1> QED
  BY <1>2 DEF calls1

LEMMA SessionsRest ==
  ASSUME SessionsInv, UNCHANGED <<sessions, replaySessions, called>>,
         recent' \in [Instances -> SUBSET Messages]
  PROVE  SessionsInv'
BY DEF SessionsInv, CallsFollow

LEMMA CallIsTyped ==
  ASSUME NEW i \in Instances, NEW m \in Messages, NEW store \in Stores,
         NEW calls \in [Instances -> [Stores -> [Messages -> Nat]]]
  PROVE  [calls EXCEPT ![i][store][m] = @ + 1]
           \in [Instances -> [Stores -> [Messages -> Nat]]]
<1>1. calls[i] \in [Stores -> [Messages -> Nat]]
  OBVIOUS
<1>2. calls[i][store] \in [Messages -> Nat]
  BY <1>1
<1>3. calls[i][store][m] + 1 \in Nat
  BY <1>2
<1>4. [calls[i][store] EXCEPT ![m] = @ + 1] \in [Messages -> Nat]
  BY <1>2, <1>3
<1>5. [calls[i] EXCEPT ![store][m] = @ + 1] \in [Stores -> [Messages -> Nat]]
  BY <1>1, <1>4
<1> QED
  BY <1>5

LEMMA SlackKeepsSessions ==
  ASSUME SessionsInv, [SlackNext]_allVars
  PROVE  SessionsInv'
<1> USE DEF SessionsInv
<1>1. CASE UNCHANGED slackVars
  BY <1>1, SessionsRest DEF slackVars
<1>2. ASSUME NEW i \in Instances, NEW m \in Messages, SlackServing(i, m)
      PROVE  SessionsInv'
  <2>1. /\ sessions' = [sessions EXCEPT ![i] = @ \cup {Root[m]}]
        /\ recent' = [recent EXCEPT ![i] = @ \cup {m}]
        /\ called' = [called EXCEPT ![i]["route"][m] = @ + 1]
        /\ replaySessions' = replaySessions
        /\ Opens(m) <=> Root[m] \notin sessions[i]
    BY <1>2 DEF SlackServing, Call
  <2>2. Root[m] \in Messages
    BY SlackAssumption
  <2>3. "route" \in Stores /\ "replay" \in Stores \ {"route"}
    BY DEF Stores
  <2>4. called' \in [Instances -> [Stores -> [Messages -> Nat]]]
    BY <2>1, <2>3, CallIsTyped
  <2>5. CallsFollow("route", sessions', called')
    BY <2>1, <2>3, CallKeepsFollow
  <2>6. CallsFollow("replay", replaySessions', called')
    BY <2>1, <2>3, CallSparesOther
  <2>7. /\ sessions' \in [Instances -> SUBSET Messages]
        /\ recent' \in [Instances -> SUBSET Messages]
    BY <2>1, <2>2
  <2> QED
    BY <2>1, <2>4, <2>5, <2>6, <2>7 DEF CallsFollow
<1>3. ASSUME NEW i \in Instances, RowIsHeard(i)
      PROVE  SessionsInv'
  <2> DEFINE m == SlackHead(i)
  <2>1. /\ m \in Messages
        /\ replaySessions' = [replaySessions EXCEPT ![i] = @ \cup {Root[m]}]
        /\ called' = [called EXCEPT ![i]["replay"][m] = @ + 1]
        /\ UNCHANGED <<sessions, recent>>
        /\ Opens(m) <=> Root[m] \notin replaySessions[i]
    BY <1>3 DEF RowIsHeard, Call
  <2> HIDE DEF m
  <2>2. Root[m] \in Messages
    BY <2>1, SlackAssumption
  <2>3. "replay" \in Stores /\ "route" \in Stores \ {"replay"}
    BY DEF Stores
  <2>4. called' \in [Instances -> [Stores -> [Messages -> Nat]]]
    BY <2>1, <2>3, CallIsTyped
  <2>5. CallsFollow("replay", replaySessions', called')
    BY <2>1, <2>3, CallKeepsFollow
  <2>6. CallsFollow("route", sessions', called')
    BY <2>1, <2>3, CallSparesOther
  <2>7. replaySessions' \in [Instances -> SUBSET Messages]
    BY <2>1, <2>2
  <2> QED
    BY <2>1, <2>4, <2>5, <2>6, <2>7 DEF CallsFollow
<1>4. ASSUME NEW i \in Instances, NEW m \in Messages, SlackWindowEnds(i, m)
      PROVE  SessionsInv'
  <2>1. recent' \in [Instances -> SUBSET Messages]
    BY <1>4 DEF SlackWindowEnds
  <2> QED
    BY <1>4, <2>1, SessionsRest DEF SlackWindowEnds
<1>5. ASSUME NEW i \in Instances, ProcessEnds(i)
      PROVE  SessionsInv'
  <2>1. /\ sessions' = [sessions EXCEPT ![i] = {}]
        /\ replaySessions' = [replaySessions EXCEPT ![i] = {}]
        /\ recent' = [recent EXCEPT ![i] = {}]
        /\ called' = [called EXCEPT ![i] = NoCalls]
    BY <1>5 DEF ProcessEnds
  <2>2. /\ NoCalls \in [Stores -> [Messages -> Nat]]
        /\ \A store \in Stores, m \in Messages : NoCalls[store][m] = 0
    BY DEF NoCalls
  <2> HIDE DEF NoCalls
  <2>3. /\ sessions' \in [Instances -> SUBSET Messages]
        /\ replaySessions' \in [Instances -> SUBSET Messages]
        /\ recent' \in [Instances -> SUBSET Messages]
        /\ called' \in [Instances -> [Stores -> [Messages -> Nat]]]
        /\ \A j \in Instances : sessions'[j] = IF j = i THEN {} ELSE sessions[j]
        /\ \A j \in Instances :
             replaySessions'[j] = IF j = i THEN {} ELSE replaySessions[j]
        /\ \A j \in Instances : called'[j] = IF j = i THEN NoCalls ELSE called[j]
    BY <2>1, <2>2
  <2>4. ASSUME NEW j \in Instances, NEW m \in Messages
        PROVE  /\ called'[j]["route"][m] > 0 => Root[m] \in sessions'[j]
               /\ Opens(m) => called'[j]["route"][m] = IF m \in sessions'[j] THEN 1 ELSE 0
               /\ called'[j]["replay"][m] > 0 => Root[m] \in replaySessions'[j]
               /\ Opens(m) => called'[j]["replay"][m]
                                = IF m \in replaySessions'[j] THEN 1 ELSE 0
    <3>1. CASE j = i
      <4>1. sessions'[j] = {} /\ replaySessions'[j] = {}
        BY <2>3, <3>1
      <4>2. called'[j]["route"][m] = 0 /\ called'[j]["replay"][m] = 0
        BY <2>2, <2>3, <3>1 DEF Stores
      <4> QED
        BY <4>1, <4>2
    <3>2. CASE j # i
      <4>1. /\ sessions'[j] = sessions[j] /\ replaySessions'[j] = replaySessions[j]
            /\ called'[j] = called[j]
        BY <2>3, <3>2
      <4> QED
        BY <4>1 DEF CallsFollow
    <3> QED
      BY <3>1, <3>2
  <2>5. /\ CallsFollow("route", sessions, called)'
        /\ CallsFollow("replay", replaySessions, called)'
    BY <2>4 DEF CallsFollow
  <2> QED
    BY <2>3, <2>4, <2>5
<1>6. ASSUME NEW i \in Instances, NEW m \in Messages,
             SlackOutOfScope(i, m) \/ SlackDuplicate(i, m) \/ SlackDraining(i, m)
      PROVE  UNCHANGED slackVars
  BY <1>6 DEF SlackOutOfScope, SlackDuplicate, SlackDraining
<1>7. ASSUME NEW n \in 1..Len(requests),
             \/ AssistantReturns(n) \/ AssistantThrows(n)
             \/ SlackInsertSucceeds(n) \/ SlackInsertFails(n)
      PROVE  UNCHANGED slackVars
  BY <1>7 DEF AssistantReturns, AssistantThrows, SlackInsertSucceeds, SlackInsertFails
<1>8. ASSUME NEW i \in Instances, TakeEntry(i), ~RowIsHeard(i)
      PROVE  UNCHANGED slackVars
  BY <1>8 DEF TakeEntry, RowIsDropped
<1> QED
  BY <1>1, <1>2, <1>3, <1>4, <1>5, <1>6, <1>7, <1>8 DEF SlackNext, allVars

LEMMA SlackStarts == SlackInit => SlackInductive
<1> SUFFICES ASSUME SlackInit PROVE SlackInductive
  OBVIOUS
<1> USE DEF SlackInit, Init
<1>1. requests = << >> /\ 1..Len(requests) = {}
  OBVIOUS
<1>2. \A i \in Instances : replay[i].step = "idle" /\ ~Up(i)
  BY DEF NoReplay, Up
<1>3. ReplaysHaveSteps
  BY DEF ReplaysHaveSteps, NoReplay
<1>4. ProcessesOwn /\ TrackedIsInFlight
  BY <1>1, <1>2 DEF ProcessesOwn, TrackedIsInFlight
<1>5. SlackCore
  BY <1>1, <1>3, <1>4 DEF SlackCore
<1>6. /\ NoCalls \in [Stores -> [Messages -> Nat]]
      /\ \A store \in Stores, m \in Messages : NoCalls[store][m] = 0
  BY DEF NoCalls
<1> HIDE DEF NoCalls
<1>7. /\ called \in [Instances -> [Stores -> [Messages -> Nat]]]
      /\ \A i \in Instances, store \in Stores, m \in Messages : called[i][store][m] = 0
  BY <1>6
<1>8. SessionsInv
  BY <1>7 DEF SessionsInv, CallsFollow, Stores
<1> QED
  BY <1>5, <1>8 DEF SlackInductive

LEMMA SlackAlways == SlackSpec => []SlackInductive
<1>1. SlackInductive /\ [SlackNext]_allVars => SlackInductive'
  BY SlackKeepsCore, SlackKeepsSessions DEF SlackInductive
<1> QED
  BY <1>1, SlackStarts, PTL DEF SlackSpec

-----------------------------------------------------------------------------
(* What holds of Slack and GitHub together *)

\* The tracker of a process counts GitHub dispatches, calls of the assistant
\* and the replay, whatever the source, and on every path out of each: a drain
\* neither ends under a call nor waits for one that is over.
THEOREM TrackerCountsCalls == SlackSpec => []SlackInv
<1>1. ASSUME SlackInductive PROVE SlackInv
  <2>1. \A n \in 1..Len(requests) :
          requests[n].state \in RequestStates \cup {"ignored", "requeueing"}
    BY <1>1, SlackRequestTypes DEF SlackInductive, SlackRequest
  <2> QED
    BY <1>1, <2>1 DEF SlackInductive, SlackCore, SessionsInv, SlackInv
<1> QED
  BY <1>1, SlackAlways, PTL

\* In the route and in the replay of a process a thread opens at most once, and
\* a follow-up is heard only in a thread that this store has opened.
THEOREM ThreadsOpenOncePerStore == SlackSpec => []ThreadsOpenOnce
<1>1. ASSUME SlackInductive PROVE ThreadsOpenOnce
  <2> SUFFICES ASSUME NEW i \in Instances, NEW store \in Stores, NEW m \in Messages
               PROVE  /\ Opens(m) => called[i][store][m] <= 1
                      /\ called[i][store][m] > 0 => called[i][store][Root[m]] > 0
    BY DEF ThreadsOpenOnce
  <2>1. PICK threads : CallsFollow(store, threads, called)
    BY <1>1 DEF SlackInductive, SessionsInv, Stores
  <2>2. Root[m] \in Messages /\ Opens(Root[m])
    BY SlackAssumption DEF Opens
  <2>3. Opens(m) => called[i][store][m] \in {0, 1}
    BY <2>1 DEF CallsFollow
  <2>4. called[i][store][m] > 0 => called[i][store][Root[m]] = 1
    BY <2>1, <2>2 DEF CallsFollow
  <2> QED
    BY <2>3, <2>4
<1> QED
  BY <1>1, SlackAlways, PTL

\* A replay drops a queued follow-up only if it has not called the assistant
\* for the first message of its thread.
THEOREM FollowUpsAreHeard == SlackSpec => QueuedFollowUpIsHeard
<1>1. ASSUME SlackInductive, NEW i \in Instances, RowIsDropped(i), ~Opens(SlackHead(i))
      PROVE  called[i]["replay"][Root[SlackHead(i)]] = 0
  <2> DEFINE first == Root[SlackHead(i)]
  <2>1. /\ SlackHead(i) \in Messages
        /\ first \notin replaySessions[i]
    BY <1>1 DEF RowIsDropped
  <2>2. first \in Messages /\ Opens(first)
    BY <2>1, SlackAssumption DEF Opens
  <2> HIDE DEF first
  <2>3. CallsFollow("replay", replaySessions, called)
    BY <1>1 DEF SlackInductive, SessionsInv
  <2>4. called[i]["replay"][first] = 0
    BY <2>1, <2>2, <2>3 DEF CallsFollow
  <2> QED
    BY <2>4 DEF first
<1>2. ASSUME SlackInductive
      PROVE  [\A i \in Instances :
                RowIsDropped(i) /\ ~Opens(SlackHead(i)) =>
                  called[i]["replay"][Root[SlackHead(i)]] = 0]_allVars
  BY <1>1, <1>2
<1> QED
  BY <1>2, SlackAlways, PTL DEF SlackSpec, QueuedFollowUpIsHeard
-----------------------------------------------------------------------------
(* What GitHub was promised still holds beside Slack, whose messages go      *)
(* through the same table and the same states but not through the cache      *)

\* The cache of a process holds whatever delivery it dispatched, none twice,
\* and nothing that was not accepted.
DeliveriesAreMarked ==
  \A i \in Instances : \A n \in 1..Len(requests) :
    Dispatched(i, n) /\ requests[n].delivery \in Deliveries =>
      requests[n].delivery \in marked[i]

CacheBesideSlack ==
  /\ marked \in [Instances -> SUBSET Deliveries]
  /\ DeliveriesAreMarked
  /\ DeliveriesDiffer
  /\ MarksAreBacked

TableTyped == rows \in Seq(Row) /\ Bounded

GitHubInv == SlackCore /\ CacheBesideSlack /\ TableTyped

\* A delivery arrives and is marked if it is dispatched, or a message does.
LEMMA CacheArrives ==
  ASSUME SlackCore, CacheBesideSlack, NEW i \in Instances,
         NEW d \in Deliveries \cup Messages,
         NEW state \in RequestStates \cup {"ignored", "requeueing"},
         NewRequest(i, d, state),
         IF state = "dispatching" /\ d \in Deliveries
         THEN d \notin marked[i] /\ marked' = [marked EXCEPT ![i] = @ \cup {d}]
         ELSE (state \in {"dispatching", "handled"} => d \in Messages) /\ marked' = marked
  PROVE  CacheBesideSlack'
<1> USE DEF CacheBesideSlack
<1>1. /\ Len(requests) \in Nat
      /\ \A n \in 1..Len(requests) : requests'[n] = requests[n]
      /\ requests'[Len(requests) + 1].delivery = d
      /\ requests'[Len(requests) + 1].instance = i
      /\ requests'[Len(requests) + 1].state = state
      /\ 1..Len(requests') = 1..Len(requests) \cup {Len(requests) + 1}
      /\ Len(requests) + 1 \notin 1..Len(requests)
  BY ArrivalEffect
<1> DEFINE new == Len(requests) + 1
           counts == state \in {"dispatching", "handled"} /\ d \in Deliveries
<1>2. counts => state = "dispatching"
  BY SlackAssumption
<1>3. /\ marked' \in [Instances -> SUBSET Deliveries]
      /\ \A j \in Instances : marked[j] \subseteq marked'[j]
      /\ \A j \in Instances : \A x \in marked'[j] :
           x \in marked[j] \/ (counts /\ x = d /\ j = i)
      /\ counts => d \in marked'[i] /\ d \notin marked[i]
  <2>1. CASE state = "dispatching" /\ d \in Deliveries
    BY <2>1
  <2>2. CASE ~(state = "dispatching" /\ d \in Deliveries)
    BY <1>2, <2>2
  <2> QED
    BY <2>1, <2>2
<1>4. \A j \in Instances : \A n \in 1..Len(requests') :
        /\ n # new => /\ n \in 1..Len(requests)
                      /\ Dispatched(j, n)' <=> Dispatched(j, n)
                      /\ requests'[n] = requests[n]
        /\ n = new /\ Dispatched(j, n)' /\ requests'[n].delivery \in Deliveries =>
             counts /\ j = i /\ requests'[n].delivery = d
  BY <1>1 DEF Dispatched
<1> HIDE DEF new, counts
<1>5. DeliveriesAreMarked'
  BY <1>3, <1>4 DEF DeliveriesAreMarked
<1>6. DeliveriesDiffer'
  <2> SUFFICES ASSUME NEW j \in Instances, NEW m \in 1..Len(requests'),
                      NEW n \in 1..Len(requests'),
                      Dispatched(j, m)', Dispatched(j, n)',
                      requests'[m].delivery = requests'[n].delivery,
                      requests'[n].delivery \in Deliveries
               PROVE  m = n
    BY DEF DeliveriesDiffer
  <2>1. CASE m # new /\ n # new
    BY <1>4, <2>1 DEF DeliveriesDiffer
  <2>2. CASE m = new /\ n # new
    BY <1>3, <1>4, <2>2 DEF DeliveriesAreMarked
  <2>3. CASE m # new /\ n = new
    BY <1>3, <1>4, <2>3 DEF DeliveriesAreMarked
  <2> QED
    BY <2>1, <2>2, <2>3
<1>7. MarksAreBacked'
  <2> SUFFICES ASSUME NEW j \in Instances, NEW x \in marked'[j]
               PROVE  \E n \in 1..Len(requests') :
                        /\ requests'[n].delivery = x /\ requests'[n].instance = j
                        /\ requests'[n].state \in {"dispatching", "handled", "queued"}
    BY DEF MarksAreBacked
  <2>1. CASE x \in marked[j]
    BY <1>1, <2>1 DEF MarksAreBacked
  <2>2. CASE counts /\ x = d /\ j = i
    BY <1>1, <2>2 DEF counts
  <2> QED
    BY <1>3, <2>1, <2>2
<1> QED
  BY <1>3, <1>5, <1>6, <1>7

\* A request of a process moves on, and a delivery that was queued is marked.
LEMMA CacheMoves ==
  ASSUME SlackCore, CacheBesideSlack, NEW n \in 1..Len(requests),
         NEW state \in {"handled", "requeueing", "queued", "refused"},
         SetRequest(n, state),
         requests[n].instance \in Instances,
         requests[n].state \in {"inserting", "dispatching", "requeueing"},
         state = "handled" => requests[n].state = "dispatching",
         requests[n].state = "dispatching" =>
           state = "handled" \/ requests[n].delivery \in Messages,
         \/ marked' = marked
         \/ /\ state = "queued" /\ requests[n].delivery \in Deliveries
            /\ marked' = [marked EXCEPT ![requests[n].instance] = @ \cup {requests[n].delivery}]
  PROVE  CacheBesideSlack'
<1> USE DEF CacheBesideSlack
<1> DEFINE i == requests[n].instance
           d == requests[n].delivery
<1>1. /\ Len(requests') = Len(requests)
      /\ \A m \in 1..Len(requests) : m # n => requests'[m] = requests[m]
      /\ requests'[n].delivery = d
      /\ requests'[n].instance = i
      /\ requests'[n].state = state
  BY MoveEffect DEF RequestStates
<1> HIDE DEF i, d
<1>2. /\ marked' \in [Instances -> SUBSET Deliveries]
      /\ \A j \in Instances : marked[j] \subseteq marked'[j]
      /\ \A j \in Instances : \A x \in marked'[j] :
           x \in marked[j] \/ (state = "queued" /\ x = d /\ j = i)
  <2>1. CASE marked' = marked
    BY <2>1
  <2>2. CASE /\ state = "queued" /\ d \in Deliveries
             /\ marked' = [marked EXCEPT ![i] = @ \cup {d}]
    BY <2>2 DEF i, d
  <2> QED
    BY <2>1, <2>2 DEF i, d
<1>3. \A j \in Instances : \A m \in 1..Len(requests) :
        /\ Dispatched(j, m)' => Dispatched(j, m)
        /\ requests'[m].delivery = requests[m].delivery
        /\ requests'[m].instance = requests[m].instance
  BY <1>1 DEF Dispatched, i, d
<1>4. DeliveriesAreMarked' /\ DeliveriesDiffer'
  BY <1>1, <1>2, <1>3 DEF DeliveriesAreMarked, DeliveriesDiffer
<1>5. MarksAreBacked'
  <2> SUFFICES ASSUME NEW j \in Instances, NEW x \in marked'[j]
               PROVE  \E m \in 1..Len(requests') :
                        /\ requests'[m].delivery = x /\ requests'[m].instance = j
                        /\ requests'[m].state \in {"dispatching", "handled", "queued"}
    BY DEF MarksAreBacked
  <2>1. CASE x \in marked[j]
    <3>1. PICK m \in 1..Len(requests) :
            /\ requests[m].delivery = x /\ requests[m].instance = j
            /\ requests[m].state \in {"dispatching", "handled", "queued"}
      BY <2>1 DEF MarksAreBacked
    <3>2. x \notin Messages
      BY <2>1, SlackAssumption
    <3>3. m = n => state = "handled"
      BY <3>1, <3>2
    <3> QED
      BY <1>1, <1>3, <3>1, <3>3
  <2>2. CASE state = "queued" /\ x = d /\ j = i
    BY <1>1, <2>2
  <2> QED
    BY <1>2, <2>1, <2>2
<1> QED
  BY <1>2, <1>4, <1>5

\* A process ends, and its cache with it.
LEMMA CacheExits ==
  ASSUME SlackCore, CacheBesideSlack, NEW i \in Instances, NEW code,
         NEW lost \in {"abandoned", "killed"}, Exit(i, code, lost)
  PROVE  CacheBesideSlack'
<1> USE DEF CacheBesideSlack
<1>1. /\ Len(requests') = Len(requests)
      /\ \A n \in 1..Len(requests) :
           /\ requests[n].instance # i => requests'[n] = requests[n]
           /\ requests[n].instance = i => requests'[n].instance = "gone"
  BY EndEffect
<1>2. /\ marked' \in [Instances -> SUBSET Deliveries]
      /\ marked'[i] = {}
      /\ \A j \in Instances : j # i => marked'[j] = marked[j]
  BY DEF Exit
<1>3. \A j \in Instances : \A n \in 1..Len(requests) :
        Dispatched(j, n)' => j # i /\ Dispatched(j, n) /\ requests'[n] = requests[n]
  BY <1>1, IntakeAssumption DEF Dispatched
<1>4. DeliveriesAreMarked' /\ DeliveriesDiffer'
  BY <1>1, <1>2, <1>3 DEF DeliveriesAreMarked, DeliveriesDiffer
<1>5. MarksAreBacked'
  BY <1>1, <1>2 DEF MarksAreBacked
<1> QED
  BY <1>2, <1>4, <1>5

\* A process starts with an empty cache and without requests.
LEMMA CacheStarts ==
  ASSUME SlackCore, CacheBesideSlack, NEW i \in Instances, StartProcess(i)
  PROVE  CacheBesideSlack'
<1> USE DEF CacheBesideSlack
<1>1. /\ ~Up(i)
      /\ marked' = [marked EXCEPT ![i] = {}]
      /\ UNCHANGED requests
  BY DEF StartProcess, Up
<1>2. /\ marked' \in [Instances -> SUBSET Deliveries]
      /\ marked'[i] = {}
      /\ \A j \in Instances : j # i => marked'[j] = marked[j]
  BY <1>1
<1>3. \A n \in 1..Len(requests) : requests[n].instance # i
  BY <1>1 DEF SlackCore, ProcessesOwn
<1>4. DeliveriesAreMarked' /\ DeliveriesDiffer'
  BY <1>1, <1>2, <1>3 DEF DeliveriesAreMarked, DeliveriesDiffer, Dispatched
<1>5. MarksAreBacked'
  BY <1>1, <1>2 DEF MarksAreBacked
<1> QED
  BY <1>2, <1>4, <1>5

LEMMA CacheRests ==
  ASSUME CacheBesideSlack, UNCHANGED <<marked, requests>>
  PROVE  CacheBesideSlack'
BY DEF CacheBesideSlack, DeliveriesAreMarked, DeliveriesDiffer, MarksAreBacked, Dispatched

LEMMA SlackKeepsCache ==
  ASSUME SlackCore, CacheBesideSlack, [SlackNext]_allVars
  PROVE  CacheBesideSlack'
<1>1. CASE UNCHANGED allVars
  BY <1>1, CacheRests DEF allVars, vars
<1>2. ASSUME NEW i \in Instances, NEW m \in Messages,
             \/ SlackOutOfScope(i, m) \/ SlackDuplicate(i, m) \/ SlackServing(i, m)
             \/ SlackDraining(i, m)
      PROVE  CacheBesideSlack'
  <2>1. PICK state \in {"ignored", "duplicate", "dispatching", "inserting"} :
          NewRequest(i, m, state) /\ marked' = marked
    BY <1>2 DEF SlackOutOfScope, SlackDuplicate, SlackServing, SlackDraining
  <2>2. m \notin Deliveries
    BY SlackAssumption
  <2> QED
    BY <2>1, <2>2, CacheArrives DEF RequestStates
<1>3. ASSUME NEW i \in Instances, NEW d \in Deliveries,
             ReceiveDuplicate(i, d) \/ ReceiveServing(i, d) \/ ReceiveDraining(i, d)
      PROVE  CacheBesideSlack'
  <2>1. PICK state \in {"duplicate", "dispatching", "inserting"} :
          /\ NewRequest(i, d, state)
          /\ IF state = "dispatching"
             THEN d \notin marked[i] /\ marked' = [marked EXCEPT ![i] = @ \cup {d}]
             ELSE marked' = marked
    BY <1>3 DEF ReceiveDuplicate, ReceiveServing, ReceiveDraining
  <2> QED
    BY <2>1, CacheArrives DEF RequestStates
<1>4. ASSUME NEW n \in 1..Len(requests), ~FromSlack(n),
             InsertSucceeds(n) \/ InsertFails(n) \/ DispatchEnds(n)
      PROVE  CacheBesideSlack'
  <2>1. requests[n] \in SlackRequest
    BY SlackRequestTypes
  <2>2. requests[n].delivery \in Deliveries
    BY <1>4, <2>1 DEF FromSlack, SlackRequest
  <2>3. requests[n].state \in {"inserting", "dispatching"}
    BY <1>4 DEF InsertSucceeds, InsertFails, DispatchEnds
  <2>4. requests[n].instance \in Instances
    BY <2>1, <2>3 DEF SlackCore, ProcessesOwn, SlackRequest
  <2>5. PICK state \in {"handled", "queued", "refused"} :
          /\ SetRequest(n, state)
          /\ state = "handled" <=> requests[n].state = "dispatching"
          /\ marked' = IF state = "queued"
                       THEN [marked EXCEPT ![requests[n].instance]
                                             = @ \cup {requests[n].delivery}]
                       ELSE marked
    BY <1>4 DEF InsertSucceeds, InsertFails, DispatchEnds
  <2> QED
    BY <2>2, <2>3, <2>4, <2>5, CacheMoves
<1>5. ASSUME NEW n \in 1..Len(requests),
             \/ AssistantReturns(n) \/ AssistantThrows(n)
             \/ SlackInsertSucceeds(n) \/ SlackInsertFails(n)
      PROVE  CacheBesideSlack'
  <2>1. /\ requests[n].delivery \in Messages
        /\ requests[n].state \in {"inserting", "dispatching", "requeueing"}
        /\ marked' = marked
    BY <1>5 DEF AssistantReturns, DispatchEnds, AssistantThrows, SlackInsertSucceeds,
         SlackInsertFails, FromSlack
  <2>2. PICK state \in {"handled", "requeueing", "queued", "refused"} :
          /\ SetRequest(n, state)
          /\ state = "handled" => requests[n].state = "dispatching"
          /\ requests[n].state = "dispatching" \/ requests[n].instance \in Instances
    BY <1>5 DEF AssistantReturns, DispatchEnds, AssistantThrows, SlackInsertSucceeds,
         SlackInsertFails
  <2>3. requests[n].instance \in Instances
    BY <2>2, SlackRequestTypes
  <2> QED
    BY <2>1, <2>2, <2>3, CacheMoves
<1>6. ASSUME NEW i \in Instances, ProcessEnds(i)
      PROVE  CacheBesideSlack'
  <2>1. PICK code \in {"zero", "one", "killed"}, lost \in {"abandoned", "killed"} :
          Exit(i, code, lost)
    BY <1>6 DEF ProcessEnds, ExitDrained, ForceExit, Kill
  <2> QED
    BY <2>1, CacheExits
<1>7. ASSUME NEW i \in Instances, NEW m \in Messages, SlackWindowEnds(i, m)
      PROVE  CacheBesideSlack'
  BY <1>7, CacheRests DEF SlackWindowEnds, vars
<1>8. ASSUME NEW i \in Instances, TakeEntry(i)
      PROVE  CacheBesideSlack'
  BY <1>8, CacheRests DEF TakeEntry, RowIsDropped, RowIsHeard, ReplayEntry
<1>9. CASE SharedStep
  <2>1. ASSUME NEW i \in Instances,
               \/ Dequeue(i) \/ ReplayStops(i) \/ ReplayDispatched(i)
               \/ MarkCompleted(i) \/ MarkCompletedFails(i)
               \/ MarkFailed(i) \/ MarkFailedFails(i) \/ BeginShutdown(i)
        PROVE  UNCHANGED <<marked, requests>>
    BY <2>1 DEF Dequeue, ReplayStops, ReplayDispatched, MarkCompleted, MarkCompletedFails,
         MarkFailed, MarkFailedFails, BeginShutdown
  <2>2. ASSUME NEW r \in 1..MaxRequests, Age(r)
        PROVE  UNCHANGED <<marked, requests>>
    BY <2>2 DEF Age
  <2> QED
    BY <1>9, <2>1, <2>2, CacheRests, CacheStarts DEF SharedStep
<1> QED
  BY <1>1, <1>2, <1>3, <1>4, <1>5, <1>6, <1>7, <1>8, <1>9 DEF SlackNext, GitHubStep

LEMMA SlackRows ==
  ASSUME [SlackNext]_allVars
  PROVE  RowsChange
<1>1. CASE UNCHANGED allVars
  BY <1>1 DEF allVars, vars, RowsChange
<1>2. ASSUME NEW i \in Instances, NEW m \in Messages,
             \/ SlackOutOfScope(i, m) \/ SlackDuplicate(i, m) \/ SlackServing(i, m)
             \/ SlackWindowEnds(i, m) \/ SlackDraining(i, m)
      PROVE  RowsChange
  BY <1>2 DEF SlackOutOfScope, SlackDuplicate, SlackServing, SlackWindowEnds,
       SlackDraining, vars, RowsChange
<1>3. ASSUME NEW n \in 1..Len(requests),
             \/ AssistantThrows(n) \/ SlackInsertSucceeds(n) \/ SlackInsertFails(n)
      PROVE  RowsChange
  BY <1>3 DEF AssistantThrows, SlackInsertSucceeds, SlackInsertFails, RowsChange
<1>4. ASSUME NEW n \in 1..Len(requests), AssistantReturns(n)
      PROVE  RowsChange
  BY <1>4, RowsOfRequest DEF AssistantReturns
<1>5. ASSUME NEW i \in Instances, TakeEntry(i)
      PROVE  RowsChange
  BY <1>5 DEF TakeEntry, RowIsDropped, RowIsHeard, ReplayEntry, RowsChange
<1>6. ASSUME NEW i \in Instances, ProcessEnds(i)
      PROVE  RowsChange
  BY <1>6, RowsOfProcess DEF ProcessEnds
<1>7. CASE GitHubStep
  BY <1>7, RowsOfArrival, RowsOfRequest DEF GitHubStep
<1>8. CASE SharedStep
  <2>1. ASSUME NEW r \in 1..MaxRequests, Age(r)
        PROVE  RowsChange
    BY <2>1 DEF RowsChange
  <2> QED
    BY <1>8, <2>1, RowsOfProcess DEF SharedStep
<1> QED
  BY <1>1, <1>2, <1>3, <1>4, <1>5, <1>6, <1>7, <1>8 DEF SlackNext

\* A row keeps its request, comes in pending, and is completed by the mark of
\* a replay whose entry it is.
LEMMA RowsLast ==
  ASSUME SlackCore, TableTyped, RowsChange
  PROVE  /\ rows' \in Seq(Row)
         /\ Len(rows) \in Nat /\ Len(rows') \in Nat /\ Len(rows) <= Len(rows')
         /\ \A r \in 1..Len(rows) :
              /\ rows'[r].request = rows[r].request
              /\ rows'[r].status = "completed" =>
                   \/ rows[r].status = "completed"
                   \/ \E i \in Instances : MarkCompleted(i) /\ r = Head(replay[i].batch)
         /\ \A r \in 1..Len(rows') : r \notin 1..Len(rows) =>
              rows'[r].request \in 1..Len(requests) /\ rows'[r].status = "pending"
<1> DEFINE Goal == /\ rows' \in Seq(Row)
                   /\ Len(rows) \in Nat /\ Len(rows') \in Nat /\ Len(rows) <= Len(rows')
                   /\ \A r \in 1..Len(rows) :
                        /\ rows'[r].request = rows[r].request
                        /\ rows'[r].status = "completed" =>
                             \/ rows[r].status = "completed"
                             \/ \E i \in Instances :
                                  MarkCompleted(i) /\ r = Head(replay[i].batch)
                   /\ \A r \in 1..Len(rows') : r \notin 1..Len(rows) =>
                        rows'[r].request \in 1..Len(requests) /\ rows'[r].status = "pending"
<1>1. /\ rows \in Seq(Row) /\ Len(rows) \in Nat
      /\ \A r \in 1..Len(rows) : rows[r] \in Row
  BY DEF TableTyped
<1>2. ASSUME UNCHANGED rows
      PROVE  Goal
  BY <1>1, <1>2
<1>3. ASSUME NEW n \in 1..Len(requests), NewRow(n)
      PROVE  Goal
  <2> DEFINE row == [request |-> n, status |-> "pending", stale |-> FALSE]
  <2>1. Len(requests) \in Nat
    BY DEF SlackCore
  <2>2. row \in Row /\ row.request = n /\ row.status = "pending"
    BY <2>1, IntakeAssumption DEF TableTyped, Bounded, Row
  <2>3. rows' = Append(rows, row)
    BY <1>3 DEF NewRow
  <2> HIDE DEF row
  <2>4. /\ rows' \in Seq(Row) /\ Len(rows') = Len(rows) + 1
        /\ \A r \in 1..Len(rows) : rows'[r] = rows[r]
        /\ rows'[Len(rows) + 1] = row
    BY <1>1, <2>2, <2>3
  <2>5. \A r \in 1..Len(rows') : r \notin 1..Len(rows) => r = Len(rows) + 1
    BY <1>1, <2>4
  <2> QED
    BY <1>1, <2>2, <2>4, <2>5
<1>4. ASSUME NEW i \in Instances, Dequeue(i), rows' # rows
      PROVE  Goal
  <2>1. rows' \in [1..Len(rows) -> Row]
    BY <1>1, <1>4, DequeueEffect
  <2>2. rows' \in Seq(Row) /\ Len(rows') = Len(rows)
    BY <1>1, <2>1
  <2> QED
    BY <1>1, <1>4, <2>2, DequeueEffect
<1>5. ASSUME NEW i \in Instances, NEW status \in {"completed", "failed"},
             SetStatus(i, status), status = "completed" => MarkCompleted(i)
      PROVE  Goal
  BY <1>1, <1>5, SetStatusEffect
<1>6. ASSUME NEW s \in 1..MaxRequests, Age(s)
      PROVE  Goal
  <2> DEFINE new == [rows[s] EXCEPT !.stale = TRUE]
  <2>1. s \in 1..Len(rows) /\ rows' = [rows EXCEPT ![s] = new]
    BY <1>6 DEF Age
  <2>2. new \in Row /\ new.request = rows[s].request /\ new.status = rows[s].status
    BY <1>1, <2>1 DEF Row
  <2> HIDE DEF new
  <2>3. /\ rows' \in Seq(Row) /\ Len(rows') = Len(rows)
        /\ \A r \in 1..Len(rows) : rows'[r] = IF r = s THEN new ELSE rows[r]
    BY <1>1, <2>1, <2>2
  <2> QED
    BY <1>1, <2>2, <2>3
<1>7. ASSUME NEW i \in Instances, MarkCompleted(i) \/ MarkFailed(i)
      PROVE  Goal
  BY <1>5, <1>7 DEF MarkCompleted, MarkFailed
<1> HIDE DEF Goal
<1>8. Goal
  BY <1>2, <1>3, <1>4, <1>6, <1>7 DEF RowsChange
<1> QED
  BY <1>8 DEF Goal

\* The ways in which a step changes the requests.
RequestsChange ==
  \/ UNCHANGED requests
  \/ \E i \in Instances, d \in Deliveries \cup Messages,
         state \in RequestStates \cup {"ignored", "requeueing"} :
       Len(requests) < MaxRequests /\ NewRequest(i, d, state)
  \/ \E n \in 1..Len(requests), state \in RequestStates \cup {"ignored", "requeueing"} :
       SetRequest(n, state)
  \/ \E i \in Instances, code \in {"zero", "one", "killed"},
         lost \in {"abandoned", "killed"} : Exit(i, code, lost)

LEMMA SlackRequests ==
  ASSUME [SlackNext]_allVars
  PROVE  RequestsChange
<1>1. CASE UNCHANGED allVars
  BY <1>1 DEF allVars, vars, RequestsChange
<1>2. ASSUME NEW i \in Instances, NEW m \in Messages,
             \/ SlackOutOfScope(i, m) \/ SlackDuplicate(i, m) \/ SlackServing(i, m)
             \/ SlackDraining(i, m)
      PROVE  RequestsChange
  <2>1. \E state \in {"ignored", "duplicate", "dispatching", "inserting"} :
          Len(requests) < MaxRequests /\ NewRequest(i, m, state)
    BY <1>2 DEF SlackOutOfScope, SlackDuplicate, SlackServing, SlackDraining
  <2> QED
    BY <2>1 DEF RequestsChange, RequestStates
<1>3. ASSUME NEW i \in Instances, NEW d \in Deliveries,
             ReceiveDuplicate(i, d) \/ ReceiveServing(i, d) \/ ReceiveDraining(i, d)
      PROVE  RequestsChange
  <2>1. \E state \in {"duplicate", "dispatching", "inserting"} :
          Len(requests) < MaxRequests /\ NewRequest(i, d, state)
    BY <1>3 DEF ReceiveDuplicate, ReceiveServing, ReceiveDraining
  <2> QED
    BY <2>1 DEF RequestsChange, RequestStates
<1>4. ASSUME NEW n \in 1..Len(requests),
             \/ InsertSucceeds(n) \/ InsertFails(n) \/ DispatchEnds(n)
             \/ AssistantReturns(n) \/ AssistantThrows(n)
             \/ SlackInsertSucceeds(n) \/ SlackInsertFails(n)
      PROVE  RequestsChange
  <2>1. \E state \in {"queued", "refused", "handled", "requeueing"} : SetRequest(n, state)
    BY <1>4 DEF InsertSucceeds, InsertFails, DispatchEnds, AssistantReturns,
         AssistantThrows, SlackInsertSucceeds, SlackInsertFails
  <2> QED
    BY <2>1 DEF RequestsChange, RequestStates
<1>5. ASSUME NEW i \in Instances, ProcessEnds(i)
      PROVE  RequestsChange
  BY <1>5 DEF ProcessEnds, ExitDrained, ForceExit, Kill, RequestsChange
<1>6. ASSUME NEW i \in Instances, NEW m \in Messages, SlackWindowEnds(i, m)
      PROVE  RequestsChange
  BY <1>6 DEF SlackWindowEnds, vars, RequestsChange
<1>7. ASSUME NEW i \in Instances, TakeEntry(i)
      PROVE  RequestsChange
  BY <1>7 DEF TakeEntry, RowIsDropped, RowIsHeard, ReplayEntry, RequestsChange
<1>8. CASE SharedStep
  <2>1. ASSUME NEW i \in Instances,
               \/ Dequeue(i) \/ ReplayStops(i) \/ ReplayDispatched(i)
               \/ MarkCompleted(i) \/ MarkCompletedFails(i)
               \/ MarkFailed(i) \/ MarkFailedFails(i)
               \/ StartProcess(i) \/ BeginShutdown(i)
        PROVE  UNCHANGED requests
    BY <2>1 DEF Dequeue, ReplayStops, ReplayDispatched, MarkCompleted, MarkCompletedFails,
         MarkFailed, MarkFailedFails, StartProcess, BeginShutdown
  <2>2. ASSUME NEW r \in 1..MaxRequests, Age(r)
        PROVE  UNCHANGED requests
    BY <2>2 DEF Age
  <2> QED
    BY <1>8, <2>1, <2>2 DEF SharedStep, RequestsChange
<1> QED
  BY <1>1, <1>2, <1>3, <1>4, <1>5, <1>6, <1>7, <1>8 DEF SlackNext, GitHubStep

\* Requests stay, with their deliveries, and are no more than the bound.
LEMMA RequestsLast ==
  ASSUME SlackCore, Bounded, RequestsChange
  PROVE  /\ Bounded'
         /\ Len(requests) \in Nat /\ Len(requests') \in Nat
         /\ Len(requests) <= Len(requests')
         /\ \A n \in 1..Len(requests) : requests'[n].delivery = requests[n].delivery
<1> DEFINE Goal == /\ Bounded'
                   /\ Len(requests) \in Nat /\ Len(requests') \in Nat
                   /\ Len(requests) <= Len(requests')
                   /\ \A n \in 1..Len(requests) :
                        requests'[n].delivery = requests[n].delivery
<1>1. Len(requests) \in Nat /\ Len(requests) <= MaxRequests
  BY DEF SlackCore, Bounded
<1>2. ASSUME UNCHANGED requests
      PROVE  Goal
  BY <1>1, <1>2 DEF Bounded
<1>3. ASSUME NEW i \in Instances, NEW d \in Deliveries \cup Messages,
             NEW state \in RequestStates \cup {"ignored", "requeueing"},
             Len(requests) < MaxRequests, NewRequest(i, d, state)
      PROVE  Goal
  <2>1. /\ Len(requests') = Len(requests) + 1
        /\ \A n \in 1..Len(requests) : requests'[n] = requests[n]
    BY <1>3, ArrivalEffect
  <2> QED
    BY <1>1, <1>3, <2>1, IntakeAssumption DEF Bounded
<1>4. ASSUME NEW n \in 1..Len(requests),
             NEW state \in RequestStates \cup {"ignored", "requeueing"},
             SetRequest(n, state)
      PROVE  Goal
  <2>1. /\ Len(requests') = Len(requests)
        /\ \A m \in 1..Len(requests) : requests'[m].delivery = requests[m].delivery
    BY <1>4, MoveEffect
  <2> QED
    BY <1>1, <2>1 DEF Bounded
<1>5. ASSUME NEW i \in Instances, NEW code \in {"zero", "one", "killed"},
             NEW lost \in {"abandoned", "killed"}, Exit(i, code, lost)
      PROVE  Goal
  <2>1. /\ Len(requests') = Len(requests)
        /\ \A m \in 1..Len(requests) : requests'[m].delivery = requests[m].delivery
    BY <1>5, EndEffect
  <2> QED
    BY <1>1, <2>1 DEF Bounded
<1> HIDE DEF Goal
<1>6. Goal
  BY <1>2, <1>3, <1>4, <1>5 DEF RequestsChange
<1> QED
  BY <1>6 DEF Goal

LEMMA GitHubAlways == SlackSpec => []GitHubInv
<1>1. SlackInit => CacheBesideSlack /\ TableTyped
  <2> SUFFICES ASSUME SlackInit PROVE CacheBesideSlack /\ TableTyped
    OBVIOUS
  <2> USE DEF SlackInit, Init
  <2>1. requests = << >> /\ rows = << >> /\ 1..Len(requests) = {} /\ Len(requests) = 0
    OBVIOUS
  <2>2. CacheBesideSlack
    BY <2>1 DEF CacheBesideSlack, DeliveriesAreMarked, DeliveriesDiffer, MarksAreBacked
  <2>3. TableTyped
    BY <2>1, IntakeAssumption DEF TableTyped, Bounded
  <2> QED
    BY <2>2, <2>3
<1>2. SlackInit => GitHubInv
  BY <1>1, SlackStarts DEF GitHubInv, SlackInductive
<1>3. GitHubInv /\ [SlackNext]_allVars => GitHubInv'
  <2> SUFFICES ASSUME GitHubInv, [SlackNext]_allVars PROVE GitHubInv'
    OBVIOUS
  <2>1. SlackCore'
    BY SlackKeepsCore DEF GitHubInv
  <2>2. CacheBesideSlack'
    BY SlackKeepsCache DEF GitHubInv
  <2>3. TableTyped'
    BY SlackRows, SlackRequests, RowsLast, RequestsLast DEF GitHubInv, TableTyped
  <2> QED
    BY <2>1, <2>2, <2>3 DEF GitHubInv
<1> QED
  BY <1>2, <1>3, PTL DEF SlackSpec

\* With Slack, too, a delivery id is in the cache only once a request with it
\* was accepted: an INSERT that fails does not swallow the redelivery.
THEOREM MarksFollowBesideSlack == SlackSpec => []MarkedWasAccepted
<1>1. GitHubInv => MarkedWasAccepted
  BY DEF GitHubInv, CacheBesideSlack, MarksAreBacked, MarkedWasAccepted, RequestsIn
<1> QED
  BY <1>1, GitHubAlways, PTL

-----------------------------------------------------------------------------
(* Rows of both sources: what a completed row stands for *)

\* Row r was dispatched to the end by some replay, or is one of Slack.
Answered(r) == r \in replayed \/ DeliveryIn(r) \in Messages

\* The replay record of an instance: its batch lies in the table, it has an
\* entry in the middle of the batch, and an entry about to be marked completed
\* was answered.
SoundReplay(record) ==
  /\ record \in ReplayOver(Len(rows))
  /\ record.step \notin {"idle", "dequeuing"} => record.batch # << >>
  /\ record.step = "marking" => Answered(Head(record.batch))

TableSound ==
  /\ \A r \in 1..Len(rows) : rows[r].request \in 1..Len(requests)
  /\ \A r \in 1..Len(rows) : rows[r].status = "completed" => Answered(r)
  /\ \A i \in Instances : SoundReplay(replay[i])

\* CompletedWasReplayed, over the rows that came from GitHub.
GitHubCompletedWasReplayed ==
  \A r \in 1..Len(rows) :
    rows[r].status = "completed" /\ DeliveryIn(r) \in Deliveries => r \in replayed

\* A row of the table stays answered, over any step of the requests, of the
\* rows and of the history of dispatches.
LEMMA AnswersLast ==
  ASSUME GitHubInv, TableSound, RequestsChange, RowsChange, replayed \subseteq replayed',
         NEW r \in 1..Len(rows), Answered(r)
  PROVE  Answered(r)'
<1>1. rows'[r].request = rows[r].request
  BY RowsLast DEF GitHubInv
<1>2. rows[r].request \in 1..Len(requests)
  BY DEF TableSound
<1>3. requests'[rows[r].request].delivery = requests[rows[r].request].delivery
  BY <1>2, RequestsLast DEF GitHubInv, TableTyped
<1> QED
  BY <1>1, <1>3 DEF Answered, DeliveryIn

\* So does what a replay holds of it, however the table grows.
LEMMA SoundReplayLasts ==
  ASSUME GitHubInv, TableSound, RequestsChange, RowsChange, replayed \subseteq replayed',
         NEW record, SoundReplay(record)
  PROVE  /\ record \in ReplayOver(Len(rows'))
         /\ record.step \notin {"idle", "dequeuing"} => record.batch # << >>
         /\ record.step = "marking" => Answered(Head(record.batch))'
<1>1. record \in ReplayOver(Len(rows)) /\ record.batch \in Seq(1..Len(rows))
  BY DEF SoundReplay, ReplayOver
<1>2. Len(rows) \in Nat /\ Len(rows') \in Nat /\ Len(rows) <= Len(rows')
  BY RowsLast DEF GitHubInv
<1>3. record.batch \in Seq(1..Len(rows'))
  BY <1>1, <1>2, BatchGrows
<1>4. record \in ReplayOver(Len(rows'))
  BY <1>1, <1>3 DEF ReplayOver
<1>5. ASSUME record.step = "marking"
      PROVE  Answered(Head(record.batch))'
  <2>1. record.batch # << >> /\ Answered(Head(record.batch))
    BY <1>5 DEF SoundReplay
  <2>2. Head(record.batch) \in 1..Len(rows)
    BY <1>1, <2>1
  <2> QED
    BY <2>1, <2>2, AnswersLast
<1> QED
  BY <1>4, <1>5 DEF SoundReplay

\* A replay keeps the table sound if every replay that it moves is sound after
\* the step: a row is completed only by the replay that answered it.
LEMMA TableMoves ==
  ASSUME GitHubInv, TableSound, RequestsChange, RowsChange, replayed \subseteq replayed',
         \A j \in Instances : replay'[j] = replay[j] \/ SoundReplay(replay[j])'
  PROVE  TableSound'
<1>1. /\ Len(rows) \in Nat /\ Len(rows') \in Nat
      /\ \A r \in 1..Len(rows) :
           /\ rows'[r].request = rows[r].request
           /\ rows'[r].status = "completed" =>
                \/ rows[r].status = "completed"
                \/ \E j \in Instances : MarkCompleted(j) /\ r = Head(replay[j].batch)
      /\ \A r \in 1..Len(rows') : r \notin 1..Len(rows) =>
           rows'[r].request \in 1..Len(requests) /\ rows'[r].status = "pending"
  BY RowsLast DEF GitHubInv
<1>2. /\ Len(requests) \in Nat /\ Len(requests') \in Nat
      /\ Len(requests) <= Len(requests')
  BY RequestsLast DEF GitHubInv, TableTyped
<1>3. ASSUME NEW r \in 1..Len(rows')
      PROVE  /\ rows'[r].request \in 1..Len(requests')
             /\ rows'[r].status = "completed" => Answered(r)'
  <2>1. rows'[r].request \in 1..Len(requests)
    BY <1>1 DEF TableSound
  <2>2. ASSUME rows'[r].status = "completed"
        PROVE  r \in 1..Len(rows) /\ Answered(r)
    <3>1. r \in 1..Len(rows)
      BY <1>1, <2>2
    <3>2. ASSUME NEW j \in Instances, MarkCompleted(j), r = Head(replay[j].batch)
          PROVE  Answered(r)
      BY <3>2 DEF MarkCompleted, TableSound, SoundReplay
    <3> QED
      BY <1>1, <2>2, <3>1, <3>2 DEF TableSound
  <2> QED
    BY <1>2, <2>1, <2>2, AnswersLast
<1>4. ASSUME NEW j \in Instances
      PROVE  SoundReplay(replay[j])'
  <2>1. CASE replay'[j] = replay[j]
    <3>1. SoundReplay(replay[j])
      BY DEF TableSound
    <3> QED
      BY <2>1, <3>1, SoundReplayLasts DEF SoundReplay
  <2> QED
    BY <2>1
<1> QED
  BY <1>3, <1>4 DEF TableSound

\* The replay of one instance becomes another.
LEMMA TableTurns ==
  ASSUME GitHubInv, TableSound, RequestsChange, RowsChange, replayed \subseteq replayed',
         NEW i \in Instances, NEW step \in {"idle", "dequeuing", "entry", "dispatching",
                                            "marking", "failing"},
         NEW batch \in Seq(1..Len(rows)),
         replay' = [replay EXCEPT ![i] = [step |-> step, batch |-> batch]],
         step \notin {"idle", "dequeuing"} => batch # << >>,
         step = "marking" => Answered(Head(batch))'
  PROVE  TableSound'
<1> DEFINE record == [step |-> step, batch |-> batch]
<1>1. replay' = [j \in Instances |-> IF j = i THEN record ELSE replay[j]]
  BY DEF GitHubInv, SlackCore, ReplaysHaveSteps
<1>2. Len(rows) \in Nat /\ Len(rows') \in Nat /\ Len(rows) <= Len(rows')
  BY RowsLast DEF GitHubInv
<1>3. batch \in Seq(1..Len(rows'))
  BY <1>2, BatchGrows
<1>4. /\ record \in ReplayOver(Len(rows'))
      /\ record.step = step /\ record.batch = batch
  BY <1>3 DEF ReplayOver
<1> HIDE DEF record
<1>5. \A j \in Instances : replay'[j] = IF j = i THEN record ELSE replay[j]
  BY <1>1
<1>6. SoundReplay(replay[i])'
  BY <1>4, <1>5 DEF SoundReplay
<1> QED
  BY <1>5, <1>6, TableMoves

\* A replay goes from its entry to the next step with it.
LEMMA EntrySteps ==
  ASSUME GitHubInv, TableSound, RequestsChange, RowsChange, replayed \subseteq replayed',
         NEW i \in Instances, NEW step \in {"dispatching", "marking", "failing"},
         replay[i].step \notin {"idle", "dequeuing"}, ReplayStep(i, step),
         step = "marking" => \E r : r = Head(replay[i].batch) /\ Answered(r)'
  PROVE  TableSound'
<1>1. PICK batch : batch = replay[i].batch
  OBVIOUS
<1>2. batch \in Seq(1..Len(rows)) /\ batch # << >>
  BY <1>1 DEF TableSound, SoundReplay, ReplayOver
<1>3. replay' = [replay EXCEPT ![i] = [step |-> step, batch |-> batch]]
  BY <1>1, StepOfReplay DEF ReplayStep, GitHubInv, SlackCore
<1>4. step = "marking" => Answered(Head(batch))'
  BY <1>1
<1> QED
  BY <1>2, <1>3, <1>4, TableTurns

\* The replay is over, or starts.
LEMMA ReplayWithoutBatch ==
  ASSUME GitHubInv, TableSound, RequestsChange, RowsChange, replayed \subseteq replayed',
         NEW i \in Instances, NEW step \in {"idle", "dequeuing"},
         replay' = [replay EXCEPT ![i] = [step |-> step, batch |-> << >>]]
  PROVE  TableSound'
<1>1. << >> \in Seq(1..Len(rows))
  OBVIOUS
<1> QED
  BY <1>1, TableTurns

LEMMA TableDequeues ==
  ASSUME GitHubInv, TableSound, RequestsChange, RowsChange, NEW i \in Instances, Dequeue(i)
  PROVE  TableSound'
<1> DEFINE found == {r \in 1..Len(rows) : Claimable(rows[r])}
<1>1. replayed \subseteq replayed'
  BY DEF Dequeue
<1>2. CASE found = {}
  <2>1. EndReplay(i)
    BY <1>2 DEF Dequeue
  <2> QED
    BY <1>1, <2>1, ReplayWithoutBatch DEF EndReplay, NoReplay
<1>3. CASE found # {}
  <2>1. PICK batch \in Oldest(found) :
          replay' = [replay EXCEPT ![i] = [step |-> "entry", batch |-> batch]]
    BY <1>3 DEF Dequeue
  <2>2. Len(rows) \in Nat
    BY DEF GitHubInv, TableTyped
  <2> HIDE DEF found
  <2>3. found \in SUBSET (1..Len(rows))
    BY DEF found
  <2>4. batch \in Seq(1..Len(rows)) /\ batch # << >>
    BY <1>3, <2>2, <2>3, OldestAreFound
  <2> QED
    BY <1>1, <2>1, <2>4, TableTurns
<1> QED
  BY <1>2, <1>3

\* The mark of an entry, on to the next one.
LEMMA TableMarks ==
  ASSUME GitHubInv, TableSound, RequestsChange, RowsChange, NEW i \in Instances,
         MarkCompleted(i) \/ MarkFailed(i)
  PROVE  TableSound'
<1>1. /\ replay[i].step \in {"marking", "failing"}
      /\ NextEntry(i) /\ UNCHANGED replayed
  BY DEF MarkCompleted, MarkFailed
<1>2. PICK left : left = Tail(replay[i].batch)
  OBVIOUS
<1>3. replay[i].batch \in Seq(1..Len(rows)) /\ replay[i].batch # << >>
  BY <1>1 DEF TableSound, SoundReplay, ReplayOver
<1>4. left \in Seq(1..Len(rows))
  <2>1. ASSUME NEW batch \in Seq(1..Len(rows)), batch # << >>
        PROVE  Tail(batch) \in Seq(1..Len(rows))
    BY <2>1
  <2> QED
    BY <1>2, <1>3, <2>1
<1>5. replay' = [replay EXCEPT ![i] =
                   [step |-> IF left = << >> THEN "dequeuing" ELSE "entry",
                    batch |-> left]]
  BY <1>1, <1>2 DEF NextEntry
<1>6. CASE left = << >>
  BY <1>1, <1>5, <1>6, ReplayWithoutBatch
<1>7. CASE left # << >>
  BY <1>1, <1>4, <1>5, <1>7, TableTurns
<1> QED
  BY <1>6, <1>7

\* The entry at hand is dropped, heard, dispatched, or its dispatch has ended.
LEMMA TableEntries ==
  ASSUME GitHubInv, TableSound, RequestsChange, RowsChange, NEW i \in Instances,
         TakeEntry(i) \/ ReplayDispatched(i) \/ MarkCompletedFails(i)
  PROVE  TableSound'
<1>1. PICK r : r = Head(replay[i].batch)
  OBVIOUS
<1>2. CASE RowIsDropped(i)
  <2>1. /\ replay[i].step = "entry" /\ ReplayStep(i, "marking")
        /\ DeliveryIn(r) \in Messages
        /\ UNCHANGED <<requests, rows, replayed>>
    BY <1>1, <1>2 DEF RowIsDropped, SlackHead
  <2>2. Answered(r)'
    BY <2>1 DEF Answered, DeliveryIn
  <2> QED
    BY <1>1, <2>1, <2>2, EntrySteps
<1>3. CASE RowIsHeard(i) \/ ReplayEntry(i)
  BY <1>3, EntrySteps DEF RowIsHeard, ReplayEntry, DispatchHead
<1>4. CASE ReplayDispatched(i)
  <2>1. /\ replay[i].step = "dispatching"
        /\ ReplayStep(i, "marking") \/ ReplayStep(i, "failing")
        /\ replayed' = replayed \cup {r}
    BY <1>1, <1>4 DEF ReplayDispatched
  <2>2. Answered(r)'
    BY <2>1 DEF Answered
  <2> QED
    BY <1>1, <2>1, <2>2, EntrySteps
<1>5. CASE MarkCompletedFails(i)
  BY <1>5, EntrySteps DEF MarkCompletedFails
<1> QED
  BY <1>2, <1>3, <1>4, <1>5 DEF TakeEntry

LEMMA TableStep ==
  ASSUME GitHubInv, TableSound, [SlackNext]_allVars
  PROVE  TableSound'
<1>1. RequestsChange /\ RowsChange
  BY SlackRequests, SlackRows
<1>2. ASSUME UNCHANGED <<replay, replayed>>
      PROVE  TableSound'
  BY <1>1, <1>2, TableMoves
<1>3. CASE UNCHANGED allVars
  BY <1>2, <1>3 DEF allVars, vars
<1>4. ASSUME NEW i \in Instances, NEW m \in Messages,
             \/ SlackOutOfScope(i, m) \/ SlackDuplicate(i, m) \/ SlackServing(i, m)
             \/ SlackWindowEnds(i, m) \/ SlackDraining(i, m)
      PROVE  TableSound'
  BY <1>2, <1>4 DEF SlackOutOfScope, SlackDuplicate, SlackServing, SlackWindowEnds,
       SlackDraining, vars
<1>5. ASSUME NEW n \in 1..Len(requests),
             \/ InsertSucceeds(n) \/ InsertFails(n) \/ DispatchEnds(n)
             \/ AssistantReturns(n) \/ AssistantThrows(n)
             \/ SlackInsertSucceeds(n) \/ SlackInsertFails(n)
      PROVE  TableSound'
  BY <1>2, <1>5 DEF InsertSucceeds, InsertFails, DispatchEnds, AssistantReturns,
       AssistantThrows, SlackInsertSucceeds, SlackInsertFails
<1>6. ASSUME NEW i \in Instances, NEW d \in Deliveries,
             ReceiveDuplicate(i, d) \/ ReceiveServing(i, d) \/ ReceiveDraining(i, d)
      PROVE  TableSound'
  BY <1>2, <1>6 DEF ReceiveDuplicate, ReceiveServing, ReceiveDraining
<1>7. ASSUME NEW i \in Instances,
             ProcessEnds(i) \/ ReplayStops(i) \/ MarkFailedFails(i)
      PROVE  TableSound'
  <2>1. /\ replay' = [replay EXCEPT ![i] = NoReplay]
        /\ UNCHANGED replayed
    BY <1>7 DEF ProcessEnds, ExitDrained, ForceExit, Kill, Exit, ReplayStops,
         MarkFailedFails, EndReplay
  <2> QED
    BY <1>1, <2>1, ReplayWithoutBatch DEF NoReplay
<1>8. ASSUME NEW i \in Instances, StartProcess(i)
      PROVE  TableSound'
  BY <1>1, <1>8, ReplayWithoutBatch DEF StartProcess
<1>9. CASE SharedStep
  <2>1. ASSUME NEW i \in Instances, BeginShutdown(i)
        PROVE  TableSound'
    BY <1>2, <2>1 DEF BeginShutdown
  <2>2. ASSUME NEW r \in 1..MaxRequests, Age(r)
        PROVE  TableSound'
    BY <1>2, <2>2 DEF Age
  <2> QED
    BY <1>1, <1>7, <1>8, <1>9, <2>1, <2>2, TableDequeues, TableMarks, TableEntries
       DEF SharedStep
<1> QED
  BY <1>1, <1>3, <1>4, <1>5, <1>6, <1>7, <1>9, TableEntries DEF SlackNext, GitHubStep

LEMMA TableAlways == SlackSpec => [](GitHubInv /\ TableSound)
<1>1. SlackInit => TableSound
  <2> SUFFICES ASSUME SlackInit PROVE TableSound
    OBVIOUS
  <2> USE DEF SlackInit, Init
  <2>1. rows = << >> /\ 1..Len(rows) = {}
    OBVIOUS
  <2>2. NoReplay \in ReplayOver(Len(rows)) /\ NoReplay.step = "idle"
    BY DEF NoReplay, ReplayOver
  <2>3. \A i \in Instances : SoundReplay(replay[i])
    BY <2>2 DEF SoundReplay
  <2> QED
    BY <2>1, <2>3 DEF TableSound
<1>2. GitHubInv /\ TableSound /\ [SlackNext]_allVars => TableSound'
  BY TableStep
<1> QED
  BY <1>1, <1>2, GitHubAlways, PTL DEF SlackSpec

\* With rows of both sources in the table, too, a row of a GitHub delivery is
\* completed only after its dispatch ended, so a crash at any point of the
\* replay leaves it to be replayed again.  (A row of Slack may be completed
\* unheard: the rails drop it.)
THEOREM CompletedAfterDispatchBesideSlack == SlackSpec => []GitHubCompletedWasReplayed
<1>1. TableSound => GitHubCompletedWasReplayed
  BY SlackAssumption DEF TableSound, GitHubCompletedWasReplayed, Answered
<1> QED
  BY <1>1, TableAlways, PTL

-----------------------------------------------------------------------------
(* Rows of both sources: what their replays have had and have begun *)

LEMMA SlackReplays ==
  ASSUME ProcessesOwn, [SlackNext]_allVars
  PROVE  ReplaysChange
<1>1. CASE UNCHANGED allVars
  BY <1>1 DEF allVars, vars, ReplaysChange
<1>2. ASSUME NEW i \in Instances, NEW m \in Messages,
             \/ SlackOutOfScope(i, m) \/ SlackDuplicate(i, m) \/ SlackServing(i, m)
             \/ SlackWindowEnds(i, m) \/ SlackDraining(i, m)
      PROVE  ReplaysChange
  BY <1>2 DEF SlackOutOfScope, SlackDuplicate, SlackServing, SlackWindowEnds,
       SlackDraining, vars, ReplaysChange
<1>3. ASSUME NEW n \in 1..Len(requests),
             \/ AssistantThrows(n) \/ SlackInsertSucceeds(n) \/ SlackInsertFails(n)
      PROVE  ReplaysChange
  BY <1>3 DEF AssistantThrows, SlackInsertSucceeds, SlackInsertFails, ReplaysChange
<1>4. ASSUME NEW n \in 1..Len(requests), AssistantReturns(n)
      PROVE  ReplaysChange
  BY <1>4, RequestsSpareReplays DEF AssistantReturns
<1>5. ASSUME NEW i \in Instances, TakeEntry(i)
      PROVE  ReplaysChange
  <2>1. CASE RowIsDropped(i)
    <3>1. ReplayGoesOn(i)
      BY <2>1 DEF RowIsDropped, ReplayGoesOn
    <3> QED
      BY <3>1 DEF ReplaysChange
  <2>2. CASE RowIsHeard(i)
    BY <2>2 DEF RowIsHeard, ReplaysChange
  <2>3. CASE ReplayEntry(i)
    BY <2>3, ReplaysOfProcess
  <2> QED
    BY <1>5, <2>1, <2>2, <2>3 DEF TakeEntry
<1>6. ASSUME NEW i \in Instances, ProcessEnds(i)
      PROVE  ReplaysChange
  BY <1>6, ReplaysOfProcess DEF ProcessEnds
<1>7. CASE GitHubStep
  BY <1>7, RequestsSpareReplays DEF GitHubStep
<1>8. CASE SharedStep
  <2>1. ASSUME NEW r \in 1..MaxRequests, Age(r)
        PROVE  ReplaysChange
    BY <2>1 DEF ReplaysChange
  <2> QED
    BY <1>8, <2>1, ReplaysOfProcess, RequestsSpareReplays DEF SharedStep
<1> QED
  BY <1>1, <1>2, <1>3, <1>4, <1>5, <1>6, <1>7, <1>8 DEF SlackNext

LEMMA HistoryBesideSlack == SlackSpec => [](GitHubInv /\ ReplaysTyped /\ HistInv)
<1>1. ASSUME GitHubInv, TableSound
      PROVE  ReplaysTyped
  <2>1. rows \in Seq(Row) /\ replay = [i \in Instances |-> replay[i]]
    BY <1>1 DEF GitHubInv, TableTyped, SlackCore, ReplaysHaveSteps
  <2> QED
    BY <1>1, <2>1 DEF TableSound, SoundReplay, ReplaysTyped
<1>2. GitHubInv /\ TableSound /\ HistInv /\ [SlackNext]_allVars => HistInv'
  BY <1>1, SlackReplays, HistoryStep DEF GitHubInv, SlackCore
<1>3. SlackInit => HistInv
  BY HistoryBegins DEF SlackInit
<1> QED
  BY <1>1, <1>2, <1>3, TableAlways, PTL DEF SlackSpec

\* With Slack over the same processes and the same table, too, the requests of
\* a process dispatch a delivery of GitHub at most once, and its replay a row
\* of either source.
THEOREM NoSecondDispatchBesideSlack == SlackSpec => []DispatchedOnceEachWay
<1>1. ASSUME GitHubInv, ReplaysTyped, HistInv
      PROVE  DispatchedOnceEachWay
  <2>1. RequestsDispatchOnce
    BY <1>1, DifferentMeansOnce DEF GitHubInv, CacheBesideSlack
  <2> QED
    BY <1>1, <2>1, EntriesAreNew DEF DispatchedOnceEachWay, RequestsDispatchOnce
<1> QED
  BY <1>1, HistoryBesideSlack, PTL

\* With rows of both sources in the table, too, two processes share a row only
\* if one of them has had it for over a minute.
THEOREM BatchesStayApartBesideSlack == SlackSpec => []BatchesAreApart
<1>1. HistInv => BatchesAreApart
  BY DEF HistInv
<1> QED
  BY <1>1, HistoryBesideSlack, PTL
=============================================================================
