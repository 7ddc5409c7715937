--------------------------- MODULE RunStateProofs ---------------------------
(***************************************************************************)
(* Proofs about the run_state table, for any heads and any finite set of   *)
(* deliveries, however their transactions interleave.                      *)
(***************************************************************************)
EXTENDS RunState, FiniteSetTheorems, TLAPS

\* Each delivery begins one transaction.
Begun == {d \in Deliveries : delivery[d].step # "idle"}
Counted == begun = Cardinality(Begun)

\* The transactions have different numbers, and everything that refers to a row
\* refers to a number that was given out.
Numbered ==
  /\ \A d \in Deliveries :
       /\ delivery[d].step = "idle" => delivery[d] = NoDelivery
       /\ delivery[d].step # "idle" => delivery[d].created \in 1..begun
       /\ delivery[d].run <= begun
       /\ \A n \in delivery[d].seen \cup delivery[d].targets : n <= begun
  /\ \A d, e \in Deliveries :
       /\ delivery[d].step # "idle"
       /\ delivery[d].created = delivery[e].created
       => d = e
  /\ \A h \in DOMAIN runs : runs[h].created <= begun

\* A delivery that began names the head it is for; the gate has not let it in
\* while its transaction is open.
Headed ==
  \A d \in Deliveries :
    /\ delivery[d].step # "idle" => delivery[d].head \in Heads
    /\ InTransaction(d) => delivery[d].via = "none"

\* Nothing refers yet to the row that an open transaction may insert.
Unused ==
  \A d \in Deliveries : InTransaction(d) =>
    /\ delivery[d].run = 0
    /\ \A h \in DOMAIN runs : runs[h].created # delivery[d].created
    /\ \A e \in Deliveries :
         /\ delivery[e].run # delivery[d].created
         /\ delivery[d].created \notin delivery[e].seen \cup delivery[e].targets

\* A young row is held by the review that inserted it.
Held ==
  \A h \in DOMAIN runs : runs[h].age = Young =>
    \E d \in Deliveries :
      /\ delivery[d].run = runs[h].created
      /\ \A e \in Deliveries : delivery[e].run = runs[h].created => e = d

\* The runs that a transaction saw pending and that still are: its UPDATE
\* names them, and then it has them.
SeenAreCaught ==
  \A d \in Deliveries, g \in DOMAIN runs :
    (runs[g].status = "pending" /\ runs[g].created \in delivery[d].seen) =>
      /\ delivery[d].step = "locking" => runs[g].created \in delivery[d].targets
      /\ delivery[d].step = "inserting" => g \in delivery[d].locked

RunStateInv ==
  TypeOK /\ Counted /\ Numbered /\ Headed /\ Unused /\ Held /\ SeenAreCaught

-----------------------------------------------------------------------------
(* What a step does to the record of its delivery *)

Open(d) == delivery[d].step # "idle"

\* The number of deliveries bounds the transactions.
LEMMA CountType == Cardinality(Deliveries) \in Nat
<1> QED
  BY DeliveriesAssumption, FS_CardinalityType

\* Only d moves, and it keeps its number and what it saw.
Moves(d) ==
  /\ delivery' \in [Deliveries -> Delivery]
  /\ \A e \in Deliveries \ {d} : delivery'[e] = delivery[e]
  /\ delivery'[d].step # "idle"
  /\ delivery'[d].head = delivery[d].head
  /\ delivery'[d].created = delivery[d].created
  /\ delivery'[d].seen = delivery[d].seen
  /\ InTransaction(d)' => delivery'[d].via = delivery[d].via

LEMMA EndTransactionMoves ==
  ASSUME TypeOK, NEW d \in Deliveries,
         NEW step \in {"skipped", "reviewing"},
         NEW via \in {"none", "claim", "conflict", "error"},
         NEW run \in 0..Cardinality(Deliveries),
         EndTransaction(d, step, via, run)
  PROVE  /\ Moves(d)
         /\ delivery'[d].step = step /\ delivery'[d].via = via
         /\ delivery'[d].run = run
         /\ delivery'[d].targets = {} /\ delivery'[d].locked = {}
<1> DEFINE r == [delivery[d] EXCEPT !.step = step, !.via = via, !.run = run,
                                    !.targets = {}, !.locked = {}]
<1>1. delivery \in [Deliveries -> Delivery] /\ delivery[d] \in Delivery
  BY DEF TypeOK
<1>2. delivery' = [delivery EXCEPT ![d] = r]
  BY <1>1 DEF EndTransaction
<1>3. /\ r \in Delivery
      /\ r.step = step /\ r.via = via /\ r.run = run
      /\ r.targets = {} /\ r.locked = {}
      /\ r.head = delivery[d].head /\ r.created = delivery[d].created
      /\ r.seen = delivery[d].seen
  BY <1>1 DEF Delivery
<1> HIDE DEF r
<1> QED
  BY <1>1, <1>2, <1>3 DEF Moves, InTransaction

\* The UPDATE takes its snapshot.
LEMMA SupersedeStartsMoves ==
  ASSUME TypeOK, NEW d \in Deliveries, SupersedeStarts(d)
  PROVE  /\ Moves(d)
         /\ delivery'[d].step = "locking"
         /\ delivery'[d].targets = {runs[g].created :
                         g \in {x \in DOMAIN runs : runs[x].status # "superseded"}}
         /\ delivery'[d].run = delivery[d].run
<1> DEFINE T == {runs[g].created :
                   g \in {x \in DOMAIN runs : runs[x].status # "superseded"}}
           r == [delivery[d] EXCEPT !.step = "locking", !.targets = T]
<1>1. delivery \in [Deliveries -> Delivery] /\ delivery[d] \in Delivery
  BY DEF TypeOK
<1>2. T \in SUBSET (1..Cardinality(Deliveries))
  BY DEF TypeOK, Row
<1>3. delivery' = [delivery EXCEPT ![d] = r]
  BY <1>1 DEF SupersedeStarts
<1> HIDE DEF T
<1>4. /\ r \in Delivery
      /\ r.step = "locking" /\ r.targets = T /\ r.run = delivery[d].run
      /\ r.head = delivery[d].head /\ r.created = delivery[d].created
      /\ r.seen = delivery[d].seen /\ r.via = delivery[d].via
  BY <1>1, <1>2 DEF Delivery
<1> HIDE DEF r
<1> QED
  BY <1>1, <1>3, <1>4 DEF Moves, T

\* It has its rows.
LEMMA SupersedeMoves ==
  ASSUME TypeOK, NEW d \in Deliveries, Supersede(d)
  PROVE  /\ Moves(d)
         /\ delivery'[d].step = "inserting"
         /\ delivery'[d].targets = delivery[d].targets
         /\ delivery'[d].run = delivery[d].run
         /\ \A g \in DOMAIN runs :
              (runs[g].created \in delivery[d].targets /\ runs[g].status # "superseded")
                => g \in delivery'[d].locked
<1> DEFINE L == {g \in {x \in DOMAIN runs : runs[x].created \in delivery[d].targets} :
                   runs[g].status # "superseded"}
           r == [delivery[d] EXCEPT !.step = "inserting", !.locked = L]
<1>1. delivery \in [Deliveries -> Delivery] /\ delivery[d] \in Delivery
  BY DEF TypeOK
<1>2. L \in SUBSET Heads
  BY DEF TypeOK
<1>3. delivery' = [delivery EXCEPT ![d] = r]
  BY <1>1 DEF Supersede
<1>4. \A g \in DOMAIN runs :
        (runs[g].created \in delivery[d].targets /\ runs[g].status # "superseded")
          => g \in L
  OBVIOUS
<1> HIDE DEF L
<1>5. /\ r \in Delivery
      /\ r.step = "inserting" /\ r.targets = delivery[d].targets
      /\ r.run = delivery[d].run /\ r.locked = L
      /\ r.head = delivery[d].head /\ r.created = delivery[d].created
      /\ r.seen = delivery[d].seen /\ r.via = delivery[d].via
  BY <1>1, <1>2 DEF Delivery
<1> HIDE DEF r
<1> QED
  BY <1>1, <1>3, <1>4, <1>5 DEF Moves

\* The review asks for its predecessor.
LEMMA LookUpLastMoves ==
  ASSUME TypeOK, NEW d \in Deliveries, LookUpLast(d)
  PROVE  /\ Moves(d)
         /\ delivery'[d].step = "working"
         /\ delivery'[d].targets = delivery[d].targets
         /\ delivery'[d].run = delivery[d].run
         /\ delivery'[d].via = delivery[d].via
<1>1. delivery \in [Deliveries -> Delivery] /\ delivery[d] \in Delivery
  BY DEF TypeOK
<1>2. LastReviewed \cup {"failed"} \subseteq Heads \cup {"unasked", "none", "failed"}
  BY DEF LastReviewed, CompletedHeads, TypeOK
<1>3. PICK last \in LastReviewed \cup {"failed"} :
        delivery' = [delivery EXCEPT ![d].step = "working", ![d].last = last]
  BY DEF LookUpLast
<1> DEFINE r == [delivery[d] EXCEPT !.step = "working", !.last = last]
<1>4. delivery' = [delivery EXCEPT ![d] = r]
  BY <1>1, <1>3
<1>5. /\ r \in Delivery
      /\ r.step = "working" /\ r.targets = delivery[d].targets
      /\ r.run = delivery[d].run /\ r.via = delivery[d].via
      /\ r.head = delivery[d].head /\ r.created = delivery[d].created
      /\ r.seen = delivery[d].seen
  <2>1. last \in Heads \cup {"unasked", "none", "failed"}
    BY <1>2, <1>3
  <2> QED
    BY <1>1, <2>1 DEF Delivery
<1> HIDE DEF r
<1> QED
  BY <1>1, <1>4, <1>5 DEF Moves, InTransaction

\* The review is over, completed or not.
LEMMA OverMoves ==
  ASSUME TypeOK, NEW d \in Deliveries, CompleteRun(d) \/ Stops(d)
  PROVE  /\ Moves(d)
         /\ delivery'[d].step = "over"
         /\ delivery'[d].targets \subseteq delivery[d].targets
         /\ delivery'[d].run = delivery[d].run
         /\ delivery'[d].via = delivery[d].via
<1>1. delivery \in [Deliveries -> Delivery] /\ delivery[d] \in Delivery
  BY DEF TypeOK
<1>2. PICK r \in {[delivery[d] EXCEPT !.step = "over"],
                  [delivery[d] EXCEPT !.step = "over", !.targets = {}, !.locked = {}]} :
        delivery' = [delivery EXCEPT ![d] = r]
  BY <1>1 DEF CompleteRun, Stops
<1>3. /\ r \in Delivery
      /\ r.step = "over" /\ r.targets \subseteq delivery[d].targets
      /\ r.run = delivery[d].run /\ r.via = delivery[d].via
      /\ r.head = delivery[d].head /\ r.created = delivery[d].created
      /\ r.seen = delivery[d].seen
  <2>1. CASE r = [delivery[d] EXCEPT !.step = "over"]
    BY <1>1, <2>1 DEF Delivery
  <2>2. CASE r = [delivery[d] EXCEPT !.step = "over", !.targets = {}, !.locked = {}]
    BY <1>1, <2>2 DEF Delivery
  <2> QED
    BY <1>2, <2>1, <2>2
<1> QED
  BY <1>1, <1>2, <1>3 DEF Moves, InTransaction

-----------------------------------------------------------------------------
(* What such a step preserves *)

RowNumbers == {runs[h].created : h \in DOMAIN runs}

LEMMA MoveCounted ==
  ASSUME Counted, NEW d \in Deliveries, Open(d), Moves(d), begun' = begun
  PROVE  Counted'
<1>1. Begun' = Begun
  BY DEF Begun, Moves, Open
<1> QED
  BY <1>1 DEF Counted

LEMMA MoveHeaded ==
  ASSUME Headed, NEW d \in Deliveries, Open(d), Moves(d),
         InTransaction(d)' => InTransaction(d)
  PROVE  Headed'
<1>1. ASSUME NEW e \in Deliveries
      PROVE  /\ delivery'[e].step # "idle" => delivery'[e].head \in Heads
             /\ InTransaction(e)' => delivery'[e].via = "none"
  <2>1. CASE e = d
    BY <2>1 DEF Headed, Moves, Open
  <2>2. CASE e # d
    BY <2>2 DEF Headed, Moves, InTransaction
  <2> QED
    BY <2>1, <2>2
<1> QED
  BY <1>1 DEF Headed

LEMMA MoveNumbered ==
  ASSUME TypeOK, Numbered, NEW d \in Deliveries, Open(d), Moves(d), begun' = begun,
         \A n \in delivery'[d].targets : n <= begun,
         delivery'[d].run <= begun,
         \A h \in DOMAIN runs' : runs'[h].created <= begun
  PROVE  Numbered'
<1>2. ASSUME NEW e \in Deliveries
      PROVE  /\ delivery'[e].step = "idle" => delivery'[e] = NoDelivery
             /\ delivery'[e].step # "idle" => delivery'[e].created \in 1..begun
             /\ delivery'[e].run <= begun
             /\ \A n \in delivery'[e].seen \cup delivery'[e].targets : n <= begun
  <2>1. CASE e = d
    BY <2>1 DEF Moves, Open, Numbered
  <2>2. CASE e # d
    BY <2>2 DEF Moves, Numbered
  <2> QED
    BY <2>1, <2>2
<1>3. \A e \in Deliveries : /\ delivery'[e].created = delivery[e].created
                            /\ delivery'[e].step # "idle" => delivery[e].step # "idle"
  BY DEF Moves, Open
<1>4. ASSUME NEW e \in Deliveries, NEW f \in Deliveries,
             delivery'[e].step # "idle", delivery'[e].created = delivery'[f].created
      PROVE  e = f
  <2>1. /\ delivery[e].step # "idle"
        /\ delivery[e].created = delivery[f].created
    BY <1>3, <1>4
  <2> QED
    BY <2>1 DEF Numbered
<1>6. \A h \in DOMAIN runs' : runs'[h].created <= begun'
  OBVIOUS
<1> QED
  BY <1>2, <1>4, <1>6 DEF Numbered

LEMMA MoveUnused ==
  ASSUME TypeOK, Numbered, Unused, NEW d \in Deliveries, Open(d), Moves(d),
         InTransaction(d)' => /\ InTransaction(d)
                              /\ delivery'[d].run = 0
                              /\ RowNumbers' \subseteq RowNumbers,
         RowNumbers' \subseteq RowNumbers \cup {delivery[d].created},
         delivery'[d].run \in {0, delivery[d].run, delivery[d].created} \cup RowNumbers,
         delivery'[d].targets \subseteq delivery[d].targets \cup RowNumbers
  PROVE  Unused'
<1> SUFFICES ASSUME NEW e \in Deliveries, InTransaction(e)'
             PROVE  /\ delivery'[e].run = 0
                    /\ delivery'[e].created \notin RowNumbers'
                    /\ \A f \in Deliveries :
                         /\ delivery'[f].run # delivery'[e].created
                         /\ delivery'[e].created
                              \notin delivery'[f].seen \cup delivery'[f].targets
  BY DEF Unused, RowNumbers
<1>1. InTransaction(e) /\ delivery'[e].created = delivery[e].created
  BY DEF Moves, InTransaction
<1>2. /\ delivery[e].run = 0
      /\ delivery[e].created \notin RowNumbers
      /\ \A f \in Deliveries :
           /\ delivery[f].run # delivery[e].created
           /\ delivery[e].created \notin delivery[f].seen \cup delivery[f].targets
  BY <1>1 DEF Unused, RowNumbers
<1>3. delivery[e].created # 0 /\ (e # d => delivery[e].created # delivery[d].created)
  BY <1>1 DEF Numbered, InTransaction
<1>4. delivery'[e].run = 0
  BY <1>2 DEF Moves
<1>5. delivery[e].created \notin RowNumbers'
  BY <1>2, <1>3
<1>6. ASSUME NEW f \in Deliveries
      PROVE  /\ delivery'[f].run # delivery[e].created
             /\ delivery[e].created \notin delivery'[f].seen \cup delivery'[f].targets
  <2>1. CASE f # d
    BY <1>2, <2>1 DEF Moves
  <2>2. CASE f = d
    <3>1. delivery'[d].run # delivery[e].created
      BY <1>2, <1>3
    <3>2. delivery[e].created \notin delivery'[d].seen \cup delivery'[d].targets
      BY <1>2 DEF Moves
    <3> QED
      BY <2>2, <3>1, <3>2
  <2> QED
    BY <2>1, <2>2
<1> QED
  BY <1>1, <1>4, <1>5, <1>6

LEMMA MoveHeld ==
  ASSUME TypeOK, Unused, Held, NEW d \in Deliveries, Moves(d),
         \A h \in DOMAIN runs' : runs'[h].age = Young =>
           /\ h \in DOMAIN runs
           /\ runs[h].age = Young
           /\ runs'[h].created = runs[h].created,
         \/ delivery'[d].run = delivery[d].run
         \/ /\ InTransaction(d)
            /\ \A h \in DOMAIN runs :
                 runs[h].age = Young => runs[h].created # delivery'[d].run
  PROVE  Held'
<1> SUFFICES ASSUME NEW h \in DOMAIN runs', runs'[h].age = Young
             PROVE  \E e \in Deliveries :
                      /\ delivery'[e].run = runs'[h].created
                      /\ \A f \in Deliveries :
                           delivery'[f].run = runs'[h].created => f = e
  BY DEF Held
<1>1. /\ h \in DOMAIN runs /\ runs[h].age = Young
      /\ runs'[h].created = runs[h].created
  OBVIOUS
<1>2. PICK e \in Deliveries :
        /\ delivery[e].run = runs[h].created
        /\ \A f \in Deliveries : delivery[f].run = runs[h].created => f = e
  BY <1>1 DEF Held
<1>3. CASE delivery'[d].run = delivery[d].run
  BY <1>1, <1>2, <1>3 DEF Moves
<1>4. CASE delivery'[d].run # delivery[d].run
  <2>1. /\ InTransaction(d)
        /\ runs[h].created # delivery'[d].run
    BY <1>1, <1>4
  <2>2. delivery[d].run = 0 /\ runs[h].created # 0
    BY <1>1, <2>1 DEF Unused, TypeOK, Row
  <2>3. e # d
    BY <1>2, <2>2
  <2> QED
    BY <1>1, <1>2, <2>1, <2>3 DEF Moves
<1> QED
  BY <1>3, <1>4

\* A pending row that a transaction may have seen was pending before the step.
StillPending ==
  \A g \in DOMAIN runs' : runs'[g].status = "pending" =>
    \/ /\ g \in DOMAIN runs
       /\ runs[g].status = "pending"
       /\ runs'[g].created = runs[g].created
    \/ \A e \in Deliveries : runs'[g].created \notin delivery[e].seen

LEMMA MoveSeen ==
  ASSUME SeenAreCaught, NEW d \in Deliveries, Moves(d), StillPending,
         \A g \in DOMAIN runs :
           (runs[g].status = "pending" /\ runs[g].created \in delivery[d].seen) =>
             /\ delivery'[d].step = "locking" =>
                  runs[g].created \in delivery'[d].targets
             /\ delivery'[d].step = "inserting" => g \in delivery'[d].locked
  PROVE  SeenAreCaught'
<1> SUFFICES ASSUME NEW e \in Deliveries, NEW g \in DOMAIN runs',
                    runs'[g].status = "pending",
                    runs'[g].created \in delivery'[e].seen
             PROVE  /\ delivery'[e].step = "locking" =>
                         runs'[g].created \in delivery'[e].targets
                    /\ delivery'[e].step = "inserting" => g \in delivery'[e].locked
  BY DEF SeenAreCaught
<1>1. delivery'[e].seen = delivery[e].seen
  BY DEF Moves
<1>2. /\ g \in DOMAIN runs /\ runs[g].status = "pending"
      /\ runs'[g].created = runs[g].created
  BY <1>1 DEF StillPending
<1>3. CASE e = d
  BY <1>1, <1>2, <1>3
<1>4. CASE e # d
  BY <1>1, <1>2, <1>4 DEF SeenAreCaught, Moves
<1> QED
  BY <1>3, <1>4

-----------------------------------------------------------------------------
(* The statements of a claim *)

\* A transaction begins: its number is new.
LEMMA BeginInv ==
  ASSUME RunStateInv, NEW d \in Deliveries, NEW h \in Heads, Begin(d, h)
  PROVE  RunStateInv'
<1> DEFINE S == {runs[g].created : g \in {x \in DOMAIN runs : runs[x].status = "pending"}}
           step == IF h \notin DOMAIN runs THEN "superseding"
                   ELSE IF runs[h].status = "pending" THEN "reclaiming"
                   ELSE "skipped"
           r == [NoDelivery EXCEPT !.head = h, !.created = begun + 1, !.seen = S,
                                   !.step = step]
<1>1. /\ delivery \in [Deliveries -> Delivery] /\ delivery[d].step = "idle"
      /\ begun' = begun + 1 /\ runs' = runs /\ reviewed' = reviewed
      /\ delivery' = [delivery EXCEPT ![d] = r]
  BY DEF RunStateInv, TypeOK, Begin
<1>2. Begun' = Begun \cup {d} /\ d \notin Begun
  <2>1. r.step # "idle"
    BY DEF NoDelivery
  <2> HIDE DEF r
  <2> QED
    BY <1>1, <2>1 DEF Begun
<1>3. /\ Cardinality(Begun \cup {d}) = begun + 1
      /\ begun + 1 \in 1..Cardinality(Deliveries)
  <2>1. IsFiniteSet(Begun) /\ Begun \cup {d} \subseteq Deliveries
    BY DeliveriesAssumption, FS_Subset DEF Begun
  <2>2. Cardinality(Begun) = begun /\ begun \in Nat
    BY <2>1, FS_CardinalityType DEF RunStateInv, Counted
  <2>3. Cardinality(Begun \cup {d}) = begun + 1
    BY <1>2, <2>1, <2>2, FS_AddElement
  <2>4. Cardinality(Begun \cup {d}) <= Cardinality(Deliveries)
    BY <2>1, DeliveriesAssumption, FS_Subset
  <2> QED
    BY <2>2, <2>3, <2>4, CountType
<1>4. /\ S \in SUBSET (1..Cardinality(Deliveries))
      /\ \A n \in S : n \in Nat /\ n <= begun
  BY CountType DEF RunStateInv, TypeOK, Row, Numbered
<1>6. step \in {"superseding", "reclaiming", "skipped"}
  OBVIOUS
<1> HIDE DEF S, step
<1>5. /\ r \in Delivery /\ r.step = step /\ r.created = begun + 1 /\ r.seen = S
      /\ r.head = h /\ r.via = "none" /\ r.run = 0 /\ r.targets = {} /\ r.locked = {}
  <2>1. begun + 1 \in 0..Cardinality(Deliveries) /\ 0 \in 0..Cardinality(Deliveries)
    BY <1>3, CountType
  <2> QED
    BY <1>4, <1>6, <2>1 DEF Delivery, NoDelivery
<1> HIDE DEF r
<1>7. /\ delivery' \in [Deliveries -> Delivery] /\ delivery'[d] = r
      /\ \A e \in Deliveries \ {d} : delivery'[e] = delivery[e]
  BY <1>1, <1>5
<1>8. delivery[d].run = 0 /\ delivery[d].seen = {} /\ delivery[d].targets = {}
  BY <1>1 DEF RunStateInv, Numbered, NoDelivery
<1>9. begun \in Nat /\ \A x \in DOMAIN runs : runs[x].created \in Nat
  BY CountType DEF RunStateInv, TypeOK, Row
<1>10. \A e \in Deliveries : /\ delivery[e].run \in Nat /\ delivery[e].run <= begun
                             /\ delivery[e].created \in Nat
                             /\ delivery[e].seen \cup delivery[e].targets \subseteq Nat
  BY CountType DEF RunStateInv, TypeOK, Delivery, Numbered
<1>11. TypeOK'
  BY <1>1, <1>3, <1>7 DEF RunStateInv, TypeOK
<1>12. Numbered'
  <2>2. ASSUME NEW e \in Deliveries
        PROVE  /\ delivery'[e].step = "idle" => delivery'[e] = NoDelivery
               /\ delivery'[e].step # "idle" => delivery'[e].created \in 1..begun'
               /\ delivery'[e].run <= begun'
               /\ \A n \in delivery'[e].seen \cup delivery'[e].targets : n <= begun'
    <3>1. CASE e = d
      <4>1. begun' = begun + 1 /\ begun + 1 \in 1..(begun + 1) /\ 0 <= begun + 1
        BY <1>1, <1>9
      <4>2. \A n \in S : n <= begun + 1
        BY <1>4, <1>9
      <4> QED
        BY <1>5, <1>6, <1>7, <3>1, <4>1, <4>2
    <3>2. CASE e # d
      BY <1>1, <1>7, <1>9, <1>10, <3>2 DEF RunStateInv, Numbered
    <3> QED
      BY <3>1, <3>2
  <2>3. ASSUME NEW e \in Deliveries, NEW f \in Deliveries,
               delivery'[e].step # "idle", delivery'[e].created = delivery'[f].created
        PROVE  e = f
    <3>1. \A x \in Deliveries \ {d} : delivery[x].created # begun + 1
      <4>1. \A x \in Deliveries : delivery[x].step = "idle" => delivery[x].created = 0
        BY DEF RunStateInv, Numbered, NoDelivery
      <4> QED
        BY <1>9, <4>1 DEF RunStateInv, Numbered
    <3> QED
      BY <1>5, <1>7, <2>3, <3>1 DEF RunStateInv, Numbered
  <2>4. \A x \in DOMAIN runs' : runs'[x].created <= begun'
    BY <1>1, <1>9 DEF RunStateInv, Numbered
  <2> QED
    BY <2>2, <2>3, <2>4 DEF Numbered
<1>16. Counted'
  BY <1>1, <1>2, <1>3 DEF Counted
<1>13. Unused'
  <2> SUFFICES ASSUME NEW e \in Deliveries, InTransaction(e)'
               PROVE  /\ delivery'[e].run = 0
                      /\ \A x \in DOMAIN runs' : runs'[x].created # delivery'[e].created
                      /\ \A f \in Deliveries :
                           /\ delivery'[f].run # delivery'[e].created
                           /\ delivery'[e].created
                                \notin delivery'[f].seen \cup delivery'[f].targets
    BY DEF Unused
  <2>1. CASE e = d
    <3>1. \A f \in Deliveries :
            /\ delivery'[f].run \in Nat /\ delivery'[f].run <= begun
            /\ \A n \in delivery'[f].seen \cup delivery'[f].targets : n \in Nat /\ n <= begun
      <4> TAKE f \in Deliveries
      <4>1. CASE f = d
        <5>1. 0 \in Nat /\ 0 <= begun
          BY <1>9
        <5> QED
          BY <1>4, <1>5, <1>7, <4>1, <5>1
      <4>2. CASE f # d
        BY <1>7, <1>10, <4>2 DEF RunStateInv, Numbered
      <4> QED
        BY <4>1, <4>2
    <3>2. delivery'[e].created = begun + 1 /\ delivery'[e].run = 0
      BY <1>5, <1>7, <2>1
    <3> QED
      BY <1>1, <1>9, <3>1, <3>2 DEF RunStateInv, Numbered
  <2>2. CASE e # d
    <3>1. InTransaction(e) /\ delivery'[e] = delivery[e]
      BY <1>7, <2>2 DEF InTransaction
    <3>2. delivery[e].created # 0
      BY <3>1 DEF RunStateInv, Numbered, InTransaction
    <3>3. delivery[e].created \notin S
      BY <3>1 DEF RunStateInv, Unused, S
    <3>4. ASSUME NEW f \in Deliveries
          PROVE  /\ delivery'[f].run # delivery[e].created
                 /\ delivery[e].created \notin delivery'[f].seen \cup delivery'[f].targets
      <4>1. CASE f = d
        BY <1>5, <1>7, <3>2, <3>3, <4>1
      <4>2. CASE f # d
        BY <1>7, <3>1, <4>2 DEF RunStateInv, Unused
      <4> QED
        BY <4>1, <4>2
    <3> QED
      BY <1>1, <3>1, <3>4 DEF RunStateInv, Unused
  <2> QED
    BY <2>1, <2>2
<1>14. Held'
  <2>1. \A e \in Deliveries : delivery'[e].run = delivery[e].run
    BY <1>5, <1>7, <1>8
  <2> QED
    BY <1>1, <2>1 DEF RunStateInv, Held
<1>15. SeenAreCaught'
  <2> SUFFICES ASSUME NEW e \in Deliveries, NEW g \in DOMAIN runs',
                      runs'[g].status = "pending",
                      runs'[g].created \in delivery'[e].seen
               PROVE  /\ delivery'[e].step = "locking" =>
                           runs'[g].created \in delivery'[e].targets
                      /\ delivery'[e].step = "inserting" => g \in delivery'[e].locked
    BY DEF SeenAreCaught
  <2>1. CASE e = d
    BY <1>5, <1>6, <1>7, <2>1
  <2>2. CASE e # d
    BY <1>1, <1>7, <2>2 DEF RunStateInv, SeenAreCaught
  <2> QED
    BY <2>1, <2>2
<1>17. Headed'
  BY <1>5, <1>7 DEF RunStateInv, Headed, InTransaction
<1> QED
  BY <1>11, <1>12, <1>13, <1>14, <1>15, <1>16, <1>17 DEF RunStateInv

\* A step of an open delivery that leaves the rows alone.
LEMMA RowsStayInv ==
  ASSUME RunStateInv, NEW d \in Deliveries, Open(d), Moves(d),
         UNCHANGED <<runs, begun, reviewed>>,
         InTransaction(d)' => InTransaction(d),
         \/ delivery'[d].run = delivery[d].run
         \/ InTransaction(d) /\ delivery'[d].run = 0,
         delivery'[d].targets \subseteq delivery[d].targets \cup RowNumbers,
         \A g \in DOMAIN runs :
           (runs[g].status = "pending" /\ runs[g].created \in delivery[d].seen) =>
             /\ delivery'[d].step = "locking" =>
                  runs[g].created \in delivery'[d].targets
             /\ delivery'[d].step = "inserting" => g \in delivery'[d].locked
  PROVE  RunStateInv'
<1>1. runs' = runs /\ begun' = begun /\ reviewed' = reviewed /\ begun \in Nat
  BY CountType DEF RunStateInv, TypeOK
<1>2. \A h \in DOMAIN runs : runs[h].created <= begun /\ runs[h].created # 0
  BY DEF RunStateInv, Numbered, TypeOK, Row
<1>3. TypeOK'
  BY <1>1 DEF RunStateInv, TypeOK, Moves
<1>4. Counted'
  BY <1>1, MoveCounted DEF RunStateInv
<1>5. \A n \in delivery'[d].targets : n <= begun
  BY <1>2 DEF RunStateInv, Numbered, RowNumbers
<1>6. delivery'[d].run <= begun
  BY <1>1 DEF RunStateInv, Numbered
<1>7. Numbered'
  BY <1>1, <1>2, <1>5, <1>6, MoveNumbered DEF RunStateInv
<1>8. RowNumbers' = RowNumbers
  BY <1>1 DEF RowNumbers
<1>9. InTransaction(d)' => delivery'[d].run = 0
  BY DEF RunStateInv, Unused
<1>10. Unused'
  BY <1>8, <1>9, MoveUnused DEF RunStateInv
<1>11. Held'
  BY <1>1, <1>2, MoveHeld DEF RunStateInv
<1>12. StillPending
  BY <1>1 DEF StillPending
<1>13. SeenAreCaught'
  BY <1>12, MoveSeen DEF RunStateInv
<1>14. Headed'
  BY MoveHeaded DEF RunStateInv
<1> QED
  BY <1>3, <1>4, <1>7, <1>10, <1>11, <1>13, <1>14 DEF RunStateInv

\* The statements and calls that write no row.
LEMMA ReadersInv ==
  ASSUME RunStateInv, NEW d \in Deliveries,
         \/ SupersedeStarts(d) \/ Supersede(d)
         \/ InsertConflicts(d) \/ FailsOpen(d)
         \/ LookUpLast(d) \/ Stops(d)
  PROVE  RunStateInv'
<1> USE DEF Open, InTransaction
<1>1. TypeOK /\ SeenAreCaught
  BY DEF RunStateInv
<1>2. CASE SupersedeStarts(d)
  <2>1. /\ Open(d) /\ UNCHANGED <<runs, begun, reviewed>>
        /\ delivery[d].step = "superseding"
    BY <1>2 DEF SupersedeStarts
  <2>2. /\ Moves(d) /\ delivery'[d].step = "locking"
        /\ delivery'[d].run = delivery[d].run
        /\ delivery'[d].targets = {runs[g].created :
                         g \in {x \in DOMAIN runs : runs[x].status # "superseded"}}
    BY <1>1, <1>2, SupersedeStartsMoves
  <2>3. /\ delivery'[d].targets \subseteq RowNumbers
        /\ \A g \in DOMAIN runs :
             runs[g].status = "pending" => runs[g].created \in delivery'[d].targets
    BY <2>2 DEF RowNumbers
  <2> QED
    BY <2>1, <2>2, <2>3, RowsStayInv
<1>3. CASE Supersede(d)
  <2>1. /\ Open(d) /\ UNCHANGED <<runs, begun, reviewed>>
        /\ delivery[d].step = "locking"
    BY <1>3 DEF Supersede
  <2>2. /\ Moves(d) /\ delivery'[d].step = "inserting"
        /\ delivery'[d].run = delivery[d].run
        /\ delivery'[d].targets = delivery[d].targets
        /\ \A g \in DOMAIN runs :
             (runs[g].created \in delivery[d].targets /\ runs[g].status # "superseded")
               => g \in delivery'[d].locked
    BY <1>1, <1>3, SupersedeMoves
  <2>3. \A g \in DOMAIN runs :
          (runs[g].status = "pending" /\ runs[g].created \in delivery[d].seen)
            => g \in delivery'[d].locked
    BY <1>1, <2>1, <2>2 DEF SeenAreCaught
  <2> QED
    BY <2>1, <2>2, <2>3, RowsStayInv
<1>4. CASE InsertConflicts(d) \/ FailsOpen(d)
  <2>1. /\ Open(d) /\ UNCHANGED <<runs, begun, reviewed>> /\ InTransaction(d)
        /\ \E via \in {"conflict", "error"} : EndTransaction(d, "reviewing", via, 0)
    BY <1>4 DEF InsertConflicts, FailsOpen
  <2>2. 0 \in 0..Cardinality(Deliveries)
    BY CountType
  <2>3. /\ Moves(d) /\ delivery'[d].step = "reviewing"
        /\ delivery'[d].run = 0 /\ delivery'[d].targets = {}
    BY <1>1, <2>1, <2>2, EndTransactionMoves
  <2> QED
    BY <2>1, <2>3, RowsStayInv
<1>5. CASE LookUpLast(d)
  <2>1. /\ Open(d) /\ UNCHANGED <<runs, begun, reviewed>>
    BY <1>5 DEF LookUpLast
  <2>2. /\ Moves(d) /\ delivery'[d].step = "working"
        /\ delivery'[d].targets = delivery[d].targets
        /\ delivery'[d].run = delivery[d].run
    BY <1>1, <1>5, LookUpLastMoves
  <2> QED
    BY <2>1, <2>2, RowsStayInv
<1>6. CASE Stops(d)
  <2>1. /\ Open(d) /\ UNCHANGED <<runs, begun, reviewed>>
    BY <1>6 DEF Stops
  <2>2. /\ Moves(d) /\ delivery'[d].step = "over"
        /\ delivery'[d].targets \subseteq delivery[d].targets
        /\ delivery'[d].run = delivery[d].run
    BY <1>1, <1>6, OverMoves
  <2> QED
    BY <2>1, <2>2, RowsStayInv
<1> QED
  BY <1>2, <1>3, <1>4, <1>5, <1>6

\* What all writers of rows have in common.
LEMMA RowsChangeInv ==
  ASSUME RunStateInv, NEW d \in Deliveries, Open(d), Moves(d), begun' = begun,
         ~InTransaction(d)',
         DOMAIN runs' \subseteq Heads, \A h \in DOMAIN runs' : runs'[h] \in Row,
         \A g, h \in DOMAIN runs' : runs'[g].created = runs'[h].created => g = h,
         reviewed' \subseteq Heads,
         RowNumbers' \subseteq RowNumbers \cup {delivery[d].created},
         delivery'[d].run \in {0, delivery[d].run, delivery[d].created} \cup RowNumbers,
         delivery'[d].targets \subseteq delivery[d].targets,
         delivery'[d].step \notin {"locking", "inserting"},
         StillPending,
         Held'
  PROVE  RunStateInv'
<1>1. TypeOK'
  BY DEF RunStateInv, TypeOK, Moves
<1>2. Counted'
  BY MoveCounted DEF RunStateInv
<1>3. \A n \in RowNumbers \cup {delivery[d].created, delivery[d].run, 0} : n <= begun
  <2>1. begun \in Nat /\ delivery[d].created \in 1..begun /\ delivery[d].run <= begun
    BY CountType DEF RunStateInv, TypeOK, Numbered, Open
  <2> QED
    BY <2>1 DEF RunStateInv, Numbered, RowNumbers
<1>4. \A h \in DOMAIN runs' : runs'[h].created \in RowNumbers'
  BY DEF RowNumbers
<1>5. Numbered'
  <2>1. \A h \in DOMAIN runs' : runs'[h].created <= begun
    BY <1>3, <1>4
  <2>2. \A n \in delivery'[d].targets : n <= begun
    BY DEF RunStateInv, Numbered
  <2> QED
    BY <1>3, <2>1, <2>2, MoveNumbered DEF RunStateInv
<1>6. Unused'
  BY MoveUnused DEF RunStateInv
<1>7. SeenAreCaught'
  BY MoveSeen DEF RunStateInv
<1>8. Headed'
  BY MoveHeaded DEF RunStateInv
<1> QED
  BY <1>1, <1>2, <1>5, <1>6, <1>7, <1>8 DEF RunStateInv

\* A stale pending run is taken over by the transaction, or not.
LEMMA ReclaimInv ==
  ASSUME RunStateInv, NEW d \in Deliveries, Reclaim(d)
  PROVE  RunStateInv'
<1> DEFINE h == delivery[d].head
<1>1. /\ delivery[d].step = "reclaiming" /\ begun' = begun /\ reviewed' = reviewed
      /\ Open(d) /\ InTransaction(d)
  BY DEF Reclaim, Open, InTransaction
<1>2. CASE ~Reclaimable(h)
  <2>1. EndTransaction(d, "skipped", "none", 0) /\ runs' = runs
    BY <1>2 DEF Reclaim
  <2>2. /\ Moves(d) /\ delivery'[d].step = "skipped"
        /\ delivery'[d].run = 0 /\ delivery'[d].targets = {}
    BY <2>1, CountType, EndTransactionMoves DEF RunStateInv
  <2> QED
    BY <1>1, <2>1, <2>2, RowsStayInv DEF InTransaction
<1>3. CASE Reclaimable(h)
  <2>1. /\ runs' = [runs EXCEPT ![h].status = "pending"]
        /\ EndTransaction(d, "reviewing", "claim", runs[h].created)
    BY <1>3 DEF Reclaim
  <2>2. /\ h \in DOMAIN runs /\ runs[h].status = "pending" /\ runs[h].age # Young
        /\ runs[h] \in Row
    BY <1>3 DEF Reclaimable, RunStateInv, TypeOK, Row, Young, HourOld, MonthOld
  <2>3. DOMAIN runs' = DOMAIN runs /\ \A g \in DOMAIN runs : runs'[g] = runs[g]
    <3>1. [runs[h] EXCEPT !.status = "pending"] = runs[h]
      BY <2>2 DEF Row
    <3> QED
      BY <2>1, <2>2, <3>1
  <2>4. /\ Moves(d) /\ delivery'[d].step = "reviewing"
        /\ delivery'[d].run = runs[h].created /\ delivery'[d].targets = {}
    <3>1. runs[h].created \in 0..Cardinality(Deliveries)
      BY <2>2, CountType DEF Row
    <3> QED
      BY <2>1, <3>1, EndTransactionMoves DEF RunStateInv
  <2>5. Held'
    <3>1. \A g \in DOMAIN runs : runs[g].age = Young => runs[g].created # runs[h].created
      BY <2>2 DEF RunStateInv, TypeOK
    <3> QED
      BY <1>1, <2>3, <2>4, <3>1, MoveHeld DEF RunStateInv
  <2>6. StillPending
    BY <2>3 DEF StillPending
  <2>7. RowNumbers' = RowNumbers /\ runs[h].created \in RowNumbers
    BY <2>2, <2>3 DEF RowNumbers
  <2>8. ~InTransaction(d)'
    BY <2>4 DEF InTransaction
  <2>9. /\ DOMAIN runs' \subseteq Heads /\ \A g \in DOMAIN runs' : runs'[g] \in Row
        /\ \A f, g \in DOMAIN runs' : runs'[f].created = runs'[g].created => f = g
        /\ reviewed' \subseteq Heads
    BY <1>1, <2>3 DEF RunStateInv, TypeOK
  <2>10. /\ RowNumbers' \subseteq RowNumbers \cup {delivery[d].created}
         /\ delivery'[d].run \in {0, delivery[d].run, delivery[d].created} \cup RowNumbers
         /\ delivery'[d].targets \subseteq delivery[d].targets
         /\ delivery'[d].step \notin {"locking", "inserting"}
    BY <2>4, <2>7
  <2> QED
    BY <1>1, <2>4, <2>5, <2>6, <2>8, <2>9, <2>10, RowsChangeInv
<1> QED
  BY <1>2, <1>3

\* A new run, and the rows it supersedes.
LEMMA InsertInv ==
  ASSUME RunStateInv, NEW d \in Deliveries, Insert(d)
  PROVE  RunStateInv'
<1> DEFINE h == delivery[d].head
           n == delivery[d].created
<1>1. /\ delivery[d].step = "inserting" /\ begun' = begun /\ reviewed' = reviewed
      /\ Open(d) /\ InTransaction(d) /\ h \notin DOMAIN runs
      /\ EndTransaction(d, "reviewing", "claim", n)
  BY DEF Insert, Open, InTransaction
<1>2. /\ n \in 1..Cardinality(Deliveries) /\ n <= begun
      /\ \A g \in DOMAIN runs : runs[g].created # n
      /\ \A e \in Deliveries : delivery[e].run # n /\ n \notin delivery[e].seen
  <2>1. n \in 1..begun /\ begun \in 0..Cardinality(Deliveries)
    BY <1>1 DEF RunStateInv, Numbered, TypeOK
  <2>2. n \in 1..Cardinality(Deliveries) /\ n <= begun
    BY <2>1, CountType
  <2> QED
    BY <1>1, <2>2 DEF RunStateInv, Unused
<1>3. /\ Moves(d) /\ delivery'[d].step = "reviewing"
      /\ delivery'[d].run = n /\ delivery'[d].targets = {}
  <2>1. n \in 0..Cardinality(Deliveries)
    BY <1>2, CountType
  <2> QED
    BY <1>1, <2>1, EndTransactionMoves DEF RunStateInv
<1>4. h \in Heads
  <2>1. delivery[d].head \in Heads \cup {"none"}
    BY DEF RunStateInv, TypeOK, Delivery
  <2> QED
    BY <1>1, <2>1 DEF RunStateInv, Headed
<1>5. /\ DOMAIN runs' = DOMAIN runs \cup {h}
      /\ runs'[h] \in Row /\ runs'[h].created = n
      /\ \A g \in DOMAIN runs :
           /\ runs'[g] \in Row
           /\ runs'[g].created = runs[g].created
           /\ runs'[g].age = runs[g].age
           /\ runs'[g].status = "pending" => runs[g].status = "pending"
  <2>1. DOMAIN runs' = DOMAIN runs \cup {h}
    BY DEF Insert
  <2>2. runs'[h] = NewRun(d)
    BY DEF Insert
  <2>3. Young \in Young..MonthOld
    BY DEF Young, MonthOld
  <2>4. runs'[h] \in Row /\ runs'[h].created = n
    BY <1>2, <2>2, <2>3 DEF NewRun, Row
  <2>5. ASSUME NEW g \in DOMAIN runs
        PROVE  /\ runs'[g] \in Row
               /\ runs'[g].created = runs[g].created
               /\ runs'[g].age = runs[g].age
               /\ runs'[g].status = "pending" => runs[g].status = "pending"
    <3>1. runs[g] \in Row /\ g # h
      BY <1>1 DEF RunStateInv, TypeOK
    <3>2. runs'[g] \in {runs[g], [runs[g] EXCEPT !.status = "superseded"]}
      BY <3>1 DEF Insert
    <3>3. CASE runs'[g] = runs[g]
      BY <3>1, <3>3
    <3>4. CASE runs'[g] = [runs[g] EXCEPT !.status = "superseded"]
      BY <3>1, <3>4 DEF Row
    <3> QED
      BY <3>2, <3>3, <3>4
  <2> QED
    BY <2>1, <2>4, <2>5
<1> HIDE DEF h, n
<1>6. RowNumbers' \subseteq RowNumbers \cup {n}
  BY <1>5 DEF RowNumbers
<1>7. /\ DOMAIN runs' \subseteq Heads
      /\ \A g \in DOMAIN runs' : runs'[g] \in Row
      /\ \A f, g \in DOMAIN runs' : runs'[f].created = runs'[g].created => f = g
      /\ reviewed' \subseteq Heads
  BY <1>1, <1>2, <1>4, <1>5 DEF RunStateInv, TypeOK
<1>8. StillPending
  BY <1>2, <1>5 DEF StillPending
<1>9. Held'
  <2> SUFFICES ASSUME NEW g \in DOMAIN runs', runs'[g].age = Young
               PROVE  \E e \in Deliveries :
                        /\ delivery'[e].run = runs'[g].created
                        /\ \A f \in Deliveries :
                             delivery'[f].run = runs'[g].created => f = e
    BY DEF Held
  <2>1. CASE g = h
    BY <1>2, <1>3, <1>5, <2>1 DEF Moves
  <2>2. CASE g # h
    <3>1. /\ g \in DOMAIN runs /\ runs[g].age = Young
          /\ runs'[g].created = runs[g].created
          /\ runs[g].created # n /\ runs[g].created # 0
      BY <1>2, <1>5, <2>2 DEF RunStateInv, TypeOK, Row
    <3>2. PICK e \in Deliveries :
            /\ delivery[e].run = runs[g].created
            /\ \A f \in Deliveries : delivery[f].run = runs[g].created => f = e
      BY <3>1 DEF RunStateInv, Held
    <3>3. delivery[d].run = 0
      BY <1>1 DEF RunStateInv, Unused
    <3>4. e # d
      BY <3>1, <3>2, <3>3
    <3> QED
      BY <1>3, <3>1, <3>2, <3>4 DEF Moves
  <2> QED
    BY <2>1, <2>2
<1>10. ~InTransaction(d)'
  BY <1>3 DEF InTransaction
<1>11. /\ delivery'[d].run \in {0, delivery[d].run, delivery[d].created} \cup RowNumbers
       /\ delivery'[d].targets \subseteq delivery[d].targets
       /\ delivery'[d].step \notin {"locking", "inserting"}
       /\ RowNumbers' \subseteq RowNumbers \cup {delivery[d].created}
  BY <1>3, <1>6 DEF n
<1> QED
  BY <1>1, <1>3, <1>7, <1>8, <1>9, <1>10, <1>11, RowsChangeInv

\* A review completes its run, whatever became of it.
LEMMA CompleteInv ==
  ASSUME RunStateInv, NEW d \in Deliveries, CompleteRun(d)
  PROVE  RunStateInv'
<1> DEFINE h == delivery[d].head
<1>1. /\ delivery[d].step = "working" /\ begun' = begun /\ Open(d)
      /\ delivery[d].head \in Heads
  BY DEF CompleteRun, Open, RunStateInv, Headed
<1>2. /\ Moves(d) /\ delivery'[d].step = "over"
      /\ delivery'[d].targets \subseteq delivery[d].targets
      /\ delivery'[d].run = delivery[d].run
  BY OverMoves DEF RunStateInv
<1>3. ~InTransaction(d)'
  BY <1>2 DEF InTransaction
<1>4. CASE h \notin DOMAIN runs
  <2>1. UNCHANGED <<runs, begun, reviewed>>
    BY <1>1, <1>4 DEF CompleteRun
  <2> QED
    BY <1>1, <1>2, <1>3, <2>1, RowsStayInv
<1>5. CASE h \in DOMAIN runs
  <2>1. /\ runs' = [runs EXCEPT ![h].status = "completed"]
        /\ reviewed' = reviewed \cup {h}
    BY <1>5 DEF CompleteRun
  <2>2. /\ DOMAIN runs' = DOMAIN runs
        /\ \A g \in DOMAIN runs :
             /\ runs'[g] \in Row
             /\ runs'[g].created = runs[g].created
             /\ runs'[g].age = runs[g].age
             /\ runs'[g].status = "pending" => runs[g].status = "pending"
    <3>1. ASSUME NEW g \in DOMAIN runs
          PROVE  /\ runs'[g] \in Row
                 /\ runs'[g].created = runs[g].created
                 /\ runs'[g].age = runs[g].age
                 /\ runs'[g].status = "pending" => runs[g].status = "pending"
      <4>1. runs[g] \in Row
        BY DEF RunStateInv, TypeOK
      <4>2. runs'[g] \in {runs[g], [runs[g] EXCEPT !.status = "completed"]}
        BY <2>1
      <4>3. CASE runs'[g] = runs[g]
        BY <4>1, <4>3
      <4>4. CASE runs'[g] = [runs[g] EXCEPT !.status = "completed"]
        BY <4>1, <4>4 DEF Row
      <4> QED
        BY <4>2, <4>3, <4>4
    <3> QED
      BY <2>1, <3>1
  <2>3. /\ DOMAIN runs' \subseteq Heads
        /\ \A g \in DOMAIN runs' : runs'[g] \in Row
        /\ \A f, g \in DOMAIN runs' : runs'[f].created = runs'[g].created => f = g
        /\ reviewed' \subseteq Heads
    BY <1>1, <2>1, <2>2 DEF RunStateInv, TypeOK
  <2>4. StillPending
    BY <2>2 DEF StillPending
  <2>5. Held'
    BY <1>2, <2>2, MoveHeld DEF RunStateInv
  <2>6. /\ RowNumbers' \subseteq RowNumbers \cup {delivery[d].created}
        /\ delivery'[d].run \in {0, delivery[d].run, delivery[d].created} \cup RowNumbers
        /\ delivery'[d].step \notin {"locking", "inserting"}
    BY <1>2, <2>2 DEF RowNumbers
  <2> QED
    BY <1>1, <1>2, <1>3, <2>3, <2>4, <2>5, <2>6, RowsChangeInv
<1> QED
  BY <1>4, <1>5

-----------------------------------------------------------------------------
(* Time, retention and the theorems *)

\* Rows go or grow older; the deliveries do not notice.
LEMMA RowsFadeInv ==
  ASSUME RunStateInv, delivery' = delivery, begun' = begun,
         reviewed' \subseteq Heads,
         DOMAIN runs' \subseteq DOMAIN runs,
         \A g \in DOMAIN runs' :
           /\ runs'[g] \in Row
           /\ runs'[g].created = runs[g].created
           /\ runs'[g].status = runs[g].status
           /\ runs'[g].age = Young => runs[g].age = Young
  PROVE  RunStateInv'
<1>1. TypeOK'
  BY DEF RunStateInv, TypeOK
<1>2. Counted'
  BY DEF RunStateInv, Counted, Begun
<1>3. Numbered'
  BY DEF RunStateInv, Numbered
<1>4. Headed'
  BY DEF RunStateInv, Headed, InTransaction
<1>5. Unused'
  BY DEF RunStateInv, Unused, InTransaction
<1>6. Held'
  BY DEF RunStateInv, Held
<1>7. SeenAreCaught'
  BY DEF RunStateInv, SeenAreCaught
<1> QED
  BY <1>1, <1>2, <1>3, <1>4, <1>5, <1>6, <1>7 DEF RunStateInv

LEMMA AgeInv ==
  ASSUME RunStateInv, NEW h \in Heads, Age(h)
  PROVE  RunStateInv'
<1>1. /\ h \in DOMAIN runs /\ runs[h].age < MonthOld /\ runs[h] \in Row
      /\ runs' = [runs EXCEPT ![h].age = @ + 1]
      /\ UNCHANGED <<delivery, begun, reviewed>>
  BY DEF Age, RunStateInv, TypeOK
<1> DEFINE r == [runs[h] EXCEPT !.age = @ + 1]
<1>2. runs[h].age \in Nat /\ runs[h].age + 1 \in Young..MonthOld
  BY <1>1 DEF Row, Young, MonthOld
<1>3. /\ r \in Row /\ r.created = runs[h].created /\ r.status = runs[h].status
      /\ r.age # Young
  BY <1>1, <1>2 DEF Row, Young
<1>4. runs' = [runs EXCEPT ![h] = r]
  BY <1>1
<1> HIDE DEF r
<1>5. \A g \in DOMAIN runs : runs[g] \in Row
  BY DEF RunStateInv, TypeOK
<1>6. /\ DOMAIN runs' = DOMAIN runs
      /\ \A g \in DOMAIN runs' :
           /\ runs'[g] \in Row
           /\ runs'[g].created = runs[g].created
           /\ runs'[g].status = runs[g].status
           /\ runs'[g].age = Young => runs[g].age = Young
  BY <1>1, <1>3, <1>4, <1>5
<1> QED
  BY <1>1, <1>6, RowsFadeInv DEF RunStateInv, TypeOK

LEMMA PurgeInv ==
  ASSUME RunStateInv, NEW status, Purge(status)
  PROVE  RunStateInv'
<1>1. PICK old \in SUBSET DOMAIN runs :
        /\ runs' = [h \in DOMAIN runs \ old |-> runs[h]]
        /\ reviewed' = reviewed \ old
        /\ UNCHANGED <<delivery, begun>>
  BY DEF Purge
<1> QED
  BY <1>1, RowsFadeInv DEF RunStateInv, TypeOK

LEMMA RunStateInvInit ==
  ASSUME Init
  PROVE  RunStateInv
<1>1. 0 \in 0..Cardinality(Deliveries)
  BY CountType
<1>2. DOMAIN runs = {} /\ delivery = [d \in Deliveries |-> NoDelivery]
      /\ begun = 0 /\ reviewed = {}
  BY DEF Init
<1>3. NoDelivery \in Delivery
  BY <1>1 DEF NoDelivery, Delivery
<1>4. TypeOK
  BY <1>1, <1>2, <1>3 DEF TypeOK
<1>5. Begun = {}
  BY <1>2 DEF Begun, NoDelivery
<1>6. Counted
  BY <1>2, <1>5, FS_EmptySet DEF Counted
<1>7. Numbered /\ Headed /\ Unused /\ Held /\ SeenAreCaught
  BY <1>2 DEF Numbered, Headed, Unused, Held, SeenAreCaught, NoDelivery, InTransaction
<1> QED
  BY <1>4, <1>6, <1>7 DEF RunStateInv

LEMMA RunStateInvNext ==
  ASSUME RunStateInv, [Next]_vars
  PROVE  RunStateInv'
<1>1. ASSUME NEW d \in Deliveries, NEW h \in Heads, Begin(d, h)
      PROVE  RunStateInv'
  BY <1>1, BeginInv
<1>2. ASSUME NEW d \in Deliveries, Reclaim(d)
      PROVE  RunStateInv'
  BY <1>2, ReclaimInv
<1>3. ASSUME NEW d \in Deliveries, Insert(d)
      PROVE  RunStateInv'
  BY <1>3, InsertInv
<1>4. ASSUME NEW d \in Deliveries,
             SupersedeStarts(d) \/ Supersede(d) \/ InsertConflicts(d)
               \/ FailsOpen(d) \/ LookUpLast(d) \/ Stops(d)
      PROVE  RunStateInv'
  BY <1>4, ReadersInv
<1>5. ASSUME NEW d \in Deliveries, CompleteRun(d)
      PROVE  RunStateInv'
  BY <1>5, CompleteInv
<1>6. ASSUME NEW h \in Heads, Age(h)
      PROVE  RunStateInv'
  BY <1>6, AgeInv
<1>7. ASSUME NEW status \in {"completed", "superseded", "pending"}, Purge(status)
      PROVE  RunStateInv'
  BY <1>7, PurgeInv
<1>8. CASE UNCHANGED vars
  BY <1>8, RowsFadeInv DEF vars, RunStateInv, TypeOK
<1> QED
  BY <1>1, <1>2, <1>3, <1>4, <1>5, <1>6, <1>7, <1>8 DEF Next

LEMMA RunStateInvAlways == Spec => []RunStateInv
<1> QED
  BY RunStateInvInit, RunStateInvNext, PTL DEF Spec

\* Rows and deliveries keep their types, and no two rows share a created_at.
THEOREM RunStateTypes == Spec => []TypeOK
<1>1. RunStateInv => TypeOK
  BY DEF RunStateInv
<1> QED
  BY <1>1, RunStateInvAlways, PTL

-----------------------------------------------------------------------------
(* The claims of one head *)

ClaimOf(d, h) == delivery[d].via = "claim" /\ delivery[d].head = h

\* Those that hold a run claimed it, and it is a run of their head.
ClaimsHold ==
  \A d \in Deliveries :
    /\ delivery[d].run # 0 => delivery[d].via = "claim"
    /\ \A h \in DOMAIN runs :
         delivery[d].run = runs[h].created => delivery[d].head = h

\* A claim of a head holds the run that is there, or began before it did.
ClaimsAreOlder ==
  \A d \in Deliveries, h \in DOMAIN runs : ClaimOf(d, h) =>
    \/ delivery[d].run = runs[h].created
    \/ delivery[d].created < runs[h].created

\* A transaction that found no run of its head began after all claims of it,
\* and a run that was inserted since is young.
Superseding(d) == delivery[d].step \in {"superseding", "locking", "inserting"}

ClaimsCameBefore ==
  \A d \in Deliveries, h \in Heads :
    (Superseding(d) /\ delivery[d].head = h) =>
      /\ h \in DOMAIN runs => runs[h].age = Young
      /\ h \notin DOMAIN runs =>
           \A e \in Deliveries : ClaimOf(e, h) =>
             delivery[e].created < delivery[d].created

ClaimInv == ClaimsHold /\ ClaimsAreOlder /\ ClaimsCameBefore

\* The step of d leaves it with the run it had, or with none and no claim.
KeepsClaims(d) ==
  /\ \A e \in Deliveries \ {d} : delivery'[e] = delivery[e]
  /\ delivery'[d].head = delivery[d].head
  /\ delivery'[d].created = delivery[d].created
  /\ \/ /\ delivery'[d].via = delivery[d].via
        /\ delivery'[d].run = delivery[d].run
     \/ /\ delivery'[d].via # "claim"
        /\ delivery'[d].run = 0
  /\ Superseding(d)' => Superseding(d)

\* The rows that are there stay, with what does not change in a row but by age.
RowsKeep ==
  /\ DOMAIN runs' = DOMAIN runs
  /\ \A h \in DOMAIN runs : /\ runs'[h].created = runs[h].created
                            /\ runs'[h].age = runs[h].age

LEMMA KeepingClaimInv ==
  ASSUME RunStateInv, ClaimInv, NEW d \in Deliveries, KeepsClaims(d), RowsKeep
  PROVE  ClaimInv'
<1>1. \A h \in DOMAIN runs : runs[h].created # 0
  BY DEF RunStateInv, TypeOK, Row
<1>2. \A e \in Deliveries :
        /\ delivery'[e].head = delivery[e].head
        /\ delivery'[e].created = delivery[e].created
        /\ Superseding(e)' => Superseding(e)
        /\ \/ /\ delivery'[e].via = delivery[e].via
              /\ delivery'[e].run = delivery[e].run
           \/ /\ delivery'[e].via # "claim"
              /\ delivery'[e].run = 0
  BY DEF KeepsClaims, Superseding
<1>3. ClaimsHold'
  BY <1>1, <1>2 DEF ClaimInv, ClaimsHold, RowsKeep
<1>4. ClaimsAreOlder'
  BY <1>2 DEF ClaimInv, ClaimsAreOlder, ClaimOf, RowsKeep
<1>5. ClaimsCameBefore'
  BY <1>2 DEF ClaimInv, ClaimsCameBefore, ClaimOf, RowsKeep
<1> QED
  BY <1>3, <1>4, <1>5 DEF ClaimInv

LEMMA ReadersClaimInv ==
  ASSUME RunStateInv, ClaimInv, NEW d \in Deliveries,
         \/ SupersedeStarts(d) \/ Supersede(d)
         \/ InsertConflicts(d) \/ FailsOpen(d)
         \/ LookUpLast(d) \/ Stops(d)
  PROVE  ClaimInv'
<1>1. TypeOK /\ RowsKeep
  BY DEF RunStateInv, RowsKeep, SupersedeStarts, Supersede, InsertConflicts,
     FailsOpen, LookUpLast, Stops
<1>2. CASE SupersedeStarts(d) \/ Supersede(d)
  <2>1. /\ Moves(d) /\ delivery'[d].run = delivery[d].run
        /\ delivery'[d].step \in {"locking", "inserting"}
    BY <1>1, <1>2, SupersedeStartsMoves, SupersedeMoves
  <2>2. Superseding(d)
    BY <1>2 DEF SupersedeStarts, Supersede, Superseding
  <2>3. KeepsClaims(d)
    BY <2>1, <2>2 DEF KeepsClaims, Moves, InTransaction
  <2> QED
    BY <1>1, <2>3, KeepingClaimInv
<1>3. CASE InsertConflicts(d) \/ FailsOpen(d)
  <2>1. \E via \in {"conflict", "error"} : EndTransaction(d, "reviewing", via, 0)
    BY <1>3 DEF InsertConflicts, FailsOpen
  <2>2. /\ Moves(d) /\ delivery'[d].step = "reviewing"
        /\ delivery'[d].via # "claim" /\ delivery'[d].run = 0
    BY <1>1, <2>1, CountType, EndTransactionMoves
  <2>3. KeepsClaims(d)
    BY <2>2 DEF KeepsClaims, Moves, Superseding
  <2> QED
    BY <1>1, <2>3, KeepingClaimInv
<1>4. CASE LookUpLast(d) \/ Stops(d)
  <2>1. /\ Moves(d) /\ delivery'[d].step \in {"working", "over"}
        /\ delivery'[d].via = delivery[d].via /\ delivery'[d].run = delivery[d].run
    BY <1>1, <1>4, LookUpLastMoves, OverMoves
  <2>2. KeepsClaims(d)
    BY <2>1 DEF KeepsClaims, Moves, Superseding
  <2> QED
    BY <1>1, <2>2, KeepingClaimInv
<1> QED
  BY <1>2, <1>3, <1>4

LEMMA CompleteClaimInv ==
  ASSUME RunStateInv, ClaimInv, NEW d \in Deliveries, CompleteRun(d)
  PROVE  ClaimInv'
<1>1. /\ Moves(d) /\ delivery'[d].step = "over"
      /\ delivery'[d].via = delivery[d].via /\ delivery'[d].run = delivery[d].run
  BY OverMoves DEF RunStateInv
<1>2. KeepsClaims(d)
  BY <1>1 DEF KeepsClaims, Moves, Superseding
<1>3. \/ runs' = runs
      \/ runs' = [runs EXCEPT ![delivery[d].head].status = "completed"]
  BY DEF CompleteRun
<1>4. \A h \in DOMAIN runs : runs[h] \in Row
  BY DEF RunStateInv, TypeOK
<1>5. RowsKeep
  BY <1>3, <1>4 DEF RowsKeep, Row
<1> QED
  BY <1>2, <1>5, KeepingClaimInv

\* A claim that takes over holds the run of its head.
LEMMA ReclaimClaimInv ==
  ASSUME RunStateInv, ClaimInv, NEW d \in Deliveries, Reclaim(d)
  PROVE  ClaimInv'
<1> DEFINE h == delivery[d].head
<1>1. CASE ~Reclaimable(h)
  <2>1. EndTransaction(d, "skipped", "none", 0) /\ runs' = runs
    BY <1>1 DEF Reclaim
  <2>2. /\ Moves(d) /\ delivery'[d].step = "skipped"
        /\ delivery'[d].via # "claim" /\ delivery'[d].run = 0
    BY <2>1, CountType, EndTransactionMoves DEF RunStateInv
  <2>3. KeepsClaims(d)
    BY <2>2 DEF KeepsClaims, Moves, Superseding
  <2> QED
    BY <2>1, <2>3, KeepingClaimInv DEF RowsKeep
<1>2. CASE Reclaimable(h)
  <2>1. /\ runs' = [runs EXCEPT ![h].status = "pending"]
        /\ EndTransaction(d, "reviewing", "claim", runs[h].created)
    BY <1>2 DEF Reclaim
  <2>2. h \in DOMAIN runs /\ \A g \in DOMAIN runs : runs[g] \in Row
    BY <1>2 DEF Reclaimable, RunStateInv, TypeOK
  <2>3. RowsKeep
    BY <2>1, <2>2 DEF RowsKeep, Row
  <2>4. /\ Moves(d) /\ delivery'[d].step = "reviewing" /\ ~Superseding(d)'
        /\ delivery'[d].via = "claim" /\ delivery'[d].run = runs[h].created
    <3>1. runs[h].created \in 0..Cardinality(Deliveries)
      BY <2>2, CountType DEF Row
    <3> QED
      BY <2>1, <3>1, EndTransactionMoves DEF RunStateInv, Superseding
  <2>5. \A g \in DOMAIN runs : runs[g].created = runs[h].created => g = h
    BY <2>2 DEF RunStateInv, TypeOK
  <2> HIDE DEF h
  <2>6. delivery'[d].head = h /\ \A e \in Deliveries \ {d} : delivery'[e] = delivery[e]
    BY <2>4 DEF Moves, h
  <2>7. ClaimsHold'
    BY <2>3, <2>4, <2>5, <2>6 DEF ClaimInv, ClaimsHold, RowsKeep
  <2>8. ClaimsAreOlder'
    BY <2>2, <2>3, <2>4, <2>6 DEF ClaimInv, ClaimsAreOlder, ClaimOf, RowsKeep
  <2>9. ClaimsCameBefore'
    BY <2>2, <2>3, <2>4, <2>6
       DEF ClaimInv, ClaimsCameBefore, ClaimOf, RowsKeep, Superseding
  <2> QED
    BY <2>7, <2>8, <2>9 DEF ClaimInv
<1> QED
  BY <1>1, <1>2

\* A claim that inserts found none of its head, so all others are older.
LEMMA InsertClaimInv ==
  ASSUME RunStateInv, ClaimInv, NEW d \in Deliveries, Insert(d)
  PROVE  ClaimInv'
<1> DEFINE h == delivery[d].head
           n == delivery[d].created
<1>1. /\ Superseding(d) /\ InTransaction(d) /\ h \notin DOMAIN runs
      /\ EndTransaction(d, "reviewing", "claim", n)
  BY DEF Insert, Superseding, InTransaction
<1>2. /\ n \in 1..Cardinality(Deliveries) /\ h \in Heads
      /\ \A g \in DOMAIN runs : runs[g].created # n
      /\ \A e \in Deliveries : delivery[e].run # n
  <2>1. n \in 1..begun /\ begun \in 0..Cardinality(Deliveries)
    BY <1>1 DEF RunStateInv, Numbered, TypeOK, InTransaction
  <2>2. n \in 1..Cardinality(Deliveries)
    BY <2>1, CountType
  <2> QED
    BY <1>1, <2>2 DEF RunStateInv, Unused, Headed, InTransaction
<1>3. /\ Moves(d) /\ delivery'[d].step = "reviewing" /\ ~Superseding(d)'
      /\ delivery'[d].via = "claim" /\ delivery'[d].run = n
  <2>1. n \in 0..Cardinality(Deliveries)
    BY <1>2, CountType
  <2> QED
    BY <1>1, <2>1, EndTransactionMoves DEF RunStateInv, Superseding
<1>4. /\ DOMAIN runs' = DOMAIN runs \cup {h}
      /\ runs'[h].created = n /\ runs'[h].age = Young
      /\ \A g \in DOMAIN runs : /\ runs'[g].created = runs[g].created
                                /\ runs'[g].age = runs[g].age
  <2>1. /\ DOMAIN runs' = DOMAIN runs \cup {h} /\ runs'[h] = NewRun(d)
        /\ \A g \in DOMAIN runs :
             runs'[g] \in {runs[g], [runs[g] EXCEPT !.status = "superseded"]}
    BY <1>1 DEF Insert
  <2>2. \A g \in DOMAIN runs : runs[g] \in Row
    BY DEF RunStateInv, TypeOK
  <2> QED
    BY <2>1, <2>2 DEF NewRun, Row
<1>5. \A e \in Deliveries \ {d} : ClaimOf(e, h) => delivery[e].created < n
  BY <1>1, <1>2 DEF ClaimInv, ClaimsCameBefore
<1> HIDE DEF h, n
<1>6. /\ delivery'[d].head = h /\ delivery'[d].created = n
      /\ \A e \in Deliveries \ {d} : delivery'[e] = delivery[e]
  BY <1>3 DEF Moves, h, n
<1>7. n # 0
  BY <1>2
<1>8. ClaimsHold'
  BY <1>2, <1>3, <1>4, <1>6, <1>7 DEF ClaimInv, ClaimsHold
<1>9. ClaimsAreOlder'
  <2> SUFFICES ASSUME NEW e \in Deliveries, NEW g \in DOMAIN runs', ClaimOf(e, g)'
               PROVE  \/ delivery'[e].run = runs'[g].created
                      \/ delivery'[e].created < runs'[g].created
    BY DEF ClaimsAreOlder
  <2>1. CASE e = d
    BY <1>3, <1>4, <1>6, <2>1 DEF ClaimOf
  <2>2. CASE e # d /\ g = h
    BY <1>4, <1>5, <1>6, <2>2 DEF ClaimOf
  <2>3. CASE e # d /\ g # h
    BY <1>4, <1>6, <2>3 DEF ClaimOf, ClaimInv, ClaimsAreOlder
  <2> QED
    BY <2>1, <2>2, <2>3
<1>10. ClaimsCameBefore'
  <2> SUFFICES ASSUME NEW e \in Deliveries, NEW g \in Heads,
                      Superseding(e)', delivery'[e].head = g
               PROVE  /\ g \in DOMAIN runs' => runs'[g].age = Young
                      /\ g \notin DOMAIN runs' =>
                           \A f \in Deliveries : ClaimOf(f, g)' =>
                             delivery'[f].created < delivery'[e].created
    BY DEF ClaimsCameBefore
  <2>1. e # d /\ Superseding(e) /\ delivery[e].head = g
    BY <1>3, <1>6 DEF Superseding
  <2>2. CASE g = h
    BY <1>4, <2>2
  <2>3. CASE g # h
    <3>1. /\ g \in DOMAIN runs => runs[g].age = Young
          /\ g \notin DOMAIN runs =>
               \A f \in Deliveries : ClaimOf(f, g) =>
                 delivery[f].created < delivery[e].created
      BY <2>1 DEF ClaimInv, ClaimsCameBefore
    <3>2. \A f \in Deliveries : ClaimOf(f, g)' => f # d /\ ClaimOf(f, g)
      BY <1>6, <2>3 DEF ClaimOf
    <3> QED
      BY <1>4, <1>6, <2>1, <2>3, <3>1, <3>2
  <2> QED
    BY <2>2, <2>3
<1> QED
  BY <1>8, <1>9, <1>10 DEF ClaimInv

\* A transaction begins after every claim.
LEMMA BeginClaimInv ==
  ASSUME RunStateInv, ClaimInv, NEW d \in Deliveries, NEW h \in Heads, Begin(d, h)
  PROVE  ClaimInv'
<1>1. /\ delivery \in [Deliveries -> Delivery] /\ runs' = runs /\ begun \in Nat
      /\ \A g \in DOMAIN runs : runs[g].created # 0
  BY CountType DEF RunStateInv, TypeOK, Begin, Row
<1>2. /\ delivery'[d].head = h /\ delivery'[d].created = begun + 1
      /\ delivery'[d].via = "none" /\ delivery'[d].run = 0
      /\ Superseding(d)' => h \notin DOMAIN runs
      /\ \A e \in Deliveries \ {d} : delivery'[e] = delivery[e]
  BY <1>1 DEF Begin, NoDelivery, Superseding
<1>3. \A e \in Deliveries : ClaimOf(e, h) =>
        delivery[e].created \in Nat /\ delivery[e].created <= begun
  <2>1. ASSUME NEW e \in Deliveries, ClaimOf(e, h)
        PROVE  delivery[e].step # "idle"
    BY <2>1 DEF RunStateInv, Numbered, NoDelivery, ClaimOf
  <2> QED
    BY <1>1, <2>1 DEF RunStateInv, Numbered
<1>4. ClaimsHold'
  BY <1>1, <1>2 DEF ClaimInv, ClaimsHold
<1>5. ClaimsAreOlder'
  BY <1>1, <1>2 DEF ClaimInv, ClaimsAreOlder, ClaimOf
<1>6. ClaimsCameBefore'
  <2> SUFFICES ASSUME NEW e \in Deliveries, NEW g \in Heads,
                      Superseding(e)', delivery'[e].head = g
               PROVE  /\ g \in DOMAIN runs => runs[g].age = Young
                      /\ g \notin DOMAIN runs =>
                           \A f \in Deliveries : ClaimOf(f, g)' =>
                             delivery'[f].created < delivery'[e].created
    BY <1>1 DEF ClaimsCameBefore
  <2>1. \A f \in Deliveries : ClaimOf(f, g)' => f # d /\ ClaimOf(f, g)
    BY <1>2 DEF ClaimOf
  <2>2. CASE e = d
    <3>1. g = h /\ delivery'[e].created = begun + 1 /\ g \notin DOMAIN runs
      BY <1>2, <2>2
    <3>2. \A f \in Deliveries : ClaimOf(f, g)' => delivery'[f].created < begun + 1
      BY <1>1, <1>2, <1>3, <2>1, <3>1
    <3> QED
      BY <3>1, <3>2
  <2>3. CASE e # d
    BY <1>2, <2>1, <2>3 DEF ClaimInv, ClaimsCameBefore, Superseding
  <2> QED
    BY <2>2, <2>3
<1> QED
  BY <1>4, <1>5, <1>6 DEF ClaimInv

\* Rows that go were not young, and no transaction is open when one ages.
LEMMA FadingClaimInv ==
  ASSUME RunStateInv, ClaimInv, delivery' = delivery,
         DOMAIN runs' \subseteq DOMAIN runs,
         \A h \in DOMAIN runs' : runs'[h].created = runs[h].created,
         \A d \in Deliveries, h \in Heads :
           (Superseding(d) /\ delivery[d].head = h /\ h \in DOMAIN runs) =>
             h \in DOMAIN runs' /\ runs'[h].age = runs[h].age
  PROVE  ClaimInv'
<1>1. ClaimsHold'
  BY DEF ClaimInv, ClaimsHold
<1>2. ClaimsAreOlder'
  BY DEF ClaimInv, ClaimsAreOlder, ClaimOf
<1>3. ClaimsCameBefore'
  BY DEF ClaimInv, ClaimsCameBefore, ClaimOf, Superseding
<1> QED
  BY <1>1, <1>2, <1>3 DEF ClaimInv

LEMMA AgeClaimInv ==
  ASSUME RunStateInv, ClaimInv, NEW h \in Heads, Age(h)
  PROVE  ClaimInv'
<1>1. /\ runs' = [runs EXCEPT ![h].age = @ + 1] /\ delivery' = delivery
      /\ \A d \in Deliveries : ~Superseding(d)
  BY DEF Age, InTransaction, Superseding
<1>2. \A g \in DOMAIN runs : runs[g] \in Row
  BY DEF RunStateInv, TypeOK
<1>3. /\ DOMAIN runs' = DOMAIN runs
      /\ \A g \in DOMAIN runs : runs'[g].created = runs[g].created
  BY <1>1, <1>2 DEF Row
<1> QED
  BY <1>1, <1>3, FadingClaimInv

LEMMA PurgeClaimInv ==
  ASSUME RunStateInv, ClaimInv,
         NEW status \in {"completed", "superseded", "pending"}, Purge(status)
  PROVE  ClaimInv'
<1>1. PICK old \in SUBSET DOMAIN runs :
        /\ \A h \in old : runs[h].age >= RetentionOf(status)
        /\ runs' = [h \in DOMAIN runs \ old |-> runs[h]]
        /\ delivery' = delivery
  BY DEF Purge
<1>2. RetentionOf(status) \in {HourOld, WeekOld, MonthOld}
  BY DEF RetentionOf
<1>3. \A h \in old : runs[h].age # Young
  BY <1>1, <1>2 DEF Young, HourOld, WeekOld, MonthOld
<1>4. \A d \in Deliveries, h \in Heads :
        (Superseding(d) /\ delivery[d].head = h /\ h \in DOMAIN runs) => h \notin old
  BY <1>3 DEF ClaimInv, ClaimsCameBefore
<1> QED
  BY <1>1, <1>4, FadingClaimInv

LEMMA ClaimInvInit ==
  ASSUME Init
  PROVE  ClaimInv
<1> QED
  BY DEF Init, NoDelivery, ClaimInv, ClaimsHold, ClaimsAreOlder, ClaimsCameBefore,
     ClaimOf, Superseding

LEMMA ClaimInvNext ==
  ASSUME RunStateInv, ClaimInv, [Next]_vars
  PROVE  ClaimInv'
<1>1. ASSUME NEW d \in Deliveries, NEW h \in Heads, Begin(d, h)
      PROVE  ClaimInv'
  BY <1>1, BeginClaimInv
<1>2. ASSUME NEW d \in Deliveries, Reclaim(d)
      PROVE  ClaimInv'
  BY <1>2, ReclaimClaimInv
<1>3. ASSUME NEW d \in Deliveries, Insert(d)
      PROVE  ClaimInv'
  BY <1>3, InsertClaimInv
<1>4. ASSUME NEW d \in Deliveries,
             SupersedeStarts(d) \/ Supersede(d) \/ InsertConflicts(d)
               \/ FailsOpen(d) \/ LookUpLast(d) \/ Stops(d)
      PROVE  ClaimInv'
  BY <1>4, ReadersClaimInv
<1>5. ASSUME NEW d \in Deliveries, CompleteRun(d)
      PROVE  ClaimInv'
  BY <1>5, CompleteClaimInv
<1>6. ASSUME NEW h \in Heads, Age(h)
      PROVE  ClaimInv'
  BY <1>6, AgeClaimInv
<1>7. ASSUME NEW status \in {"completed", "superseded", "pending"}, Purge(status)
      PROVE  ClaimInv'
  BY <1>7, PurgeClaimInv
<1>8. CASE UNCHANGED vars
  BY <1>8, FadingClaimInv DEF vars
<1> QED
  BY <1>1, <1>2, <1>3, <1>4, <1>5, <1>6, <1>7, <1>8 DEF Next

\* Of the reviews of a head with a young run one made the claim; every other was
\* let in by an error, the conflict of two claims among them, or is a review
\* from before that run.
THEOREM OneClaimOfAYoungRun == Spec => []ExtraReviewsFailedOpen
<1>1. ASSUME RunStateInv, ClaimInv
      PROVE  ExtraReviewsFailedOpen
  <2> SUFFICES ASSUME NEW h \in DOMAIN runs, runs[h].age = Young
               PROVE  \E d \in LetIn(h) :
                        /\ delivery[d].run = runs[h].created
                        /\ \A e \in LetIn(h) \ {d} :
                             \/ delivery[e].via \in {"conflict", "error"}
                             \/ delivery[e].created < runs[h].created
    BY DEF ExtraReviewsFailedOpen
  <2>1. PICK d \in Deliveries :
          /\ delivery[d].run = runs[h].created
          /\ \A e \in Deliveries : delivery[e].run = runs[h].created => e = d
    BY <1>1 DEF RunStateInv, Held
  <2>2. runs[h].created # 0
    BY <1>1 DEF RunStateInv, TypeOK, Row
  <2>3. d \in LetIn(h)
    BY <1>1, <2>1, <2>2 DEF ClaimInv, ClaimsHold, LetIn
  <2>4. ASSUME NEW e \in LetIn(h) \ {d}
        PROVE  \/ delivery[e].via \in {"conflict", "error"}
               \/ delivery[e].created < runs[h].created
    <3>1. delivery[e].via \in {"conflict", "error", "claim"} /\ delivery[e].head = h
      BY <1>1 DEF LetIn, RunStateInv, TypeOK, Delivery
    <3>2. delivery[e].run # runs[h].created
      BY <2>1 DEF LetIn
    <3> QED
      BY <1>1, <3>1, <3>2 DEF ClaimInv, ClaimsAreOlder, ClaimOf, LetIn
  <2> QED
    BY <2>1, <2>3, <2>4
<1>2. Spec => []ClaimInv
  BY RunStateInvAlways, ClaimInvInit, ClaimInvNext, PTL DEF Spec
<1> QED
  BY <1>1, <1>2, RunStateInvAlways, PTL

\* A claim that inserts a run leaves none pending that it saw pending.
THEOREM ClaimsSupersede == Spec => ClaimSupersedesPrior
<1>1. ASSUME RunStateInv, [Next]_vars, NEW d \in Deliveries,
             delivery[d].step = "inserting", delivery'[d].via = "claim",
             NEW g \in DOMAIN runs', runs'[g].created \in delivery[d].seen
      PROVE  runs'[g].status # "pending"
  <2>1. delivery[d].via = "none"
    BY <1>1 DEF RunStateInv, Headed, InTransaction
  <2>2. Insert(d)
    <3>1. delivery'[d] # delivery[d]
      BY <1>1, <2>1
    <3>2. delivery \in [Deliveries -> Delivery]
      BY <1>1 DEF RunStateInv, TypeOK
    <3>3. \E e \in Deliveries :
            \/ \E h \in Heads : Begin(e, h)
            \/ Reclaim(e) \/ SupersedeStarts(e) \/ Supersede(e) \/ Insert(e)
            \/ InsertConflicts(e) \/ FailsOpen(e) \/ LookUpLast(e)
            \/ CompleteRun(e) \/ Stops(e)
      BY <1>1, <3>1 DEF Next, vars, Age, Purge
    <3>4. PICK e \in Deliveries :
            \/ \E h \in Heads : Begin(e, h)
            \/ Reclaim(e) \/ SupersedeStarts(e) \/ Supersede(e) \/ Insert(e)
            \/ InsertConflicts(e) \/ FailsOpen(e) \/ LookUpLast(e)
            \/ CompleteRun(e) \/ Stops(e)
      BY <3>3
    <3>5. \A f \in Deliveries \ {e} : delivery'[f] = delivery[f]
      BY <3>2, <3>4 DEF Begin, Reclaim, SupersedeStarts, Supersede, Insert,
           InsertConflicts, FailsOpen, LookUpLast, CompleteRun, Stops, EndTransaction
    <3>6. e = d
      BY <3>1, <3>5
    <3>7. ~Supersede(d) /\ ~CompleteRun(d) /\ ~LookUpLast(d) /\ ~Reclaim(d)
          /\ ~SupersedeStarts(d) /\ \A h \in Heads : ~Begin(d, h)
      BY <1>1 DEF Supersede, CompleteRun, LookUpLast, Reclaim, SupersedeStarts, Begin
    <3>8. ~InsertConflicts(d) /\ ~FailsOpen(d)
      <4>1. TypeOK /\ 0 \in 0..Cardinality(Deliveries)
        BY <1>1, CountType DEF RunStateInv
      <4>2. \A via \in {"conflict", "error"} : ~EndTransaction(d, "reviewing", via, 0)
        BY <1>1, <4>1, EndTransactionMoves
      <4> QED
        BY <4>2 DEF InsertConflicts, FailsOpen
    <3>9. ~Stops(d)
      <4>1. Stops(d) => delivery'[d].via = delivery[d].via
        BY <3>2 DEF Stops, Delivery
      <4> QED
        BY <1>1, <2>1, <4>1
    <3> QED
      BY <3>4, <3>6, <3>7, <3>8, <3>9
  <2>3. delivery[d].created \notin delivery[d].seen
    BY <1>1 DEF RunStateInv, Unused, InTransaction
  <2>4. CASE g = delivery[d].head
    BY <1>1, <2>2, <2>3, <2>4 DEF Insert, NewRun
  <2>5. CASE g # delivery[d].head
    <3>1. g \in DOMAIN runs /\ runs[g] \in Row
      BY <1>1, <2>2, <2>5 DEF Insert, RunStateInv, TypeOK
    <3>2. runs'[g] = IF g \in delivery[d].locked
                     THEN [runs[g] EXCEPT !.status = "superseded"]
                     ELSE runs[g]
      BY <2>2, <2>5, <3>1 DEF Insert
    <3>3. CASE g \in delivery[d].locked
      BY <3>1, <3>2, <3>3 DEF Row
    <3>4. CASE g \notin delivery[d].locked
      <4>1. runs'[g] = runs[g]
        BY <3>2, <3>4
      <4> QED
        BY <1>1, <3>1, <3>4, <4>1 DEF RunStateInv, SeenAreCaught
    <3> QED
      BY <3>3, <3>4
  <2> QED
    BY <2>4, <2>5
<1>2. ASSUME RunStateInv, [Next]_vars
      PROVE  [\A d \in Deliveries :
                (/\ delivery[d].step = "inserting"
                 /\ delivery'[d].via = "claim")
                => \A g \in DOMAIN runs' :
                     runs'[g].created \in delivery[d].seen
                       => runs'[g].status # "pending"]_vars
  BY <1>1, <1>2
<1> QED
  BY <1>2, RunStateInvAlways, PTL DEF Spec, ClaimSupersedesPrior

\* A run that is no longer pending never is again.
THEOREM SettledRunsStaySettled == Spec => NeverPendingAgain
<1>1. ASSUME RunStateInv, [Next]_vars, NEW h \in DOMAIN runs, h \in DOMAIN runs',
             runs'[h].created = runs[h].created,
             runs[h].status # "pending"
      PROVE  runs'[h].status # "pending"
  <2>1. runs[h] \in Row
    BY <1>1 DEF RunStateInv, TypeOK
  <2>2. CASE runs' = runs
    BY <1>1, <2>2
  <2>3. ASSUME NEW d \in Deliveries, Reclaim(d), runs' # runs
        PROVE  runs'[h].status # "pending"
    <3>1. /\ Reclaimable(delivery[d].head)
          /\ runs' = [runs EXCEPT ![delivery[d].head].status = "pending"]
      BY <2>3 DEF Reclaim
    <3>2. h # delivery[d].head
      BY <1>1, <3>1 DEF Reclaimable
    <3> QED
      BY <1>1, <3>1, <3>2
  <2>4. ASSUME NEW d \in Deliveries, Insert(d)
        PROVE  runs'[h].status # "pending"
    <3>1. h # delivery[d].head
      BY <2>4 DEF Insert
    <3>2. runs'[h] \in {runs[h], [runs[h] EXCEPT !.status = "superseded"]}
      BY <2>4, <3>1 DEF Insert
    <3> QED
      BY <1>1, <2>1, <3>2 DEF Row
  <2>5. ASSUME NEW d \in Deliveries, CompleteRun(d)
        PROVE  runs'[h].status # "pending"
    <3>1. runs'[h] \in {runs[h], [runs[h] EXCEPT !.status = "completed"]}
      BY <2>5 DEF CompleteRun
    <3> QED
      BY <1>1, <2>1, <3>1 DEF Row
  <2>6. ASSUME NEW g \in Heads, Age(g)
        PROVE  runs'[h].status # "pending"
    <3>1. runs'[h] \in {runs[h], [runs[h] EXCEPT !.age = @ + 1]}
      BY <2>6 DEF Age
    <3> QED
      BY <1>1, <2>1, <3>1 DEF Row
  <2>7. ASSUME NEW status \in {"completed", "superseded", "pending"}, Purge(status)
        PROVE  runs'[h].status # "pending"
    BY <1>1, <2>7 DEF Purge
  <2>8. ASSUME NEW d \in Deliveries, NEW g \in Heads,
               Begin(d, g) \/ SupersedeStarts(d) \/ Supersede(d) \/ InsertConflicts(d)
                 \/ FailsOpen(d) \/ LookUpLast(d) \/ Stops(d)
        PROVE  runs' = runs
    BY <2>8 DEF Begin, SupersedeStarts, Supersede, InsertConflicts, FailsOpen,
         LookUpLast, Stops
  <2>9. ASSUME NEW d \in Deliveries,
               SupersedeStarts(d) \/ Supersede(d) \/ InsertConflicts(d)
                 \/ FailsOpen(d) \/ LookUpLast(d) \/ Stops(d)
        PROVE  runs' = runs
    BY <2>9 DEF SupersedeStarts, Supersede, InsertConflicts, FailsOpen,
         LookUpLast, Stops
  <2> QED
    BY <1>1, <2>2, <2>3, <2>4, <2>5, <2>6, <2>7, <2>8, <2>9 DEF Next, vars
<1>2. ASSUME RunStateInv, [Next]_vars
      PROVE  [\A h \in DOMAIN runs \cap DOMAIN runs' :
                (/\ runs'[h].created = runs[h].created
                 /\ runs[h].status # "pending")
                => runs'[h].status # "pending"]_vars
  BY <1>1, <1>2
<1> QED
  BY <1>2, RunStateInvAlways, PTL DEF Spec, NeverPendingAgain
=============================================================================
