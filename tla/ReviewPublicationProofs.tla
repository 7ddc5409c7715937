----------------------- MODULE ReviewPublicationProofs -----------------------
(***************************************************************************)
(* Proofs about what the reviews of one head put on GitHub, for any        *)
(* reviews, in any lanes, with any number of tool calls.  What a review    *)
(* has read, however long ago, still bears out what it is about to write.  *)
(***************************************************************************)
EXTENDS ReviewPublication, WellFoundedInduction, TLAPS

Output == [kind : Kinds, verdict : Verdicts, marked : BOOLEAN, by : Reviews,
           via : {"tool", "handler"}, writer : Reviews \cup {NoReview},
           early : BOOLEAN, replay : BOOLEAN, noted : BOOLEAN]
CallRecord == [tool : Tools \cup {"none"}, late : BOOLEAN, replay : BOOLEAN,
               step : {"posting", "accepted", "ended"}]
Memory == [posted : BOOLEAN, gate : {"unresolved", "publish", "skip"},
           published : BOOLEAN]

Types ==
  /\ run \in [Reviews -> Run]
  /\ calls \in [Reviews -> Seq(CallRecord)]
  /\ memory \in [Reviews -> Memory]
  /\ outputs \in Seq(Output)

\* The agent of the review has not returned, or never will.
AgentStages == {"idle", "gating", "running"}

By(e) == \E i \in DOMAIN outputs : outputs[i].by = e

\* No surface of the kinds in K was there when e started.
NoneBefore(e, K) == \A i \in Marked : outputs[i].kind \in K => i > run[e].from

\* A body that a handler may write, or write back.
TextFits(t) ==
  /\ t.verdict = "approve" /\ t.writer \in Reviews => MayApprove(t.writer)
  /\ t.writer \in Reviews => run[t.writer].stage \notin AgentStages

OutputFits(i) ==
  LET o == outputs[i] IN
  /\ TextFits(o)
  /\ o.marked => o.verdict \in {"approve", "findings"}
  /\ o.via = "tool" => o.marked
  /\ o.replay => o.kind = "pull_review"
  /\ run[o.by].stage # "idle"
  /\ o.verdict = "publish-failure" => run[o.by].stage \in {"closing", "done"}

\* Where a review stands says what it is about to write.
StageFits(e) ==
  LET r == run[e] IN
  /\ r.stage \in AgentStages => ~r.found
  /\ r.stage = "gating" => r.lane = "automatic"
  /\ r.lane = "quiet" => r.stage \in {"idle", "running", "done"}
  /\ r.stage = "ensuring" => r.verdict = "approve" /\ (r.found => r.refused)
  /\ r.stage \in {"presenting", "writing", "sent", "accepted"} =>
       r.verdict \in {"approve", "findings"}
  /\ r.stage = "replying" => r.verdict \in {"reply", "error", "publish-failure"}

\* What it has read before still bears out what it is about to write.
RunFits(e) ==
  LET r == run[e] IN
  /\ r.from <= Len(outputs)
  /\ r.target \in {0} \cup Marked
  /\ r.stage = "idle" => calls[e] = << >> /\ memory[e] = Forgotten
  /\ r.stage \in {"presenting", "writing", "sent"} /\ r.verdict = "approve" =>
       MayApprove(e)
  /\ r.stage \in {"writing", "sent"} /\ r.target = 0 =>
       NoneBefore(e, {KindOf(r.verdict)})
  /\ r.stage \in {"accepted", "noting"} => Marked # {}
  /\ r.stage = "noting" => /\ r.target # 0
                           /\ r.stale.verdict \in {"approve", "findings"}
                           /\ TextFits(r.stale)
  /\ r.stage = "replying" /\ r.verdict = "publish-failure" /\ ~r.blind =>
       ~\E j \in Marked : outputs[j].by = e /\ outputs[j].via = "handler"

\* So does what its agent's calls have read.
CallFits(e, call) ==
  /\ call.step = "posting" => /\ call.tool \in Tools
                              /\ NoneBefore(e, Kinds)
                              /\ call.replay => call.tool = "approve"
  /\ call.step = "accepted" => By(e)

CallsFit(e) ==
  /\ memory[e].gate = "publish" => NoneBefore(e, Kinds)
  /\ memory[e].published => By(e)
  /\ \A i \in DOMAIN calls[e] : CallFits(e, calls[e][i])

\* NoSilentSuccess of one review.
Heard(e) ==
  run[e].lane = "explicit" /\ run[e].stage \in {"closing", "done"} =>
    run[e].refused \/ run[e].failed \/ OutputExists \/ By(e)

PublicationInv ==
  /\ Types
  /\ \A i \in DOMAIN outputs : OutputFits(i)
  /\ \A e \in Reviews : StageFits(e) /\ RunFits(e) /\ CallsFit(e) /\ Heard(e)
  /\ EarlierSurfaceIsReused
  /\ NoFailureNoticeBesideVerdict

-----------------------------------------------------------------------------
(* What a step of one review leaves to the others *)

\* An output keeps what it was created with.
SameOutput(i) ==
  /\ outputs'[i].kind = outputs[i].kind /\ outputs'[i].marked = outputs[i].marked
  /\ outputs'[i].by = outputs[i].by /\ outputs'[i].via = outputs[i].via
  /\ outputs'[i].early = outputs[i].early /\ outputs'[i].replay = outputs[i].replay

SameText(i) == /\ outputs'[i].verdict = outputs[i].verdict
               /\ outputs'[i].writer = outputs[i].writer

\* A review does not go back to its agent, nor take back what it remembers.
Moves(e) ==
  /\ run[e].stage # "idle" => /\ run'[e].stage # "idle"
                              /\ run'[e].from = run[e].from
  /\ run[e].stage \notin AgentStages => /\ run'[e].stage \notin AgentStages
                                        /\ run'[e].found = run[e].found
                                        /\ run[e].refused => run'[e].refused
  /\ run[e].stage \in {"closing", "done"} => /\ run'[e].stage \in {"closing", "done"}
                                             /\ run'[e].blind = run[e].blind

StepOf(e) ==
  /\ \A w \in Reviews \ {e} : /\ run'[w] = run[w]
                              /\ calls'[w] = calls[w]
                              /\ memory'[w] = memory[w]
  /\ Moves(e)
  /\ Len(outputs') \in {Len(outputs), Len(outputs) + 1}
  /\ \A i \in DOMAIN outputs : SameOutput(i)
  /\ \A i \in DOMAIN outputs' \ DOMAIN outputs :
       /\ outputs'[i].by = e /\ run[e].stage # "idle"
       /\ outputs'[i].via = "tool" /\ outputs'[i].early => run[e].stage = "running"

LEMMA OutputsAreSeq ==
  ASSUME Types
  PROVE  /\ Len(outputs) \in Nat /\ DOMAIN outputs = 1..Len(outputs)
         /\ \A i \in DOMAIN outputs : outputs[i] \in Output
<1> QED
  BY DEF Types

LEMMA OutputsGrow ==
  ASSUME Types, Types', NEW e \in Reviews, StepOf(e)
  PROVE  /\ Len(outputs) <= Len(outputs')
         /\ DOMAIN outputs \subseteq DOMAIN outputs'
         /\ \A i \in DOMAIN outputs' : \A j \in 1..(i - 1) : j \in DOMAIN outputs
<1> PICK n : n = Len(outputs)
  OBVIOUS
<1> PICK m : m = Len(outputs')
  OBVIOUS
<1>1. n \in Nat /\ m \in Nat /\ DOMAIN outputs = 1..n /\ DOMAIN outputs' = 1..m
  BY DEF Types
<1>2. m = n \/ m = n + 1
  BY DEF StepOf
<1>3. n <= m /\ 1..n \subseteq 1..m
  BY <1>1, <1>2
<1>4. \A i \in 1..m : \A j \in 1..(i - 1) : j \in 1..n
  BY <1>1, <1>2
<1> QED
  BY <1>1, <1>3, <1>4

\* What was read of the outputs stays so.
LEMMA ReadingsStay ==
  ASSUME Types, Types', NEW e \in Reviews, StepOf(e)
  PROVE  /\ DOMAIN outputs \subseteq DOMAIN outputs'
         /\ Marked \subseteq Marked'
         /\ \A m \in Marked' : m \in Marked \/ m > Len(outputs)
         /\ \A w : By(w) => By(w)'
         /\ \A w \in Reviews : \A K :
              /\ NoneBefore(w, K) /\ run[w].from <= Len(outputs)
              /\ run'[w].from = run[w].from
              => NoneBefore(w, K)'
         /\ \A w \in Reviews :
              run[w].stage \notin AgentStages /\ MayApprove(w) => MayApprove(w)'
<1>1. /\ Len(outputs) \in Nat /\ DOMAIN outputs = 1..Len(outputs)
      /\ Len(outputs') \in Nat /\ DOMAIN outputs' = 1..Len(outputs')
  BY OutputsAreSeq DEF Types
<1>2. DOMAIN outputs \subseteq DOMAIN outputs'
  BY OutputsGrow
<1>3. \A i \in DOMAIN outputs' : i \in DOMAIN outputs \/ i > Len(outputs)
  BY <1>1
<1>4. Marked \subseteq Marked' /\ \A m \in Marked' : m \in Marked \/ m > Len(outputs)
  BY <1>2, <1>3 DEF StepOf, SameOutput, Marked
<1>5. \A w : By(w) => By(w)'
  BY <1>2 DEF By, StepOf, SameOutput
<1>6. ASSUME NEW w \in Reviews, NEW K, NoneBefore(w, K), run[w].from <= Len(outputs),
             run'[w].from = run[w].from
      PROVE  NoneBefore(w, K)'
  <2>1. run[w].from \in Nat
    BY DEF Types, Run
  <2> SUFFICES ASSUME NEW m \in Marked', outputs'[m].kind \in K
               PROVE  m > run[w].from
    BY <1>6 DEF NoneBefore
  <2>2. CASE m \in Marked
    BY <1>6, <2>2 DEF NoneBefore, StepOf, SameOutput, Marked
  <2>3. CASE m > Len(outputs)
    BY <1>1, <1>6, <2>1, <2>3 DEF Marked
  <2> QED
    BY <1>4, <2>2, <2>3
<1>7. ASSUME NEW w \in Reviews, run[w].stage \notin AgentStages, MayApprove(w)
      PROVE  MayApprove(w)'
  <2>1. run'[w].found = run[w].found /\ (run[w].refused => run'[w].refused)
    BY <1>7 DEF StepOf, Moves
  <2>2. ASSUME NEW j \in DOMAIN outputs', outputs'[j].by = w, outputs'[j].via = "tool",
               outputs'[j].early
        PROVE  FALSE
    <3>1. CASE j \in DOMAIN outputs
      BY <1>7, <2>2, <3>1 DEF StepOf, SameOutput, MayApprove
    <3>2. CASE j \notin DOMAIN outputs
      <4>1. run[w].stage = "running"
        BY <2>2, <3>2 DEF StepOf
      <4> QED
        BY <1>7, <4>1 DEF AgentStages
    <3> QED
      BY <3>1, <3>2
  <2> QED
    BY <1>7, <2>1, <2>2 DEF MayApprove
<1> QED
  BY <1>2, <1>4, <1>5, <1>6, <1>7

LEMMA TextFitsStays ==
  ASSUME Types, Types', NEW e \in Reviews, StepOf(e), NEW t, TextFits(t)
  PROVE  TextFits(t)'
<1> SUFFICES ASSUME t.writer \in Reviews
             PROVE  /\ t.verdict = "approve" => MayApprove(t.writer)'
                    /\ run'[t.writer].stage \notin AgentStages
  BY DEF TextFits
<1>1. /\ run[t.writer].stage \notin AgentStages
      /\ t.verdict = "approve" => MayApprove(t.writer)
  BY DEF TextFits
<1>2. run'[t.writer].stage \notin AgentStages
  BY <1>1 DEF StepOf, Moves
<1> QED
  BY <1>1, <1>2, ReadingsStay

\* What e leaves of the others' readings, and has to see to itself.
LEMMA Frame ==
  ASSUME PublicationInv, Types', NEW e \in Reviews, StepOf(e),
         \A i \in DOMAIN outputs :
           SameText(i) \/ (OutputFits(i)' /\ outputs'[i].verdict # "publish-failure"),
         \A i \in DOMAIN outputs' \ DOMAIN outputs :
           /\ OutputFits(i)'
           /\ outputs'[i].marked => NoneBefore(e, {outputs'[i].kind})
           /\ outputs'[i].verdict = "publish-failure" /\ ~run'[e].blind =>
                ~\E j \in Marked : outputs[j].by = e /\ outputs[j].via = "handler",
         StageFits(e)', RunFits(e)', CallsFit(e)', Heard(e)'
  PROVE  PublicationInv'
<1>1. /\ Types
      /\ \A i \in DOMAIN outputs : OutputFits(i)
      /\ \A w \in Reviews : StageFits(w) /\ RunFits(w) /\ CallsFit(w) /\ Heard(w)
      /\ EarlierSurfaceIsReused
      /\ NoFailureNoticeBesideVerdict
  BY DEF PublicationInv
<1>2. /\ Len(outputs) \in Nat /\ DOMAIN outputs = 1..Len(outputs)
      /\ Len(outputs') \in Nat /\ DOMAIN outputs' = 1..Len(outputs')
      /\ \A i \in DOMAIN outputs : outputs[i].by \in Reviews
      /\ \A i \in DOMAIN outputs' : outputs'[i].by \in Reviews
  <2>1. outputs \in Seq(Output) /\ outputs' \in Seq(Output)
    BY <1>1 DEF Types
  <2>2. \A o \in Output : o.by \in Reviews
    BY DEF Output
  <2> QED
    BY <2>1, <2>2
<1>3. /\ DOMAIN outputs \subseteq DOMAIN outputs'
      /\ Marked \subseteq Marked'
      /\ \A m \in Marked' : m \in Marked \/ m > Len(outputs)
      /\ \A w : By(w) => By(w)'
      /\ \A w \in Reviews : \A K :
           /\ NoneBefore(w, K) /\ run[w].from <= Len(outputs)
           /\ run'[w].from = run[w].from
           => NoneBefore(w, K)'
      /\ \A w \in Reviews :
           run[w].stage \notin AgentStages /\ MayApprove(w) => MayApprove(w)'
  BY <1>1, ReadingsStay
<1>4. /\ \A w \in Reviews \ {e} : /\ run'[w] = run[w]
                                  /\ calls'[w] = calls[w]
                                  /\ memory'[w] = memory[w]
      /\ \A i \in DOMAIN outputs : SameOutput(i)
      /\ \A i \in DOMAIN outputs' \ DOMAIN outputs :
           outputs'[i].by = e /\ run[e].stage # "idle"
      /\ Len(outputs') \in {Len(outputs), Len(outputs) + 1}
      /\ Moves(e)
  BY DEF StepOf
<1>5. \A w \in Reviews : /\ run[w].from \in Nat /\ run[w].from <= Len(outputs)
                         /\ run[w].stage # "idle" => /\ run'[w].stage # "idle"
                                                     /\ run'[w].from = run[w].from
                         /\ run[w].stage \in {"closing", "done"} =>
                              /\ run'[w].stage \in {"closing", "done"}
                              /\ run'[w].blind = run[w].blind
  BY <1>1, <1>4 DEF Moves, RunFits, Types, Run
<1>6. \A i \in DOMAIN outputs' : OutputFits(i)'
  <2> TAKE i \in DOMAIN outputs'
  <2>1. CASE i \in DOMAIN outputs /\ SameText(i)
    <3>1. OutputFits(i) /\ SameOutput(i)
      BY <1>1, <1>4, <2>1
    <3>2. TextFits(outputs[i])
      BY <3>1 DEF OutputFits
    <3> PICK t : t = outputs[i]
      OBVIOUS
    <3>3. TextFits(t)'
      BY <1>1, <3>2, TextFitsStays
    <3>4. TextFits(outputs[i])'
      BY <2>1, <3>3 DEF TextFits, SameText
    <3>5. run'[outputs[i].by].stage # "idle"
      BY <1>2, <1>5, <2>1, <3>1 DEF OutputFits
    <3>6. outputs[i].verdict = "publish-failure" =>
            run'[outputs[i].by].stage \in {"closing", "done"}
      BY <1>2, <1>5, <2>1, <3>1 DEF OutputFits
    <3> QED
      BY <2>1, <3>1, <3>4, <3>5, <3>6 DEF OutputFits, SameOutput, SameText
  <2>2. CASE ~(i \in DOMAIN outputs /\ SameText(i))
    BY <2>2
  <2> QED
    BY <2>1, <2>2
<1>7. ASSUME NEW w \in Reviews, w # e
      PROVE  (StageFits(w) /\ RunFits(w) /\ CallsFit(w) /\ Heard(w))'
  <2>1. /\ run'[w] = run[w] /\ calls'[w] = calls[w] /\ memory'[w] = memory[w]
        /\ StageFits(w) /\ RunFits(w) /\ CallsFit(w) /\ Heard(w)
    BY <1>1, <1>4, <1>7
  <2>2. StageFits(w)'
    BY <2>1 DEF StageFits
  <2>3. CallsFit(w)'
    BY <1>3, <1>5, <2>1 DEF CallsFit, CallFits
  <2>4. Heard(w)'
    BY <1>3, <2>1 DEF Heard, OutputExists
  <2>5. RunFits(w)'
    <3> PICK t : t = run[w].stale
      OBVIOUS
    <3>1. TextFits(t) => TextFits(t)'
      BY <1>1, TextFitsStays
    <3>2. run[w].stage \in {"presenting", "writing", "sent"} /\ run[w].verdict = "approve" =>
            MayApprove(w)'
      BY <1>3, <2>1 DEF RunFits, AgentStages
    <3>3. run[w].stage = "replying" /\ run[w].verdict = "publish-failure" /\ ~run[w].blind =>
            ~\E j \in Marked' : outputs'[j].by = w /\ outputs'[j].via = "handler"
      BY <1>4, <1>7, <2>1 DEF RunFits, SameOutput, Marked
    <3>4. run[w].stage \in {"writing", "sent"} /\ run[w].target = 0 =>
            NoneBefore(w, {KindOf(run[w].verdict)})'
      BY <1>3, <1>5, <2>1 DEF RunFits
    <3>5. run[w].stage = "noting" => TextFits(run[w].stale)'
      BY <2>1, <3>1 DEF RunFits, TextFits
    <3>6. /\ run[w].from <= Len(outputs')
          /\ run[w].target \in {0} \cup Marked'
          /\ run[w].stage \in {"accepted", "noting"} => Marked' # {}
      <4>1. Len(outputs) <= Len(outputs')
        BY <1>1, OutputsGrow
      <4>2. run[w].from <= Len(outputs')
        BY <1>2, <1>5, <4>1
      <4>3. run[w].target \in {0} \cup Marked
        BY <2>1 DEF RunFits
      <4>4. run[w].stage \in {"accepted", "noting"} => Marked # {}
        BY <2>1 DEF RunFits
      <4> QED
        BY <1>3, <4>2, <4>3, <4>4
    <3>7. /\ run[w].stage = "idle" => calls[w] = << >> /\ memory[w] = Forgotten
          /\ run[w].stage = "noting" =>
               /\ run[w].target # 0
               /\ run[w].stale.verdict \in {"approve", "findings"}
      BY <2>1 DEF RunFits
    <3> QED
      BY <2>1, <3>2, <3>3, <3>4, <3>5, <3>6, <3>7 DEF RunFits
  <2> QED
    BY <2>2, <2>3, <2>4, <2>5
<1>8. EarlierSurfaceIsReused'
  <2> SUFFICES ASSUME NEW i \in Marked', NEW j \in Marked',
                      outputs'[i].kind = outputs'[j].kind, i # j,
                      i <= run'[outputs'[j].by].from, j > run'[outputs'[j].by].from
               PROVE  FALSE
    BY DEF EarlierSurfaceIsReused
  <2> PICK w : w = outputs'[j].by
    OBVIOUS
  <2>1. w \in Reviews /\ run[w].stage # "idle" /\ (j \in DOMAIN outputs \/ w = e)
    <3>1. j \in DOMAIN outputs'
      BY DEF Marked
    <3>2. CASE j \in DOMAIN outputs
      <4>1. w = outputs[j].by /\ OutputFits(j)
        BY <1>1, <1>4, <3>2 DEF SameOutput
      <4> QED
        BY <1>2, <3>2, <4>1 DEF OutputFits
    <3>3. CASE j \notin DOMAIN outputs
      BY <1>4, <3>1, <3>3
    <3> QED
      BY <3>2, <3>3
  <2>2. run'[w].from = run[w].from /\ run[w].from \in Nat /\ run[w].from <= Len(outputs)
    BY <1>5, <2>1
  <2>3. i \in Nat /\ ~(i > Len(outputs))
    BY <1>2, <2>2 DEF Marked
  <2>4. i \in Marked
    BY <1>3, <2>3
  <2>5. CASE j \in DOMAIN outputs
    <3>1. /\ j \in Marked /\ outputs[j].by = w
          /\ outputs[i].kind = outputs[j].kind
      BY <1>4, <2>4, <2>5 DEF SameOutput, Marked
    <3> QED
      BY <1>1, <2>2, <2>4, <3>1 DEF EarlierSurfaceIsReused
  <2>6. CASE j \notin DOMAIN outputs
    <3>1. j \in DOMAIN outputs' \ DOMAIN outputs /\ outputs'[j].marked /\ w = e
      BY <2>1, <2>6 DEF Marked
    <3>2. NoneBefore(e, {outputs'[j].kind})
      BY <3>1
    <3>3. outputs[i].kind = outputs'[j].kind
      BY <1>4, <2>4 DEF SameOutput, Marked
    <3> QED
      BY <2>2, <2>3, <2>4, <3>1, <3>2, <3>3 DEF NoneBefore
  <2> QED
    BY <2>5, <2>6
<1>9. NoFailureNoticeBesideVerdict'
  <2> SUFFICES ASSUME NEW i \in DOMAIN outputs', outputs'[i].verdict = "publish-failure",
                      ~run'[outputs'[i].by].blind,
                      NEW j \in 1..(i - 1), outputs'[j].by = outputs'[i].by,
                      outputs'[j].via = "handler", outputs'[j].marked
               PROVE  FALSE
    BY DEF NoFailureNoticeBesideVerdict
  <2>1. j \in DOMAIN outputs
    BY <1>1, OutputsGrow
  <2>2. CASE i \in DOMAIN outputs
    <3>1. outputs[i].verdict = "publish-failure"
      BY <2>2 DEF SameText
    <3>2. run[outputs[i].by].stage \in {"closing", "done"} /\ outputs[i].by \in Reviews
      BY <1>1, <1>2, <2>2, <3>1 DEF OutputFits
    <3>3. ~run[outputs[i].by].blind
      BY <1>4, <1>5, <2>2, <3>2 DEF SameOutput
    <3> QED
      BY <1>1, <1>4, <2>1, <2>2, <3>1, <3>3 DEF NoFailureNoticeBesideVerdict, SameOutput
  <2>3. CASE i \notin DOMAIN outputs
    <3>1. i \in DOMAIN outputs' \ DOMAIN outputs
      BY <2>3
    <3>2. outputs'[i].by = e
      BY <1>4, <3>1
    <3>3. ~\E m \in Marked : outputs[m].by = e /\ outputs[m].via = "handler"
      BY <3>1, <3>2
    <3>4. /\ outputs[j].by = e /\ outputs[j].via = "handler" /\ outputs[j].marked
      BY <1>4, <2>1, <3>2 DEF SameOutput
    <3> QED
      BY <2>1, <3>3, <3>4 DEF Marked
  <2> QED
    BY <2>2, <2>3
<1> QED
  BY <1>6, <1>7, <1>8, <1>9 DEF PublicationInv

-----------------------------------------------------------------------------
(* Steps that write nothing *)

\* The review e moves on with what it has read, and GitHub stays as it is.
LEMMA Reads ==
  ASSUME PublicationInv, NEW e \in Reviews,
         UNCHANGED <<calls, outputs>>,
         memory' = memory \/ memory' = [memory EXCEPT ![e] = Forgotten],
         run' \in [Reviews -> Run], \A w \in Reviews \ {e} : run'[w] = run[w],
         Moves(e), run'[e].stage # "idle", run'[e].from = run[e].from,
         StageFits(e)', Heard(e)',
         run'[e].target \in {0} \cup Marked,
         run'[e].stage \in {"presenting", "writing", "sent"}
           /\ run'[e].verdict = "approve" => MayApprove(e)',
         run'[e].stage \in {"writing", "sent"} /\ run'[e].target = 0 =>
           NoneBefore(e, {KindOf(run'[e].verdict)}),
         run'[e].stage \in {"accepted", "noting"} => Marked # {},
         run'[e].stage = "noting" =>
           /\ run'[e].target # 0
           /\ run'[e].stale.verdict \in {"approve", "findings"}
           /\ TextFits(run'[e].stale),
         run'[e].stage = "replying" /\ run'[e].verdict = "publish-failure"
           /\ ~run'[e].blind =>
           ~\E j \in Marked : outputs[j].by = e /\ outputs[j].via = "handler"
  PROVE  PublicationInv'
<1>1. /\ Types
      /\ \A w \in Reviews : RunFits(w) /\ CallsFit(w)
  BY DEF PublicationInv
<1>2. Types'
  <2>1. Forgotten \in Memory
    BY DEF Forgotten, Memory
  <2>2. memory' \in [Reviews -> Memory]
    BY <1>1, <2>1 DEF Types
  <2> QED
    BY <1>1, <2>2 DEF Types
<1>3. \A w \in Reviews \ {e} : memory'[w] = memory[w]
  BY <1>1 DEF Types
<1>4. StepOf(e)
  BY <1>3 DEF StepOf, SameOutput
<1>5. Marked' = Marked /\ By(e)' = By(e)
  BY DEF Marked, By
<1>6. \A K : NoneBefore(e, K) => NoneBefore(e, K)'
  BY DEF NoneBefore, Marked
<1>7. CallsFit(e)'
  <2>1. CallsFit(e)
    BY <1>1
  <2>2. memory'[e] = memory[e] \/ memory'[e] = Forgotten
    BY <1>1 DEF Types
  <2>3. /\ memory'[e].gate = "publish" => memory[e].gate = "publish"
        /\ memory'[e].published => memory[e].published
    BY <2>2 DEF Forgotten
  <2> QED
    BY <1>5, <1>6, <2>1, <2>3 DEF CallsFit, CallFits
<1>8. RunFits(e)'
  <2>1. run'[e].from <= Len(outputs')
    BY <1>1 DEF RunFits
  <2> PICK k : k = KindOf(run'[e].verdict)
    OBVIOUS
  <2>2. run'[e].stage \in {"writing", "sent"} /\ run'[e].target = 0 =>
          NoneBefore(e, {KindOf(run[e].verdict)})'
    <3>1. KindOf(run[e].verdict)' = k
      BY DEF KindOf
    <3> QED
      BY <1>6, <3>1 DEF NoneBefore, Marked
  <2> PICK t : t = run'[e].stale
    OBVIOUS
  <2>3. run'[e].stage = "noting" => TextFits(run[e].stale)'
    <3>1. TextFits(t) => TextFits(t)'
      BY <1>1, <1>2, <1>4, TextFitsStays
    <3> QED
      BY <3>1 DEF TextFits
  <2>4. run'[e].stage = "replying" /\ run'[e].verdict = "publish-failure"
          /\ ~run'[e].blind =>
          ~\E j \in Marked' : outputs'[j].by = e /\ outputs'[j].via = "handler"
    BY <1>5
  <2> QED
    BY <1>5, <2>1, <2>2, <2>3, <2>4 DEF RunFits
<1>9. \A i \in DOMAIN outputs : SameText(i)
  BY DEF SameText
<1>10. DOMAIN outputs' \ DOMAIN outputs = {}
  OBVIOUS
<1> QED
  BY <1>2, <1>4, <1>7, <1>8, <1>9, <1>10, Frame

LEMMA LeastNat ==
  ASSUME NEW S, S \subseteq Nat, S # {}
  PROVE  \E x \in S : \A y \in S : x <= y
<1> DEFINE R == OpToRel(<, Nat)
<1>1. IsWellFoundedOn(R, Nat)
  BY NatLessThanWellFounded
<1>2. PICK x \in S : \A y \in S : ~(<<y, x>> \in R)
  BY <1>1, WFMin
<1>3. \A y \in S : ~(y < x)
  BY <1>2 DEF OpToRel
<1> QED
  BY <1>3

LEMMA GreatestBelow ==
  ASSUME NEW n \in Nat, NEW S \in SUBSET (0..n), S # {}
  PROVE  \E x \in S : \A y \in S : x >= y
<1> DEFINE T == {n - s : s \in S}
<1>1. T \subseteq Nat /\ T # {}
  <2>1. \A s \in S : n - s \in Nat
    OBVIOUS
  <2> QED
    BY <2>1
<1>2. PICK t \in T : \A u \in T : t <= u
  BY <1>1, LeastNat
<1>3. PICK x \in S : t = n - x
  BY <1>2
<1>4. \A y \in S : x >= y
  <2> TAKE y \in S
  <2>1. n - x <= n - y
    BY <1>2, <1>3
  <2>2. x \in 0..n /\ y \in 0..n
    OBVIOUS
  <2> QED
    BY <2>1, <2>2
<1> QED
  BY <1>4

\* The surface found is one of its kind, and is found if there is one.
LEMMA SurfaceFound ==
  ASSUME Types, NEW e, NEW kind
  PROVE  /\ SurfaceOf(e, kind) \in {0} \cup Marked
         /\ SurfaceOf(e, kind) = 0 => \A i \in Marked : outputs[i].kind # kind
         /\ SurfaceOf(e, kind) # 0 => outputs[SurfaceOf(e, kind)].kind = kind
<1> DEFINE S == {i \in Marked : outputs[i].kind = kind}
<1>1. S \subseteq Nat \ {0}
  BY OutputsAreSeq DEF Marked
<1>2. CASE S = {}
  <2>1. SurfaceOf(e, kind) = 0
    BY <1>2 DEF SurfaceOf
  <2> QED
    BY <1>2, <2>1
<1>3. CASE S # {}
  <2>1. CASE kind = "issue_comment"
    <3>1. \E x \in S : \A y \in S : x <= y
      BY <1>1, <1>3, LeastNat
    <3>2. Min(S) \in S
      BY <3>1 DEF Min
    <3>3. SurfaceOf(e, kind) = Min(S)
      BY <1>3, <2>1 DEF SurfaceOf
    <3> QED
      BY <1>1, <3>2, <3>3
  <2>2. CASE kind # "issue_comment"
    <3>1. \E x \in S : \A y \in S : x >= y
      <4>1. S \in SUBSET (0..Len(outputs)) /\ Len(outputs) \in Nat
        BY OutputsAreSeq DEF Marked
      <4> QED
        BY <1>3, <4>1, GreatestBelow
    <3>2. Max(S) \in S
      BY <3>1 DEF Max
    <3>3. SurfaceOf(e, kind) = Max(S)
      BY <1>3, <2>2 DEF SurfaceOf
    <3> QED
      BY <1>1, <3>2, <3>3
  <2> QED
    BY <2>1, <2>2
<1> QED
  BY <1>2, <1>3

LEMMA GotoFields ==
  ASSUME Types, NEW e \in Reviews, NEW s \in Stages, Goto(e, s)
  PROVE  /\ run' \in [Reviews -> Run] /\ \A w \in Reviews \ {e} : run'[w] = run[w]
         /\ run'[e] = [run[e] EXCEPT !.stage = s]
         /\ run'[e].stage = s /\ run'[e].lane = run[e].lane
         /\ run'[e].verdict = run[e].verdict /\ run'[e].found = run[e].found
         /\ run'[e].target = run[e].target /\ run'[e].stale = run[e].stale
         /\ run'[e].from = run[e].from /\ run'[e].refused = run[e].refused
         /\ run'[e].failed = run[e].failed /\ run'[e].blind = run[e].blind
<1>1. run \in [Reviews -> Run] /\ run[e] \in Run
  BY DEF Types
<1>2. run' = [run EXCEPT ![e] = [run[e] EXCEPT !.stage = s]]
  BY DEF Goto
<1>3. [run[e] EXCEPT !.stage = s] \in Run
  BY <1>1 DEF Run
<1> QED
  BY <1>1, <1>2, <1>3 DEF Run

\* What PublicationInv says of the review e.
LEMMA OfReview ==
  ASSUME PublicationInv, NEW e \in Reviews
  PROVE  /\ Types /\ run[e] \in Run
         /\ StageFits(e) /\ RunFits(e) /\ CallsFit(e) /\ Heard(e)
BY DEF PublicationInv, Types

LEMMA GateKeeps ==
  ASSUME PublicationInv, NEW e \in Reviews, Gate(e)
  PROVE  PublicationInv'
<1>1. Types /\ StageFits(e) /\ RunFits(e) /\ run[e].lane = "automatic"
  BY OfReview DEF Gate, StageFits
<1>2. PICK s \in {"running", "closing"} : Goto(e, s)
  BY DEF Gate
<1>3. /\ run' \in [Reviews -> Run] /\ \A w \in Reviews \ {e} : run'[w] = run[w]
      /\ run'[e].stage = s /\ run'[e].lane = "automatic"
      /\ run'[e].verdict = run[e].verdict /\ run'[e].found = run[e].found
      /\ run'[e].target = run[e].target /\ run'[e].from = run[e].from
      /\ run'[e].refused = run[e].refused /\ run'[e].blind = run[e].blind
  BY <1>1, <1>2, GotoFields DEF Stages
<1>4. Moves(e)
  BY <1>3 DEF Moves, Gate, AgentStages
<1>5. StageFits(e)'
  BY <1>1, <1>3 DEF StageFits, Gate, AgentStages
<1>6. Heard(e)'
  BY <1>3 DEF Heard
<1>7. UNCHANGED <<calls, outputs>> /\ memory' = memory
  BY DEF Gate
<1>8. run'[e].target \in {0} \cup Marked
  BY <1>1, <1>3 DEF RunFits
<1> QED
  BY <1>3, <1>4, <1>5, <1>6, <1>7, <1>8, Reads

\* A handler that ends has not lost what it wrote.
LEMMA EndKeeps ==
  ASSUME PublicationInv, NEW e \in Reviews, End(e)
  PROVE  PublicationInv'
<1>1. /\ Types /\ StageFits(e) /\ RunFits(e) /\ Heard(e) /\ run[e] \in Run
  BY OfReview
<1>2. /\ run' \in [Reviews -> Run] /\ \A w \in Reviews \ {e} : run'[w] = run[w]
      /\ run'[e].stage = "done" /\ run'[e].lane = run[e].lane
      /\ run'[e].found = run[e].found
      /\ run'[e].target = 0 /\ run'[e].from = run[e].from
      /\ run'[e].refused = run[e].refused /\ run'[e].blind = run[e].blind
      /\ run'[e].failed = run[e].failed
  BY <1>1 DEF End, Types, Run, Stages, Texts, NoText, NoReview
<1>3. Moves(e) /\ StageFits(e)'
  BY <1>2 DEF Moves, StageFits, End, AgentStages
<1>4. UNCHANGED <<calls, outputs>> /\ memory' = memory /\ run[e].stage = "closing"
  BY DEF End
<1>5. Heard(e)'
  BY <1>1, <1>2, <1>4 DEF Heard, OutputExists, Marked, By
<1> QED
  BY <1>2, <1>3, <1>4, <1>5, Reads

LEMMA QuietEndKeeps ==
  ASSUME PublicationInv, NEW e \in Reviews, QuietEnd(e)
  PROVE  PublicationInv'
<1>1. Types /\ StageFits(e) /\ RunFits(e) /\ run[e].lane = "quiet" /\ Goto(e, "done")
  BY OfReview DEF QuietEnd
<1>2. /\ run' \in [Reviews -> Run] /\ \A w \in Reviews \ {e} : run'[w] = run[w]
      /\ run'[e].stage = "done" /\ run'[e].lane = "quiet"
      /\ run'[e].found = run[e].found
      /\ run'[e].target = run[e].target /\ run'[e].from = run[e].from
      /\ run'[e].refused = run[e].refused /\ run'[e].blind = run[e].blind
  BY <1>1, GotoFields DEF Stages
<1>3. Moves(e) /\ StageFits(e)' /\ Heard(e)'
  BY <1>2 DEF Moves, StageFits, Heard, AgentStages
<1>4. UNCHANGED <<calls, outputs>> /\ memory' = memory
  BY DEF QuietEnd
<1>5. run'[e].target \in {0} \cup Marked
  BY <1>1, <1>2 DEF RunFits
<1> QED
  BY <1>2, <1>3, <1>4, <1>5, Reads

\* The agent returns, and the handler has its verdict to write or none.
LEMMA AgentDone ==
  ASSUME PublicationInv, NEW e \in Reviews, run[e].stage = "running",
         run[e].lane # "quiet", UNCHANGED <<calls, outputs>>,
         memory' = memory \/ memory' = [memory EXCEPT ![e] = Forgotten],
         NEW r \in Run, run' = [run EXCEPT ![e] = r],
         r.lane = run[e].lane, r.from = run[e].from, r.target = run[e].target,
         \/ r.stage = "closing" /\ By(e)
         \/ r.stage = "ensuring" /\ r.verdict = "approve" /\ ~r.found
         \/ r.stage = "presenting" /\ r.verdict = "findings"
         \/ r.stage = "replying" /\ r.verdict \in {"reply", "error"}
  PROVE  PublicationInv'
<1>1. /\ Types /\ StageFits(e) /\ RunFits(e)
  BY OfReview
<1>2. /\ run' \in [Reviews -> Run] /\ \A w \in Reviews \ {e} : run'[w] = run[w]
      /\ run'[e] = r
  BY <1>1 DEF Types
<1>3. Moves(e) /\ run'[e].stage # "idle" /\ run'[e].from = run[e].from
  BY <1>2 DEF Moves, AgentStages
<1>4. StageFits(e)'
  BY <1>2 DEF StageFits, AgentStages
<1>5. Heard(e)'
  BY <1>2 DEF Heard, By
<1>6. run'[e].target \in {0} \cup Marked
  BY <1>1, <1>2 DEF RunFits
<1>7. /\ ~(run'[e].stage \in {"writing", "sent", "accepted", "noting"})
      /\ ~(run'[e].stage = "presenting" /\ run'[e].verdict = "approve")
      /\ ~(run'[e].stage = "replying" /\ run'[e].verdict = "publish-failure")
  BY <1>2
<1> QED
  BY <1>2, <1>3, <1>4, <1>5, <1>6, <1>7, Reads

LEMMA AgentReturnsKeeps ==
  ASSUME PublicationInv, NEW e \in Reviews, AgentReturns(e)
  PROVE  PublicationInv'
<1> DEFINE said(s, v) == [run[e] EXCEPT !.stage = s, !.verdict = v]
           found == [run[e] EXCEPT !.stage = "presenting", !.verdict = "findings",
                                   !.found = TRUE]
           closed == [run[e] EXCEPT !.stage = "closing"]
<1>1. Types /\ StageFits(e) /\ run[e] \in Run /\ CallsFit(e)
  BY OfReview
<1>2. /\ run[e].stage = "running" /\ run[e].lane # "quiet"
      /\ UNCHANGED <<calls, outputs>>
      /\ memory' = memory \/ memory' = [memory EXCEPT ![e] = Forgotten]
  BY DEF AgentReturns, ExplicitSucceeds, ExplicitFails, AutomaticReturns
<1>3. ~run[e].found
  BY <1>1, <1>2 DEF StageFits, AgentStages
<1>4. /\ said("ensuring", "approve") \in Run /\ found \in Run /\ closed \in Run
      /\ said("replying", "reply") \in Run /\ said("replying", "error") \in Run
  BY <1>1 DEF Run, Stages, Verdicts
<1>5. \/ run' = [run EXCEPT ![e] = closed] /\ memory[e].published
      \/ run' = [run EXCEPT ![e] = said("ensuring", "approve")]
      \/ run' = [run EXCEPT ![e] = found]
      \/ run' = [run EXCEPT ![e] = said("replying", "reply")]
      \/ run' = [run EXCEPT ![e] = said("replying", "error")]
  BY DEF AgentReturns, ExplicitSucceeds, ExplicitFails, AutomaticReturns, Goto
<1>6. CASE run' = [run EXCEPT ![e] = closed] /\ memory[e].published
  <2>1. closed.stage = "closing" /\ By(e)
    BY <1>1, <1>6 DEF Run, CallsFit, CallFits
  <2>2. /\ closed.lane = run[e].lane /\ closed.from = run[e].from
        /\ closed.target = run[e].target
    BY <1>1 DEF Run
  <2> QED
    BY <1>2, <1>4, <1>6, <2>1, <2>2, AgentDone
<1>7. CASE run' = [run EXCEPT ![e] = found]
  <2>1. /\ found.stage = "presenting" /\ found.verdict = "findings"
        /\ found.lane = run[e].lane /\ found.from = run[e].from
        /\ found.target = run[e].target
    BY <1>1 DEF Run
  <2> QED
    BY <1>2, <1>4, <1>7, <2>1, AgentDone
<1>8. ASSUME NEW s \in {"ensuring", "replying"}, NEW v \in {"approve", "reply", "error"},
             run' = [run EXCEPT ![e] = said(s, v)], said(s, v) \in Run,
             s = "ensuring" <=> v = "approve"
      PROVE  PublicationInv'
  <2> PICK r : r = said(s, v)
    OBVIOUS
  <2>1. /\ r.stage = s /\ r.verdict = v /\ ~r.found
        /\ r.lane = run[e].lane /\ r.from = run[e].from
        /\ r.target = run[e].target
    BY <1>1, <1>3 DEF Run
  <2> QED
    BY <1>2, <1>8, <2>1, AgentDone
<1> QED
  BY <1>4, <1>5, <1>6, <1>7, <1>8

\* Nothing marked is on GitHub, so nothing of the agent is.
LEMMA EnsureKeeps ==
  ASSUME PublicationInv, NEW e \in Reviews, Ensure(e)
  PROVE  PublicationInv'
<1>1. /\ Types /\ StageFits(e) /\ RunFits(e) /\ run[e].stage = "ensuring"
      /\ \A i \in DOMAIN outputs : OutputFits(i)
  BY OfReview DEF Ensure, PublicationInv
<1>2. PICK s \in {"closing", "presenting"} :
         Goto(e, s) /\ (s = "closing" <=> OutputExists)
  BY DEF Ensure
<1>3. /\ run' \in [Reviews -> Run] /\ \A w \in Reviews \ {e} : run'[w] = run[w]
      /\ run'[e].stage = s /\ run'[e].lane = run[e].lane
      /\ run'[e].verdict = run[e].verdict /\ run'[e].found = run[e].found
      /\ run'[e].target = run[e].target /\ run'[e].from = run[e].from
      /\ run'[e].refused = run[e].refused /\ run'[e].blind = run[e].blind
  BY <1>1, <1>2, GotoFields DEF Stages
<1>4. Moves(e) /\ StageFits(e)'
  BY <1>1, <1>3 DEF Moves, StageFits, AgentStages
<1>5. UNCHANGED <<calls, outputs>> /\ memory' = memory
  BY DEF Ensure
<1>6. Heard(e)'
  BY <1>2, <1>3, <1>5 DEF Heard, OutputExists, Marked
<1>7. run'[e].target \in {0} \cup Marked
  BY <1>1, <1>3 DEF RunFits
<1>8. s = "presenting" => MayApprove(e)'
  <2>1. Marked = {} => ~\E j \in DOMAIN outputs : outputs[j].via = "tool"
    BY <1>1 DEF OutputFits, Marked
  <2>2. run'[e].found => run'[e].refused
    BY <1>1, <1>3 DEF StageFits
  <2> QED
    BY <1>2, <1>5, <2>1, <2>2 DEF MayApprove, OutputExists
<1> QED
  BY <1>3, <1>4, <1>5, <1>6, <1>7, <1>8, Reads

\* The handler leaves its verdict: it closes, checks again or replies.
LEMMA HandlerTurns ==
  ASSUME PublicationInv, NEW e \in Reviews,
         run[e].stage \notin AgentStages \cup {"closing", "done"},
         UNCHANGED <<calls, memory, outputs>>,
         NEW r \in Run, run' = [run EXCEPT ![e] = r],
         r.lane = run[e].lane, r.from = run[e].from, r.found = run[e].found,
         r.target = run[e].target, run[e].refused => r.refused,
         \/ /\ r.stage = "closing"
            /\ r.refused \/ r.failed \/ Marked # {} \/ r.lane # "explicit"
         \/ r.stage = "ensuring" /\ r.verdict = "approve" /\ r.refused
         \/ r.stage = "rechecking"
         \/ r.stage = "replying" /\ r.verdict \in {"reply", "error"}
         \/ /\ r.stage = "replying" /\ r.verdict = "publish-failure"
            /\ r.blind \/ Marked = {}
  PROVE  PublicationInv'
<1>1. /\ Types /\ StageFits(e) /\ RunFits(e)
  BY OfReview
<1>2. /\ run' \in [Reviews -> Run] /\ \A w \in Reviews \ {e} : run'[w] = run[w]
      /\ run'[e] = r
  BY <1>1 DEF Types
<1>3. Moves(e) /\ run'[e].stage # "idle" /\ run'[e].from = run[e].from
  BY <1>2 DEF Moves, AgentStages
<1>4. StageFits(e)'
  BY <1>1, <1>2 DEF StageFits, AgentStages
<1>5. Heard(e)'
  BY <1>2 DEF Heard, OutputExists, Marked
<1>6. run'[e].target \in {0} \cup Marked
  BY <1>1, <1>2 DEF RunFits
<1>7. ~(run'[e].stage \in {"presenting", "writing", "sent", "accepted", "noting"})
  BY <1>2
<1>8. run'[e].stage = "replying" /\ run'[e].verdict = "publish-failure"
        /\ ~run'[e].blind => Marked = {}
  BY <1>2
<1> QED
  BY <1>2, <1>3, <1>4, <1>5, <1>6, <1>7, <1>8, Reads

LEMMA RefusalKeeps ==
  ASSUME PublicationInv, NEW e \in Reviews, AfterRefusal(e),
         run[e].stage \in {"presenting", "writing"},
         UNCHANGED <<calls, memory, outputs>>
  PROVE  PublicationInv'
<1>1. Types /\ run[e] \in Run
  BY OfReview
<1> DEFINE turned(s, v) == [run[e] EXCEPT !.stage = s, !.verdict = v,
                                          !.refused = TRUE]
<1>2. \/ run' = [run EXCEPT ![e] = turned("replying", "reply")]
      \/ run' = [run EXCEPT ![e] = turned("ensuring", "approve")]
      \/ run' = [run EXCEPT ![e] = turned("closing", run[e].verdict)]
  <2>1. CASE run[e].lane = "explicit" /\ run[e].verdict = "approve"
    <3>1. run' = [run EXCEPT ![e].stage = "replying", ![e].verdict = "reply",
                             ![e].refused = TRUE]
      BY <2>1 DEF AfterRefusal
    <3> QED
      BY <1>1, <3>1 DEF Types
  <2>2. CASE run[e].lane = "automatic" /\ run[e].verdict = "findings"
    <3>1. run' = [run EXCEPT ![e].stage = "ensuring", ![e].verdict = "approve",
                             ![e].refused = TRUE]
      BY <2>2 DEF AfterRefusal
    <3> QED
      BY <1>1, <3>1 DEF Types
  <2>3. CASE /\ ~(run[e].lane = "explicit" /\ run[e].verdict = "approve")
             /\ ~(run[e].lane = "automatic" /\ run[e].verdict = "findings")
    <3>1. run' = [run EXCEPT ![e].stage = "closing", ![e].refused = TRUE]
      BY <2>3 DEF AfterRefusal
    <3>2. turned("closing", run[e].verdict)
            = [run[e] EXCEPT !.stage = "closing", !.refused = TRUE]
      BY <1>1 DEF Run
    <3> QED
      BY <1>1, <3>1, <3>2 DEF Types
  <2> QED
    BY <2>1, <2>2, <2>3
<1> PICK s, v : /\ run' = [run EXCEPT ![e] = turned(s, v)]
                /\ \/ s = "replying" /\ v = "reply"
                   \/ s = "ensuring" /\ v = "approve"
                   \/ s = "closing" /\ v = run[e].verdict
  BY <1>2
<1> PICK r : r = turned(s, v)
  OBVIOUS
<1>3. /\ r \in Run /\ r.stage = s /\ r.verdict = v /\ r.refused
      /\ r.lane = run[e].lane /\ r.from = run[e].from
      /\ r.found = run[e].found /\ r.target = run[e].target
  BY <1>1 DEF Run, Stages, Verdicts
<1>4. run[e].stage \notin AgentStages \cup {"closing", "done"}
  BY DEF AgentStages
<1> QED
  BY <1>3, <1>4, HandlerTurns

LEMMA ThrowKeeps ==
  ASSUME PublicationInv, NEW e \in Reviews, Throw(e)
  PROVE  PublicationInv'
<1>1. /\ Types /\ run[e] \in Run /\ StageFits(e)
      /\ run[e].stage \in {"ensuring", "writing", "sent", "accepted"}
      /\ UNCHANGED <<calls, memory, outputs>>
  BY OfReview DEF Throw
<1> DEFINE turned(s, v) == [run[e] EXCEPT !.stage = s, !.verdict = v]
<1>2. PICK s, v : /\ run' = [run EXCEPT ![e] = turned(s, v)]
                  /\ \/ s = "replying" /\ v = "error"
                     \/ s = "rechecking" /\ v = run[e].verdict
                     \/ s = "closing" /\ v = run[e].verdict
                        /\ run[e].lane # "explicit"
  <2>1. CASE run[e].verdict = "findings"
    <3>1. run' = [run EXCEPT ![e] = turned("replying", "error")]
      BY <2>1 DEF Throw
    <3> QED
      BY <3>1
  <2>2. CASE run[e].verdict # "findings"
    <3> PICK s : s = IF run[e].lane = "explicit" THEN "rechecking" ELSE "closing"
      OBVIOUS
    <3>1. run' = [run EXCEPT ![e] = [run[e] EXCEPT !.stage = s]]
      BY <2>2 DEF Throw, Goto
    <3>2. [run[e] EXCEPT !.stage = s] = turned(s, run[e].verdict)
      BY <1>1 DEF Run
    <3> QED
      BY <3>1, <3>2
  <2> QED
    BY <2>1, <2>2
<1> PICK r : r = turned(s, v)
  OBVIOUS
<1>3. /\ r \in Run /\ r.stage = s /\ r.verdict = v
      /\ r.lane = run[e].lane /\ r.from = run[e].from
      /\ r.found = run[e].found /\ r.target = run[e].target
      /\ r.refused = run[e].refused
  BY <1>1, <1>2 DEF Run, Stages, Verdicts
<1>4. run[e].stage \notin AgentStages \cup {"closing", "done"}
  BY <1>1 DEF AgentStages
<1> QED
  BY <1>1, <1>2, <1>3, <1>4, HandlerTurns

LEMMA RecheckKeeps ==
  ASSUME PublicationInv, NEW e \in Reviews, Recheck(e)
  PROVE  PublicationInv'
<1>1. /\ Types /\ run[e] \in Run /\ run[e].stage = "rechecking"
      /\ UNCHANGED <<calls, memory, outputs>>
      /\ run[e].stage \notin AgentStages \cup {"closing", "done"}
  BY OfReview DEF Recheck, AgentStages
<1>2. CASE OutputExists /\ Goto(e, "closing")
  <2> PICK r : r = [run[e] EXCEPT !.stage = "closing"]
    OBVIOUS
  <2>1. /\ r \in Run /\ r.stage = "closing" /\ run' = [run EXCEPT ![e] = r]
        /\ r.lane = run[e].lane /\ r.from = run[e].from
        /\ r.found = run[e].found /\ r.target = run[e].target
        /\ r.refused = run[e].refused /\ Marked # {}
    BY <1>1, <1>2 DEF Run, Stages, Goto, OutputExists
  <2> QED
    BY <1>1, <2>1, HandlerTurns
<1>3. ASSUME NEW blind \in BOOLEAN, ~OutputExists \/ blind,
             run' = [run EXCEPT ![e].stage = "replying",
                                ![e].verdict = "publish-failure",
                                ![e].blind = blind]
      PROVE  PublicationInv'
  <2> PICK r : r = [run[e] EXCEPT !.stage = "replying",
                                  !.verdict = "publish-failure", !.blind = blind]
    OBVIOUS
  <2>1. /\ r \in Run /\ r.stage = "replying" /\ r.verdict = "publish-failure"
        /\ run' = [run EXCEPT ![e] = r]
        /\ r.lane = run[e].lane /\ r.from = run[e].from
        /\ r.found = run[e].found /\ r.target = run[e].target
        /\ r.refused = run[e].refused /\ r.blind = blind
    BY <1>1, <1>3 DEF Run, Stages, Verdicts
  <2>2. r.blind \/ Marked = {}
    BY <1>3, <2>1 DEF OutputExists
  <2> QED
    BY <1>1, <2>1, <2>2, HandlerTurns
<1> QED
  BY <1>2, <1>3 DEF Recheck

LEMMA ReplyRefusedKeeps ==
  ASSUME PublicationInv, NEW e \in Reviews, ReplyRefused(e)
  PROVE  PublicationInv'
<1>1. /\ Types /\ run[e] \in Run /\ run[e].stage = "replying"
      /\ UNCHANGED <<calls, memory, outputs>>
      /\ run[e].stage \notin AgentStages \cup {"closing", "done"}
  BY OfReview DEF ReplyRefused, AgentStages
<1> DEFINE turned(s, v) == [run[e] EXCEPT !.stage = s, !.verdict = v,
                                          !.refused = TRUE]
<1>2. PICK s, v : /\ run' = [run EXCEPT ![e] = turned(s, v)]
                  /\ \/ s = "replying" /\ v = "reply"
                     \/ s = "closing" /\ v = run[e].verdict
  <2>1. CASE run[e].verdict = "publish-failure"
    <3>1. run' = [run EXCEPT ![e] = turned("replying", "reply")]
      BY <1>1, <2>1 DEF ReplyRefused, Types, Run
    <3> QED
      BY <3>1
  <2>2. CASE run[e].verdict # "publish-failure"
    <3>1. run' = [run EXCEPT ![e] = turned("closing", run[e].verdict)]
      BY <1>1, <2>2 DEF ReplyRefused, Types, Run
    <3> QED
      BY <3>1
  <2> QED
    BY <2>1, <2>2
<1> PICK r : r = turned(s, v)
  OBVIOUS
<1>3. /\ r \in Run /\ r.stage = s /\ r.verdict = v /\ r.refused
      /\ r.lane = run[e].lane /\ r.from = run[e].from
      /\ r.found = run[e].found /\ r.target = run[e].target
  BY <1>1, <1>2 DEF Run, Stages, Verdicts
<1> QED
  BY <1>1, <1>2, <1>3, HandlerTurns

\* A surface that is not found when its handler looks is not there.
LEMMA PresentKeeps ==
  ASSUME PublicationInv, NEW e \in Reviews, Present(e)
  PROVE  PublicationInv'
<1>1. /\ Types /\ run[e] \in Run /\ StageFits(e) /\ RunFits(e)
      /\ run[e].stage = "presenting" /\ UNCHANGED <<calls, memory, outputs>>
  BY OfReview DEF Present
<1>2. CASE AfterRefusal(e)
  BY <1>1, <1>2, RefusalKeeps
<1>3. CASE run' = [run EXCEPT ![e].stage = "writing",
                     ![e].target = SurfaceOf(e, KindOf(run[e].verdict))]
  <2> PICK k : k = KindOf(run[e].verdict)
    OBVIOUS
  <2> PICK found : found = SurfaceOf(e, k)
    OBVIOUS
  <2>1. /\ found \in {0} \cup Marked
        /\ found = 0 => \A i \in Marked : outputs[i].kind # k
    BY <1>1, SurfaceFound
  <2>2. found \in Nat
    BY <1>1, <2>1, OutputsAreSeq DEF Marked
  <2>3. run' = [run EXCEPT ![e] = [run[e] EXCEPT !.stage = "writing", !.target = found]]
    BY <1>3
  <2>4. [run[e] EXCEPT !.stage = "writing", !.target = found] \in Run
    BY <1>1, <2>2 DEF Run, Stages
  <2>5. /\ run' \in [Reviews -> Run] /\ \A w \in Reviews \ {e} : run'[w] = run[w]
        /\ run'[e].stage = "writing" /\ run'[e].lane = run[e].lane
        /\ run'[e].verdict = run[e].verdict /\ run'[e].found = run[e].found
        /\ run'[e].target = found /\ run'[e].from = run[e].from
        /\ run'[e].refused = run[e].refused /\ run'[e].blind = run[e].blind
    BY <1>1, <2>3, <2>4 DEF Types, Run
  <2>6. Moves(e) /\ StageFits(e)' /\ Heard(e)'
    BY <1>1, <2>5 DEF Moves, StageFits, Heard, AgentStages
  <2>7. run'[e].verdict = "approve" => MayApprove(e)'
    BY <1>1, <2>5 DEF RunFits, MayApprove
  <2>8. found = 0 => NoneBefore(e, {k})
    BY <2>1 DEF NoneBefore
  <2>9. KindOf(run'[e].verdict) = k
    BY <2>5
  <2>10. found = 0 => NoneBefore(e, {KindOf(run'[e].verdict)})
    BY <2>8, <2>9
  <2> QED
    BY <1>1, <2>1, <2>5, <2>6, <2>7, <2>10, Reads
<1> QED
  BY <1>2, <1>3 DEF Present

LEMMA SendKeeps ==
  ASSUME PublicationInv, NEW e \in Reviews, Send(e)
  PROVE  PublicationInv'
<1>1. /\ Types /\ StageFits(e) /\ RunFits(e)
      /\ run[e].stage = "writing" /\ UNCHANGED <<calls, memory, outputs>>
  BY OfReview DEF Send
<1>2. CASE AfterRefusal(e)
  BY <1>1, <1>2, RefusalKeeps
<1>3. CASE Goto(e, "sent")
  <2>1. /\ run' \in [Reviews -> Run] /\ \A w \in Reviews \ {e} : run'[w] = run[w]
        /\ run'[e].stage = "sent" /\ run'[e].lane = run[e].lane
        /\ run'[e].verdict = run[e].verdict /\ run'[e].found = run[e].found
        /\ run'[e].target = run[e].target /\ run'[e].from = run[e].from
        /\ run'[e].refused = run[e].refused /\ run'[e].blind = run[e].blind
    BY <1>1, <1>3, GotoFields DEF Stages
  <2>2. Moves(e) /\ StageFits(e)' /\ Heard(e)'
    BY <1>1, <2>1 DEF Moves, StageFits, Heard, AgentStages
  <2>3. run'[e].verdict = "approve" => MayApprove(e)'
    BY <1>1, <2>1 DEF RunFits, MayApprove
  <2>4. run'[e].target = 0 => NoneBefore(e, {KindOf(run'[e].verdict)})
    BY <1>1, <2>1 DEF RunFits
  <2>5. run'[e].target \in {0} \cup Marked
    BY <1>1, <2>1 DEF RunFits
  <2> QED
    BY <1>1, <2>1, <2>2, <2>3, <2>4, <2>5, Reads
<1> QED
  BY <1>2, <1>3 DEF Send

\* The body of the other surface was written by a handler that may write it.
LEMMA ReconcileKeeps ==
  ASSUME PublicationInv, NEW e \in Reviews, Reconcile(e)
  PROVE  PublicationInv'
<1>1. /\ Types /\ run[e] \in Run /\ StageFits(e) /\ RunFits(e)
      /\ run[e].stage = "accepted" /\ UNCHANGED <<calls, memory, outputs>>
      /\ run[e].stage \notin AgentStages \cup {"closing", "done"}
      /\ Marked # {}
  BY OfReview DEF Reconcile, AgentStages, RunFits
<1> PICK other : other = SurfaceOf(e, OtherKind(KindOf(run[e].verdict)))
  OBVIOUS
<1>2. CASE Goto(e, "closing")
  <2> PICK r : r = [run[e] EXCEPT !.stage = "closing"]
    OBVIOUS
  <2>1. /\ r \in Run /\ r.stage = "closing" /\ run' = [run EXCEPT ![e] = r]
        /\ r.lane = run[e].lane /\ r.from = run[e].from
        /\ r.found = run[e].found /\ r.target = run[e].target
        /\ r.refused = run[e].refused
    BY <1>1, <1>2 DEF Run, Stages, Goto
  <2> QED
    BY <1>1, <2>1, HandlerTurns
<1>3. CASE /\ other # 0
           /\ run' = [run EXCEPT ![e].stage = "noting", ![e].target = other,
                                 ![e].stale = TextOf(outputs[other])]
  <2>1. other \in Marked /\ other \in Nat
    BY <1>1, <1>3, SurfaceFound, OutputsAreSeq DEF Marked
  <2> PICK t : t = TextOf(outputs[other])
    OBVIOUS
  <2>2. OutputFits(other) /\ outputs[other] \in Output /\ outputs[other].marked
    BY <1>1, <2>1, OutputsAreSeq DEF PublicationInv, Marked
  <2>3. t.verdict = outputs[other].verdict /\ t.writer = outputs[other].writer
    BY DEF TextOf
  <2>4. TextFits(t) /\ t.verdict \in {"approve", "findings"}
    BY <2>2, <2>3 DEF OutputFits, TextFits
  <2>5. t \in Texts
    BY <2>2 DEF TextOf, Texts, Output
  <2>6. run' = [run EXCEPT ![e] = [run[e] EXCEPT !.stage = "noting",
                                     !.target = other, !.stale = t]]
    BY <1>3
  <2>7. [run[e] EXCEPT !.stage = "noting", !.target = other, !.stale = t] \in Run
    BY <1>1, <2>1, <2>5 DEF Run, Stages
  <2>8. /\ run' \in [Reviews -> Run] /\ \A w \in Reviews \ {e} : run'[w] = run[w]
        /\ run'[e].stage = "noting" /\ run'[e].lane = run[e].lane
        /\ run'[e].verdict = run[e].verdict /\ run'[e].found = run[e].found
        /\ run'[e].target = other /\ run'[e].from = run[e].from
        /\ run'[e].refused = run[e].refused /\ run'[e].blind = run[e].blind
        /\ run'[e].stale = t
    BY <1>1, <2>6, <2>7 DEF Types, Run
  <2>9. Moves(e) /\ StageFits(e)' /\ Heard(e)'
    BY <1>1, <2>8 DEF Moves, StageFits, Heard, AgentStages
  <2>10. /\ run'[e].target # 0 /\ run'[e].stale.verdict \in {"approve", "findings"}
         /\ TextFits(run'[e].stale) /\ run'[e].target \in {0} \cup Marked
    BY <1>3, <2>1, <2>4, <2>8
  <2> QED
    BY <1>1, <2>8, <2>9, <2>10, Reads
<1> QED
  BY <1>2, <1>3 DEF Reconcile

-----------------------------------------------------------------------------
(* Steps that write *)

\* A handler that may write a body may write it on a surface.
LEMMA Overwrites ==
  ASSUME PublicationInv, NEW e \in Reviews, UNCHANGED <<calls, memory>>,
         run[e].stage \notin AgentStages \cup {"closing", "done"},
         NEW s \in {"accepted", "closing"}, Goto(e, s),
         s = "accepted" => run[e].verdict \in {"approve", "findings"},
         NEW k \in Marked, NEW t \in Texts, NEW n \in BOOLEAN,
         t.verdict \in {"approve", "findings"}, TextFits(t),
         outputs' = [outputs EXCEPT ![k].verdict = t.verdict,
                                    ![k].writer = t.writer, ![k].noted = n]
  PROVE  PublicationInv'
<1>1. /\ Types /\ run[e] \in Run /\ StageFits(e) /\ RunFits(e) /\ CallsFit(e)
      /\ \A i \in DOMAIN outputs : OutputFits(i)
  BY OfReview DEF PublicationInv
<1>2. /\ run' \in [Reviews -> Run] /\ \A w \in Reviews \ {e} : run'[w] = run[w]
      /\ run'[e].stage = s /\ run'[e].lane = run[e].lane
      /\ run'[e].verdict = run[e].verdict /\ run'[e].found = run[e].found
      /\ run'[e].target = run[e].target /\ run'[e].from = run[e].from
      /\ run'[e].refused = run[e].refused /\ run'[e].blind = run[e].blind
  BY <1>1, GotoFields DEF Stages
<1>3. /\ outputs \in Seq(Output) /\ k \in DOMAIN outputs /\ outputs[k] \in Output
      /\ k \in 1..Len(outputs)
  BY <1>1, OutputsAreSeq DEF Types, Marked
<1> PICK o : o = [outputs[k] EXCEPT !.verdict = t.verdict, !.writer = t.writer,
                                    !.noted = n]
  OBVIOUS
<1>4. /\ o \in Output /\ o.verdict = t.verdict /\ o.writer = t.writer
      /\ o.kind = outputs[k].kind /\ o.marked = outputs[k].marked
      /\ o.by = outputs[k].by /\ o.via = outputs[k].via
      /\ o.early = outputs[k].early /\ o.replay = outputs[k].replay
  BY <1>3 DEF Output, Texts
<1>5. outputs' = [outputs EXCEPT ![k] = o]
  OBVIOUS
<1>6. /\ outputs' \in Seq(Output) /\ DOMAIN outputs' = DOMAIN outputs
      /\ Len(outputs') = Len(outputs) /\ outputs'[k] = o
      /\ \A i \in DOMAIN outputs \ {k} : outputs'[i] = outputs[i]
  BY <1>3, <1>4, <1>5
<1>7. Types'
  BY <1>1, <1>2, <1>6 DEF Types
<1>8. \A i \in DOMAIN outputs : SameOutput(i)
  BY <1>4, <1>6 DEF SameOutput
<1>9. Moves(e) /\ StageFits(e)'
  BY <1>1, <1>2 DEF Moves, StageFits, AgentStages
<1>10. StepOf(e)
  BY <1>2, <1>6, <1>8, <1>9 DEF StepOf
<1>11. /\ k \in Marked' /\ Marked \subseteq Marked' /\ (By(e) => By(e)')
       /\ \A K : NoneBefore(e, K) => NoneBefore(e, K)'
  BY <1>1, <1>2, <1>7, <1>10, ReadingsStay DEF RunFits
<1>12. OutputFits(k)' /\ outputs'[k].verdict # "publish-failure"
  <2>1. TextFits(t)'
    BY <1>1, <1>7, <1>10, TextFitsStays
  <2>2. TextFits(outputs[k])'
    BY <1>4, <1>6, <2>1 DEF TextFits
  <2>3. OutputFits(k) /\ outputs[k].by \in Reviews
    BY <1>1, <1>3 DEF Output
  <2>4. run'[outputs[k].by].stage # "idle"
    BY <1>2, <2>3 DEF OutputFits
  <2> QED
    BY <1>4, <1>6, <2>2, <2>3, <2>4 DEF OutputFits
<1>13. \A i \in DOMAIN outputs :
          SameText(i) \/ (OutputFits(i)' /\ outputs'[i].verdict # "publish-failure")
  BY <1>6, <1>12 DEF SameText
<1>14. CallsFit(e)'
  BY <1>1, <1>11 DEF CallsFit, CallFits
<1>15. Heard(e)'
  BY <1>11 DEF Heard, OutputExists
<1>16. RunFits(e)'
  <2>1. run'[e].from <= Len(outputs') /\ run'[e].target \in {0} \cup Marked'
    BY <1>1, <1>2, <1>6, <1>11 DEF RunFits
  <2> QED
    BY <1>2, <1>11, <2>1 DEF RunFits
<1>17. DOMAIN outputs' \ DOMAIN outputs = {}
  BY <1>6
<1> QED
  BY <1>7, <1>9, <1>10, <1>13, <1>14, <1>15, <1>16, <1>17, Frame

LEMMA NoteKeeps ==
  ASSUME PublicationInv, NEW e \in Reviews, Note(e)
  PROVE  PublicationInv'
<1>1. /\ Types /\ run[e] \in Run /\ RunFits(e) /\ run[e].stage = "noting"
      /\ UNCHANGED <<calls, memory>> /\ Goto(e, "closing")
      /\ run[e].stage \notin AgentStages \cup {"closing", "done"}
  BY OfReview DEF Note, AgentStages
<1>2. CASE UNCHANGED outputs
  <2> PICK r : r = [run[e] EXCEPT !.stage = "closing"]
    OBVIOUS
  <2>1. /\ r \in Run /\ r.stage = "closing" /\ run' = [run EXCEPT ![e] = r]
        /\ r.lane = run[e].lane /\ r.from = run[e].from
        /\ r.found = run[e].found /\ r.target = run[e].target
        /\ r.refused = run[e].refused
    BY <1>1 DEF Run, Stages, Goto
  <2>2. Marked # {}
    BY <1>1 DEF RunFits
  <2> QED
    BY <1>1, <1>2, <2>1, <2>2, HandlerTurns
<1>3. CASE outputs' = [outputs EXCEPT
                ![run[e].target].verdict = run[e].stale.verdict,
                ![run[e].target].writer = run[e].stale.writer,
                ![run[e].target].noted = TRUE]
  <2> PICK t : t = run[e].stale
    OBVIOUS
  <2> PICK k : k = run[e].target
    OBVIOUS
  <2>1. /\ k \in Marked /\ t \in Texts
        /\ t.verdict \in {"approve", "findings"} /\ TextFits(t)
    BY <1>1 DEF RunFits, Run
  <2>2. outputs' = [outputs EXCEPT ![k].verdict = t.verdict,
                                   ![k].writer = t.writer, ![k].noted = TRUE]
    BY <1>3
  <2> QED
    BY <1>1, <2>1, <2>2, Overwrites
<1> QED
  BY <1>2, <1>3 DEF Note

LEMMA Appended ==
  ASSUME Types, NEW o \in Output, outputs' = Append(outputs, o),
         NEW n, n = Len(outputs) + 1
  PROVE  /\ outputs' \in Seq(Output) /\ Len(outputs') = n
         /\ n \in Nat /\ n > Len(outputs)
         /\ DOMAIN outputs' = DOMAIN outputs \cup {n} /\ n \notin DOMAIN outputs
         /\ \A i \in DOMAIN outputs : outputs'[i] = outputs[i]
         /\ outputs'[n] = o
         /\ Marked \subseteq Marked'
         /\ Marked' \ {n} \subseteq Marked
         /\ n \in Marked' <=> o.marked
<1>1. outputs \in Seq(Output) /\ Len(outputs) \in Nat
      /\ DOMAIN outputs = 1..Len(outputs)
  BY OutputsAreSeq DEF Types
<1>2. /\ outputs' \in Seq(Output) /\ Len(outputs') = n /\ n \in Nat
      /\ DOMAIN outputs' = 1..n
  BY <1>1
<1>3. /\ \A i \in DOMAIN outputs : outputs'[i] = outputs[i]
      /\ outputs'[n] = o
  BY <1>1
<1>4. DOMAIN outputs' = DOMAIN outputs \cup {n} /\ n \notin DOMAIN outputs
  BY <1>1, <1>2
<1>5. Marked \subseteq Marked'
  BY <1>3, <1>4 DEF Marked
<1>6. Marked' \ {n} \subseteq Marked /\ (n \in Marked' <=> o.marked)
  BY <1>3, <1>4 DEF Marked
<1>7. n > Len(outputs)
  BY <1>1
<1> QED
  BY <1>2, <1>3, <1>4, <1>5, <1>6, <1>7

LEMMA HandlerPosts ==
  ASSUME PublicationInv, NEW e \in Reviews, UNCHANGED <<calls, memory>>,
         run[e].stage \notin AgentStages \cup {"closing", "done"},
         NEW o \in Output, outputs' = Append(outputs, o),
         o.by = e, o.via = "handler", o.writer = e, ~o.early, ~o.replay,
         o.verdict = "approve" => MayApprove(e),
         o.marked => /\ o.verdict \in {"approve", "findings"}
                     /\ NoneBefore(e, {o.kind}),
         NEW r \in Run, run' = [run EXCEPT ![e] = r],
         r.lane = run[e].lane, r.from = run[e].from, r.found = run[e].found,
         r.target = run[e].target, run[e].refused => r.refused,
         \/ /\ r.stage = "accepted" /\ o.marked
            /\ r.verdict \in {"approve", "findings"}
         \/ r.stage = "closing"
         \/ r.stage = "replying" /\ r.verdict \in {"reply", "error"},
         o.verdict = "publish-failure" =>
           /\ r.stage = "closing"
           /\ ~r.blind =>
                ~\E j \in Marked : outputs[j].by = e /\ outputs[j].via = "handler"
  PROVE  PublicationInv'
<1>1. /\ Types /\ StageFits(e) /\ RunFits(e) /\ CallsFit(e)
  BY OfReview
<1>2. /\ run' \in [Reviews -> Run] /\ \A w \in Reviews \ {e} : run'[w] = run[w]
      /\ run'[e] = r
  BY <1>1 DEF Types
<1> PICK n : n = Len(outputs) + 1
  OBVIOUS
<1>3. /\ outputs' \in Seq(Output) /\ Len(outputs') = n
      /\ n \in Nat /\ n > Len(outputs)
      /\ DOMAIN outputs' = DOMAIN outputs \cup {n} /\ n \notin DOMAIN outputs
      /\ \A i \in DOMAIN outputs : outputs'[i] = outputs[i]
      /\ outputs'[n] = o
      /\ Marked \subseteq Marked'
      /\ n \in Marked' <=> o.marked
  BY <1>1, Appended
<1>4. Types'
  BY <1>1, <1>2, <1>3 DEF Types
<1>5. Moves(e) /\ StageFits(e)'
  BY <1>1, <1>2 DEF Moves, StageFits, AgentStages
<1>6. StepOf(e)
  <2>1. \A i \in DOMAIN outputs : SameOutput(i)
    BY <1>3 DEF SameOutput
  <2>2. \A i \in DOMAIN outputs' \ DOMAIN outputs :
          /\ outputs'[i].by = e /\ run[e].stage # "idle"
          /\ outputs'[i].via = "tool" /\ outputs'[i].early => run[e].stage = "running"
    BY <1>3 DEF AgentStages
  <2>3. Len(outputs') \in {Len(outputs), Len(outputs) + 1}
    BY <1>3
  <2> QED
    BY <1>2, <1>5, <2>1, <2>2, <2>3 DEF StepOf
<1>7. /\ (By(e) => By(e)') /\ Len(outputs) <= Len(outputs')
      /\ \A K : NoneBefore(e, K) => NoneBefore(e, K)'
  BY <1>1, <1>2, <1>4, <1>6, ReadingsStay, OutputsGrow DEF RunFits
<1>8. By(e)'
  BY <1>3 DEF By
<1>9. OutputFits(n)'
  <2> PICK t : t = [verdict |-> o.verdict, writer |-> e]
    OBVIOUS
  <2>1. TextFits(t)
    BY DEF TextFits
  <2>2. TextFits(t)'
    BY <1>1, <1>4, <1>6, <2>1, TextFitsStays
  <2>3. TextFits(outputs[n])'
    BY <1>3, <2>2 DEF TextFits
  <2> QED
    BY <1>2, <1>3, <2>3 DEF OutputFits
<1>10. \A i \in DOMAIN outputs : SameText(i)
  BY <1>3 DEF SameText
<1>11. \A i \in DOMAIN outputs' \ DOMAIN outputs :
          /\ OutputFits(i)'
          /\ outputs'[i].marked => NoneBefore(e, {outputs'[i].kind})
          /\ outputs'[i].verdict = "publish-failure" /\ ~run'[e].blind =>
               ~\E j \in Marked : outputs[j].by = e /\ outputs[j].via = "handler"
  <2> TAKE i \in DOMAIN outputs' \ DOMAIN outputs
  <2>1. i = n /\ outputs'[i] = o
    BY <1>3
  <2>2. OutputFits(i)'
    BY <1>9, <2>1
  <2>3. outputs'[i].marked => NoneBefore(e, {outputs'[i].kind})
    BY <2>1
  <2>4. outputs'[i].verdict = "publish-failure" /\ ~run'[e].blind =>
          ~\E j \in Marked : outputs[j].by = e /\ outputs[j].via = "handler"
    BY <1>2, <2>1
  <2> QED
    BY <2>2, <2>3, <2>4
<1>12. CallsFit(e)'
  BY <1>1, <1>7 DEF CallsFit, CallFits
<1>13. Heard(e)'
  BY <1>8 DEF Heard
<1>14. RunFits(e)'
  <2>1. run'[e].target \in {0} \cup Marked'
    BY <1>1, <1>2, <1>3 DEF RunFits
  <2>2. Len(outputs) \in Nat /\ run[e].from \in Nat /\ run[e].from <= Len(outputs)
    BY <1>1, OutputsAreSeq DEF RunFits, Types, Run
  <2>3. run'[e].from <= Len(outputs')
    BY <1>2, <1>3, <2>2
  <2>4. run'[e].stage = "accepted" => Marked' # {}
    BY <1>2, <1>3
  <2> QED
    BY <1>2, <2>1, <2>3, <2>4 DEF RunFits
<1> QED
  BY <1>4, <1>5, <1>6, <1>10, <1>11, <1>12, <1>13, <1>14, Frame

\* The surface that an accepted verdict creates is the first of its kind since
\* the review started.
LEMMA AcceptKeeps ==
  ASSUME PublicationInv, NEW e \in Reviews, Accept(e)
  PROVE  PublicationInv'
<1>1. /\ Types /\ run[e] \in Run /\ StageFits(e) /\ RunFits(e)
      /\ run[e].stage = "sent" /\ UNCHANGED <<calls, memory>>
      /\ Goto(e, "accepted")
      /\ run[e].stage \notin AgentStages \cup {"closing", "done"}
      /\ run[e].verdict \in {"approve", "findings"}
  BY OfReview DEF Accept, AgentStages, StageFits
<1>2. CASE run[e].target = 0
  <2> PICK k : k = KindOf(run[e].verdict)
    OBVIOUS
  <2> PICK o : o = [kind |-> k, verdict |-> run[e].verdict, marked |-> TRUE,
                    by |-> e, via |-> "handler", writer |-> e, early |-> FALSE,
                    replay |-> FALSE, noted |-> FALSE]
    OBVIOUS
  <2>1. outputs' = Append(outputs, o)
    BY <1>1, <1>2 DEF Accept, Post
  <2>2. o \in Output
    BY <1>1 DEF Output, KindOf, Kinds, Verdicts
  <2>3. NoneBefore(e, {o.kind})
    BY <1>1, <1>2 DEF RunFits
  <2>4. o.verdict = "approve" => MayApprove(e)
    BY <1>1 DEF RunFits
  <2> PICK r : r = [run[e] EXCEPT !.stage = "accepted"]
    OBVIOUS
  <2>5. /\ r \in Run /\ r.stage = "accepted" /\ run' = [run EXCEPT ![e] = r]
        /\ r.lane = run[e].lane /\ r.from = run[e].from /\ r.verdict = run[e].verdict
        /\ r.found = run[e].found /\ r.target = run[e].target
        /\ r.refused = run[e].refused
    BY <1>1 DEF Run, Stages, Goto
  <2>6. /\ o.by = e /\ o.via = "handler" /\ o.writer = e /\ ~o.early /\ ~o.replay
        /\ o.marked /\ o.verdict \in {"approve", "findings"}
    BY <1>1
  <2> QED
    BY <1>1, <2>1, <2>2, <2>3, <2>4, <2>5, <2>6, HandlerPosts
<1>3. CASE run[e].target # 0
  <2> PICK k : k = run[e].target
    OBVIOUS
  <2> PICK t : t = [verdict |-> run[e].verdict, writer |-> e]
    OBVIOUS
  <2>1. k \in Marked /\ t \in Texts /\ t.verdict \in {"approve", "findings"}
    BY <1>1, <1>3 DEF RunFits, Texts, Verdicts
  <2>2. TextFits(t)
    BY <1>1 DEF TextFits, RunFits
  <2>3. outputs' = [outputs EXCEPT ![k].verdict = t.verdict,
                                   ![k].writer = t.writer, ![k].noted = FALSE]
    BY <1>3 DEF Accept
  <2> QED
    BY <1>1, <2>1, <2>2, <2>3, Overwrites
<1> QED
  BY <1>2, <1>3

LEMMA ReplyKeeps ==
  ASSUME PublicationInv, NEW e \in Reviews, Reply(e)
  PROVE  PublicationInv'
<1>1. /\ Types /\ run[e] \in Run /\ StageFits(e) /\ RunFits(e)
      /\ run[e].stage = "replying" /\ UNCHANGED <<calls, memory>>
      /\ run[e].stage \notin AgentStages \cup {"closing", "done"}
      /\ run[e].verdict \in {"reply", "error", "publish-failure"}
  BY OfReview DEF Reply, AgentStages, StageFits
<1> DEFINE comment(v) == [kind |-> "issue_comment", verdict |-> v, marked |-> FALSE,
                          by |-> e, via |-> "handler", writer |-> e, early |-> FALSE,
                          replay |-> FALSE, noted |-> FALSE]
<1>2. \A v \in Verdicts : comment(v) \in Output
  BY DEF Output, Kinds
<1>3. CASE outputs' = Append(outputs, comment(run[e].verdict)) /\ Goto(e, "closing")
  <2>1. PICK o : o = comment(run[e].verdict)
    OBVIOUS
  <2>2. PICK r : r = [run[e] EXCEPT !.stage = "closing"]
    OBVIOUS
  <2>3. /\ r \in Run /\ r.stage = "closing" /\ run' = [run EXCEPT ![e] = r]
        /\ r.lane = run[e].lane /\ r.from = run[e].from
        /\ r.found = run[e].found /\ r.target = run[e].target
        /\ r.refused = run[e].refused /\ r.blind = run[e].blind
    BY <1>1, <1>3, <2>2 DEF Run, Stages, Goto
  <2>4. /\ o \in Output /\ outputs' = Append(outputs, o)
        /\ o.by = e /\ o.via = "handler" /\ o.writer = e /\ ~o.early /\ ~o.replay
        /\ ~o.marked /\ o.verdict = run[e].verdict /\ o.verdict # "approve"
    BY <1>1, <1>2, <1>3, <2>1 DEF Verdicts
  <2>5. o.verdict = "publish-failure" /\ ~r.blind =>
          ~\E j \in Marked : outputs[j].by = e /\ outputs[j].via = "handler"
    BY <1>1, <2>3, <2>4 DEF RunFits
  <2> HIDE DEF comment
  <2> QED
    BY <1>1, <2>3, <2>4, <2>5, HandlerPosts
<1>4. ASSUME run' = [run EXCEPT ![e].verdict = "error"],
             outputs' = Append(outputs, comment("reply")) \/ UNCHANGED outputs
      PROVE  PublicationInv'
  <2> PICK r : r = [run[e] EXCEPT !.verdict = "error"]
    OBVIOUS
  <2>1. /\ r \in Run /\ r.stage = "replying" /\ run' = [run EXCEPT ![e] = r]
        /\ r.lane = run[e].lane /\ r.from = run[e].from /\ r.verdict = "error"
        /\ r.found = run[e].found /\ r.target = run[e].target
        /\ r.refused = run[e].refused
    BY <1>1, <1>4 DEF Run, Verdicts
  <2>2. CASE UNCHANGED outputs
    BY <1>1, <2>1, <2>2, HandlerTurns
  <2>3. CASE outputs' = Append(outputs, comment("reply"))
    <3> PICK o : o = comment("reply")
      OBVIOUS
    <3>1. /\ o \in Output /\ outputs' = Append(outputs, o)
          /\ o.by = e /\ o.via = "handler" /\ o.writer = e /\ ~o.early /\ ~o.replay
          /\ ~o.marked /\ o.verdict = "reply"
      BY <1>2, <2>3 DEF Verdicts
    <3> QED
      BY <1>1, <2>1, <3>1, HandlerPosts
  <2> QED
    BY <1>4, <2>2, <2>3
<1>5. CASE /\ run' = [run EXCEPT ![e].stage = "closing", ![e].failed = TRUE]
           /\ UNCHANGED outputs
  <2> PICK r : r = [run[e] EXCEPT !.stage = "closing", !.failed = TRUE]
    OBVIOUS
  <2>1. /\ r \in Run /\ r.stage = "closing" /\ run' = [run EXCEPT ![e] = r]
        /\ r.lane = run[e].lane /\ r.from = run[e].from /\ r.failed
        /\ r.found = run[e].found /\ r.target = run[e].target
        /\ r.refused = run[e].refused
    BY <1>1, <1>5 DEF Run, Stages
  <2> QED
    BY <1>1, <1>5, <2>1, HandlerTurns
<1>6. \/ outputs' = Append(outputs, comment(run[e].verdict)) /\ Goto(e, "closing")
      \/ /\ run' = [run EXCEPT ![e].verdict = "error"]
         /\ outputs' = Append(outputs, comment("reply")) \/ UNCHANGED outputs
      \/ /\ run' = [run EXCEPT ![e].stage = "closing", ![e].failed = TRUE]
         /\ UNCHANGED outputs
  BY <1>1 DEF Reply, Post
<1> QED
  BY <1>3, <1>4, <1>5, <1>6

-----------------------------------------------------------------------------
(* Steps of the agent, and the whole *)

LEMMA CallsMove ==
  ASSUME PublicationInv, NEW e \in Reviews, UNCHANGED <<run, outputs>>,
         run[e].stage # "idle",
         NEW c \in Seq(CallRecord), calls' = [calls EXCEPT ![e] = c],
         NEW m \in Memory, memory' = [memory EXCEPT ![e] = m],
         m.gate = "publish" => NoneBefore(e, Kinds),
         m.published => By(e),
         \A i \in DOMAIN c : CallFits(e, c[i])
  PROVE  PublicationInv'
<1>1. /\ Types /\ StageFits(e) /\ RunFits(e) /\ Heard(e)
  BY OfReview
<1>2. /\ Types' /\ calls'[e] = c /\ memory'[e] = m
      /\ \A w \in Reviews \ {e} : calls'[w] = calls[w] /\ memory'[w] = memory[w]
  BY <1>1 DEF Types
<1>3. StepOf(e)
  BY <1>2 DEF StepOf, Moves, SameOutput
<1>4. /\ NoneBefore(e, Kinds) => NoneBefore(e, Kinds)'
      /\ By(e) => By(e)' /\ Marked' = Marked
  BY DEF NoneBefore, By, Marked
<1>5. CallsFit(e)'
  BY <1>2, <1>4 DEF CallsFit, CallFits
<1>6. StageFits(e)' /\ Heard(e)'
  <2>1. StageFits(e)'
    BY <1>1 DEF StageFits
  <2>2. Heard(e)'
    BY <1>1 DEF Heard, OutputExists, Marked, By
  <2> QED
    BY <2>1, <2>2
<1>7. RunFits(e)'
  BY <1>1 DEF RunFits, NoneBefore, Marked, MayApprove, TextFits
<1>8. /\ \A i \in DOMAIN outputs : SameText(i)
      /\ DOMAIN outputs' \ DOMAIN outputs = {}
  BY DEF SameText
<1> QED
  BY <1>2, <1>3, <1>5, <1>6, <1>7, <1>8, Frame

\* What a call has read when it begins: no surface was there when the review
\* started, and no comment of this call is on GitHub.
LEMMA BeginCallKeeps ==
  ASSUME PublicationInv, NEW e \in Reviews, NEW tool \in Tools, BeginCall(e, tool)
  PROVE  PublicationInv'
<1>1. /\ Types /\ run[e] \in Run /\ CallsFit(e) /\ calls[e] \in Seq(CallRecord)
      /\ memory[e] \in Memory /\ run[e].stage = "running"
      /\ UNCHANGED <<run, outputs>>
      /\ \A i \in DOMAIN outputs : OutputFits(i)
  BY OfReview DEF BeginCall, PublicationInv, Types
<1> PICK g : g = GateAnswer(e)
  OBVIOUS
<1>2. g \in {"publish", "skip"} /\ (g = "publish" => NoneBefore(e, Kinds))
  <2>1. CASE memory[e].gate # "unresolved"
    BY <1>1, <2>1 DEF GateAnswer, Memory, CallsFit, CallFits
  <2>2. CASE memory[e].gate = "unresolved" /\ OutputExists
    BY <2>2 DEF GateAnswer
  <2>3. CASE memory[e].gate = "unresolved" /\ ~OutputExists
    BY <2>3 DEF GateAnswer, OutputExists, NoneBefore
  <2> QED
    BY <2>1, <2>2, <2>3
<1> PICK m : m = [memory[e] EXCEPT !.gate = g]
  OBVIOUS
<1>3. /\ m \in Memory /\ m.gate = g /\ m.published = memory[e].published
      /\ memory' = [memory EXCEPT ![e] = m]
  BY <1>1, <1>2 DEF Memory, BeginCall
<1>4. m.published => By(e)
  BY <1>1, <1>3 DEF CallsFit, CallFits
<1>5. CASE calls' = calls
  <2>1. calls' = [calls EXCEPT ![e] = calls[e]]
    BY <1>1, <1>5 DEF Types
  <2> QED
    BY <1>1, <1>2, <1>3, <1>4, <2>1, CallsMove DEF CallsFit
<1>6. CASE /\ g # "skip" /\ ~MarkerFound(e, tool)
           /\ calls' = [calls EXCEPT ![e] = Append(@,
                [tool |-> tool, late |-> FALSE, step |-> "posting",
                 replay |-> IsReplay(e, tool)])]
  <2>1. IsReplay(e, tool) \in BOOLEAN
    BY DEF IsReplay
  <2> PICK call : call = [tool |-> tool, late |-> FALSE, step |-> "posting",
                          replay |-> IsReplay(e, tool)]
    OBVIOUS
  <2>2. call \in CallRecord
    BY <2>1 DEF CallRecord
  <2> PICK c : c = Append(calls[e], call)
    OBVIOUS
  <2>3. /\ c \in Seq(CallRecord) /\ calls' = [calls EXCEPT ![e] = c]
        /\ \A i \in DOMAIN c : (i \in DOMAIN calls[e] /\ c[i] = calls[e][i])
                               \/ c[i] = call
    BY <1>1, <1>6, <2>2
  <2>4. IsReplay(e, tool) => tool = "approve"
    <3>1. CASE tool = "inline"
      BY <1>6, <3>1 DEF MarkerFound
    <3>2. CASE tool = "comment"
      <4>1. SurfaceOf(e, "issue_comment") = 0
        BY <1>6, <3>2 DEF MarkerFound
      <4>2. \A i \in Marked : outputs[i].kind # "issue_comment"
        BY <1>1, <4>1, SurfaceFound
      <4>3. \A i \in DOMAIN outputs : outputs[i].via = "tool" => i \in Marked
        BY <1>1 DEF OutputFits, Marked
      <4> QED
        BY <3>2, <4>2, <4>3 DEF IsReplay, KindOfTool
    <3> QED
      BY <3>1, <3>2 DEF Tools
  <2>5. \A i \in DOMAIN c : CallFits(e, c[i])
    <3> TAKE i \in DOMAIN c
    <3>1. CASE c[i] = call
      BY <1>2, <1>6, <2>4, <3>1 DEF CallFits
    <3>2. CASE i \in DOMAIN calls[e] /\ c[i] = calls[e][i]
      BY <1>1, <3>2 DEF CallsFit, CallFits
    <3> QED
      BY <2>3, <3>1, <3>2
  <2> QED
    BY <1>1, <1>2, <1>3, <1>4, <2>3, <2>5, CallsMove
<1> QED
  BY <1>2, <1>5, <1>6 DEF BeginCall

\* A call that goes on or ends claims nothing new.
LEMMA CallSettles ==
  ASSUME PublicationInv, NEW e \in Reviews, NEW i \in DOMAIN calls[e],
         UNCHANGED <<run, outputs>>, NEW call \in CallRecord,
         calls' = [calls EXCEPT ![e][i] = call],
         call.step = "posting" => /\ call.tool = calls[e][i].tool
                                  /\ call.replay = calls[e][i].replay
                                  /\ calls[e][i].step = "posting",
         call.step = "accepted" => calls[e][i].step = "accepted",
         NEW m \in Memory, memory' = [memory EXCEPT ![e] = m],
         m.gate = memory[e].gate,
         m.published => memory[e].published \/ calls[e][i].step = "accepted"
  PROVE  PublicationInv'
<1>1. /\ Types /\ RunFits(e) /\ CallsFit(e) /\ calls[e] \in Seq(CallRecord)
  BY OfReview DEF Types
<1>2. run[e].stage # "idle"
  <2>1. calls[e] # << >>
    OBVIOUS
  <2> QED
    BY <1>1, <2>1 DEF RunFits
<1> PICK c : c = [calls[e] EXCEPT ![i] = call]
  OBVIOUS
<1>3. /\ c \in Seq(CallRecord) /\ DOMAIN c = DOMAIN calls[e] /\ c[i] = call
      /\ \A j \in DOMAIN c \ {i} : c[j] = calls[e][j]
      /\ calls' = [calls EXCEPT ![e] = c]
  BY <1>1
<1>4. /\ m.gate = "publish" => NoneBefore(e, Kinds)
      /\ m.published => By(e)
  BY <1>1 DEF CallsFit, CallFits
<1>5. \A j \in DOMAIN c : CallFits(e, c[j])
  <2> TAKE j \in DOMAIN c
  <2>1. CASE j = i
    BY <1>1, <1>3, <2>1 DEF CallsFit, CallFits
  <2>2. CASE j # i
    BY <1>1, <1>3, <2>2 DEF CallsFit, CallFits
  <2> QED
    BY <2>1, <2>2
<1> QED
  BY <1>2, <1>3, <1>4, <1>5, CallsMove

LEMMA AcceptCallKeeps ==
  ASSUME PublicationInv, NEW e \in Reviews, NEW i \in DOMAIN calls[e],
         AcceptCall(e, i)
  PROVE  PublicationInv'
<1>1. /\ Types /\ StageFits(e) /\ RunFits(e) /\ CallsFit(e)
      /\ calls[e] \in Seq(CallRecord) /\ calls[e][i] \in CallRecord
      /\ calls[e][i].step = "posting" /\ UNCHANGED <<run, memory>>
  BY OfReview DEF AcceptCall, Types
<1>2. /\ calls[e][i].tool \in Tools /\ NoneBefore(e, Kinds)
      /\ calls[e][i].replay => calls[e][i].tool = "approve"
  BY <1>1 DEF CallsFit, CallFits
<1>3. run[e].stage # "idle"
  <2>1. calls[e] # << >>
    OBVIOUS
  <2> QED
    BY <1>1, <2>1 DEF RunFits
<1>4. PICK k : k = KindOfTool(calls[e][i].tool)
  OBVIOUS
<1>5. k \in Kinds /\ (calls[e][i].replay => k = "pull_review")
  <2>1. \A tool \in Tools : KindOfTool(tool) \in Kinds
    BY DEF KindOfTool, Tools, Kinds
  <2>2. KindOfTool("approve") = "pull_review"
    BY DEF KindOfTool
  <2> QED
    BY <1>2, <1>4, <2>1, <2>2
<1>6. PICK v : v = IF calls[e][i].tool = "approve" THEN "approve" ELSE "findings"
  OBVIOUS
<1>7. PICK o : o = [kind |-> k, verdict |-> v, marked |-> TRUE, by |-> e, via |-> "tool",
                    writer |-> NoReview, early |-> run[e].stage = "running",
                    replay |-> calls[e][i].replay, noted |-> FALSE]
  OBVIOUS
<1>8. outputs' = Append(outputs, o)
  BY <1>4, <1>6, <1>7 DEF AcceptCall, Post
<1>9. /\ o \in Output /\ o.kind = k /\ o.verdict \in {"approve", "findings"}
      /\ o.marked /\ o.by = e /\ o.via = "tool" /\ o.writer = NoReview
      /\ o.early = (run[e].stage = "running") /\ o.replay = calls[e][i].replay
  BY <1>1, <1>5, <1>6, <1>7 DEF Output, CallRecord, Verdicts
<1> PICK n : n = Len(outputs) + 1
  OBVIOUS
<1>10. /\ outputs' \in Seq(Output) /\ Len(outputs') = n
       /\ n \in Nat /\ n > Len(outputs)
       /\ DOMAIN outputs' = DOMAIN outputs \cup {n} /\ n \notin DOMAIN outputs
       /\ \A j \in DOMAIN outputs : outputs'[j] = outputs[j]
       /\ outputs'[n] = o
       /\ Marked \subseteq Marked'
  BY <1>1, <1>8, <1>9, Appended
<1>11. PICK call : call = [calls[e][i] EXCEPT !.step = "accepted"]
  OBVIOUS
<1>12. /\ call \in CallRecord /\ call.step = "accepted"
       /\ calls' = [calls EXCEPT ![e][i] = call]
  BY <1>1, <1>11 DEF CallRecord, AcceptCall, CallSteps
<1> PICK c : c = [calls[e] EXCEPT ![i] = call]
  OBVIOUS
<1>13. /\ c \in Seq(CallRecord) /\ DOMAIN c = DOMAIN calls[e] /\ c[i] = call
       /\ \A j \in DOMAIN c \ {i} : c[j] = calls[e][j]
       /\ calls' = [calls EXCEPT ![e] = c]
  BY <1>1, <1>12
<1>14. /\ Types' /\ calls'[e] = c
       /\ \A w \in Reviews \ {e} : calls'[w] = calls[w]
  BY <1>1, <1>10, <1>13 DEF Types
<1>15. StepOf(e)
  <2>1. \A j \in DOMAIN outputs : SameOutput(j)
    BY <1>10 DEF SameOutput
  <2>2. \A j \in DOMAIN outputs' \ DOMAIN outputs :
          /\ outputs'[j].by = e /\ run[e].stage # "idle"
          /\ outputs'[j].via = "tool" /\ outputs'[j].early => run[e].stage = "running"
    BY <1>3, <1>9, <1>10
  <2>3. Len(outputs') \in {Len(outputs), Len(outputs) + 1} /\ Moves(e)
    BY <1>1, <1>10 DEF Moves
  <2> QED
    BY <1>1, <1>14, <2>1, <2>2, <2>3 DEF StepOf
<1>16. NoneBefore(e, Kinds)' /\ By(e)' /\ Len(outputs) <= Len(outputs')
  <2>1. By(e)'
    BY <1>9, <1>10 DEF By
  <2> QED
    BY <1>1, <1>2, <1>14, <1>15, <2>1, ReadingsStay, OutputsGrow DEF RunFits
<1>17. OutputFits(n)'
  <2>1. NoReview \notin Reviews
    BY ReviewsAssumption DEF NoReview
  <2>2. TextFits(outputs[n])'
    BY <1>9, <1>10, <2>1 DEF TextFits
  <2> QED
    BY <1>1, <1>3, <1>5, <1>9, <1>10, <2>2 DEF OutputFits
<1>18. \A j \in DOMAIN outputs : SameText(j)
  BY <1>10 DEF SameText
<1>19. \A j \in DOMAIN outputs' \ DOMAIN outputs :
          /\ OutputFits(j)'
          /\ outputs'[j].marked => NoneBefore(e, {outputs'[j].kind})
          /\ outputs'[j].verdict = "publish-failure" /\ ~run'[e].blind =>
               ~\E m \in Marked : outputs[m].by = e /\ outputs[m].via = "handler"
  <2> TAKE j \in DOMAIN outputs' \ DOMAIN outputs
  <2>1. j = n /\ outputs'[j] = o
    BY <1>10
  <2>2. OutputFits(j)'
    BY <1>17, <2>1
  <2>3. NoneBefore(e, {k})
    BY <1>2, <1>5 DEF NoneBefore
  <2>4. NoneBefore(e, {outputs'[j].kind})
    BY <1>9, <2>1, <2>3
  <2>5. outputs'[j].verdict # "publish-failure"
    BY <1>9, <2>1
  <2> QED
    BY <2>2, <2>4, <2>5
<1>20. CallsFit(e)'
  <2>1. \A j \in DOMAIN c :
          /\ c[j].step = "posting" =>
               /\ c[j].tool \in Tools
               /\ c[j].replay => c[j].tool = "approve"
    BY <1>1, <1>12, <1>13 DEF CallsFit, CallFits
  <2> QED
    BY <1>14, <1>16, <2>1 DEF CallsFit, CallFits
<1>21. StageFits(e)'
  BY <1>1 DEF StageFits
<1>22. Heard(e)'
  BY <1>16 DEF Heard
<1>23. RunFits(e)'
  <2>1. run'[e].target \in {0} \cup Marked' /\ Marked' # {}
    <3>1. n \in Marked'
      BY <1>9, <1>10 DEF Marked
    <3> QED
      BY <1>1, <1>10, <3>1 DEF RunFits
  <2>2. run'[e].from <= Len(outputs')
    <3>1. Len(outputs) \in Nat /\ run[e].from \in Nat /\ run[e].from <= Len(outputs)
      BY <1>1, OutputsAreSeq DEF RunFits, Types, Run
    <3> QED
      BY <1>1, <1>10, <3>1
  <2>3. run'[e].stage \in {"presenting", "writing", "sent"}
          /\ run'[e].verdict = "approve" => MayApprove(e)'
    BY <1>1, <1>14, <1>15, ReadingsStay DEF RunFits, AgentStages
  <2>4. run'[e].stage \in {"writing", "sent"} /\ run'[e].target = 0 =>
          NoneBefore(e, {KindOf(run[e].verdict)})'
    BY <1>1, <1>14, <1>15, ReadingsStay DEF RunFits
  <2> PICK t : t = run[e].stale
    OBVIOUS
  <2>5. run'[e].stage = "noting" =>
          /\ run'[e].target # 0
          /\ run'[e].stale.verdict \in {"approve", "findings"}
          /\ TextFits(run[e].stale)'
    <3>1. TextFits(t) => TextFits(t)'
      BY <1>1, <1>14, <1>15, TextFitsStays
    <3> QED
      BY <1>1, <3>1 DEF RunFits, TextFits
  <2>6. run'[e].stage = "replying" /\ run'[e].verdict = "publish-failure"
          /\ ~run'[e].blind =>
          ~\E j \in Marked' : outputs'[j].by = e /\ outputs'[j].via = "handler"
    BY <1>1, <1>9, <1>10 DEF RunFits, Marked
  <2> QED
    BY <1>1, <1>3, <2>1, <2>2, <2>3, <2>4, <2>5, <2>6 DEF RunFits
<1> QED
  BY <1>14, <1>15, <1>18, <1>19, <1>20, <1>21, <1>22, <1>23, Frame

LEMMA CallStepKeeps ==
  ASSUME PublicationInv, NEW e \in Reviews, NEW i \in DOMAIN calls[e],
         CallStep(e, i) \/ TimeOutCall(e, i)
  PROVE  PublicationInv'
<1>1. /\ Types /\ memory[e] \in Memory
      /\ calls[e] \in Seq(CallRecord) /\ calls[e][i] \in CallRecord
      /\ memory' = memory => memory' = [memory EXCEPT ![e] = memory[e]]
  BY OfReview DEF Types
<1>2. Ended \in CallRecord /\ Ended.step = "ended"
  BY DEF Ended, CallRecord
<1>3. CASE AcceptCall(e, i)
  BY <1>3, AcceptCallKeeps
<1>4. CASE AnswerCall(e, i)
  <2>1. /\ calls' = [calls EXCEPT ![e][i] = Ended] /\ UNCHANGED <<run, outputs>>
        /\ calls[e][i].step = "accepted"
    BY <1>4 DEF AnswerCall, CallSteps
  <2>2. PICK m \in Memory : /\ memory' = [memory EXCEPT ![e] = m]
                            /\ m.gate = memory[e].gate
    <3>1. CASE run[e].stage # "running"
      BY <1>1, <1>4, <3>1 DEF AnswerCall
    <3>2. CASE run[e].stage = "running"
      <4> PICK p \in BOOLEAN :
             p = (memory[e].posted \/ calls[e][i].tool # "inline")
        BY <1>1 DEF Memory
      <4> PICK m : m = [memory[e] EXCEPT !.posted = p, !.published = TRUE]
        OBVIOUS
      <4>1. m \in Memory /\ m.gate = memory[e].gate
        BY <1>1 DEF Memory
      <4>2. memory' = [memory EXCEPT ![e] = m]
        BY <1>1, <1>4, <3>2 DEF AnswerCall, Types
      <4> QED
        BY <4>1, <4>2
    <3> QED
      BY <3>1, <3>2
  <2> QED
    BY <1>1, <1>2, <2>1, <2>2, CallSettles
<1>5. CASE FailCall(e, i)
  <2>1. /\ calls' = [calls EXCEPT ![e][i] = Ended]
        /\ UNCHANGED <<run, memory, outputs>>
    BY <1>5 DEF FailCall, CallSteps
  <2> QED
    BY <1>1, <1>2, <2>1, CallSettles
<1>6. CASE TimeOutCall(e, i)
  <2> PICK call : call = [calls[e][i] EXCEPT !.late = TRUE]
    OBVIOUS
  <2>1. /\ call \in CallRecord /\ call.step = calls[e][i].step
        /\ call.tool = calls[e][i].tool /\ call.replay = calls[e][i].replay
    BY <1>1 DEF CallRecord
  <2>2. /\ calls' = [calls EXCEPT ![e][i] = call]
        /\ UNCHANGED <<run, memory, outputs>>
    BY <1>1, <1>6 DEF TimeOutCall, Types
  <2> QED
    BY <1>1, <2>1, <2>2, CallSettles
<1> QED
  BY <1>3, <1>4, <1>5, <1>6 DEF CallStep

LEMMA StartKeeps ==
  ASSUME PublicationInv, NEW e \in Reviews, NEW lane \in Lanes, Start(e, lane)
  PROVE  PublicationInv'
<1>1. /\ Types /\ run[e] \in Run /\ StageFits(e) /\ RunFits(e)
      /\ run[e].stage = "idle" /\ UNCHANGED <<calls, memory, outputs>>
      /\ calls[e] = << >> /\ memory[e] = Forgotten
  BY OfReview DEF Start, RunFits
<1> PICK s : s = IF lane = "automatic" THEN "gating" ELSE "running"
  OBVIOUS
<1> PICK r : r = [run[e] EXCEPT !.lane = lane, !.stage = s, !.from = Len(outputs)]
  OBVIOUS
<1>2. Len(outputs) \in Nat /\ Len(outputs) <= Len(outputs)
  BY <1>1, OutputsAreSeq
<1>3. /\ r \in Run /\ r.lane = lane /\ r.stage = s /\ r.from = Len(outputs)
      /\ r.found = run[e].found /\ r.target = run[e].target
  BY <1>1, <1>2 DEF Run, Stages
<1>4. run' = [run EXCEPT ![e] = r]
  BY <1>1 DEF Start
<1>5. /\ Types' /\ run'[e] = r /\ \A w \in Reviews \ {e} : run'[w] = run[w]
  BY <1>1, <1>3, <1>4 DEF Types
<1>6. s \in {"gating", "running"} /\ (s = "gating" => lane = "automatic")
  OBVIOUS
<1>7. Moves(e) /\ StageFits(e)'
  BY <1>1, <1>3, <1>5, <1>6 DEF Moves, StageFits, AgentStages
<1>8. StepOf(e)
  BY <1>1, <1>5, <1>7 DEF StepOf, SameOutput
<1>9. CallsFit(e)'
  BY <1>1 DEF CallsFit, CallFits, Forgotten
<1>10. RunFits(e)'
  <2>1. run'[e].target \in {0} \cup Marked'
    BY <1>1, <1>3, <1>5 DEF RunFits, Marked
  <2>2. run'[e].from <= Len(outputs')
    BY <1>1, <1>2, <1>3, <1>5
  <2> QED
    BY <1>3, <1>5, <1>6, <2>1, <2>2 DEF RunFits
<1>11. Heard(e)'
  BY <1>3, <1>5, <1>6 DEF Heard
<1>12. /\ \A i \in DOMAIN outputs : SameText(i)
       /\ DOMAIN outputs' \ DOMAIN outputs = {}
  BY <1>1 DEF SameText
<1> QED
  BY <1>5, <1>7, <1>8, <1>9, <1>10, <1>11, <1>12, Frame

LEMMA PublicationInit == Init => PublicationInv
<1> SUFFICES ASSUME Init
             PROVE  PublicationInv
  OBVIOUS
<1>1. /\ run = [e \in Reviews |-> Idle] /\ outputs = << >>
      /\ calls = [e \in Reviews |-> << >>]
      /\ memory = [e \in Reviews |-> Forgotten]
  BY DEF Init
<1>2. Idle \in Run
  BY DEF Idle, Run, Lanes, Stages, Texts, NoText, NoReview
<1>3. Forgotten \in Memory
  BY DEF Forgotten, Memory
<1>4. Types
  BY <1>1, <1>2, <1>3 DEF Types
<1>5. DOMAIN outputs = {} /\ Len(outputs) = 0 /\ Marked = {}
  BY <1>1 DEF Marked
<1>6. ASSUME NEW e \in Reviews
      PROVE  StageFits(e) /\ RunFits(e) /\ CallsFit(e) /\ Heard(e)
  <2>1. /\ run[e] = Idle /\ calls[e] = << >> /\ memory[e] = Forgotten
        /\ DOMAIN calls[e] = {}
    BY <1>1
  <2>2. StageFits(e) /\ Heard(e)
    BY <2>1 DEF StageFits, Heard, Idle
  <2>3. RunFits(e)
    BY <1>5, <2>1 DEF RunFits, Idle
  <2>4. CallsFit(e)
    BY <2>1 DEF CallsFit, CallFits, Forgotten
  <2> QED
    BY <2>2, <2>3, <2>4
<1>7. EarlierSurfaceIsReused /\ NoFailureNoticeBesideVerdict
  BY <1>5 DEF EarlierSurfaceIsReused, NoFailureNoticeBesideVerdict
<1> QED
  BY <1>4, <1>5, <1>6, <1>7 DEF PublicationInv

LEMMA PublicationUnchanged ==
  ASSUME PublicationInv, UNCHANGED vars
  PROVE  PublicationInv'
<1>1. UNCHANGED <<run, calls, memory, outputs>>
  BY DEF vars
<1>2. Types'
  BY <1>1 DEF PublicationInv, Types
<1>3. ASSUME NEW i \in DOMAIN outputs'
      PROVE  OutputFits(i)'
  <2>1. OutputFits(i)
    BY <1>1 DEF PublicationInv
  <2> QED
    BY <1>1, <2>1 DEF OutputFits, TextFits, MayApprove
<1>4. ASSUME NEW e \in Reviews
      PROVE  StageFits(e)' /\ RunFits(e)' /\ CallsFit(e)' /\ Heard(e)'
  <2>1. StageFits(e) /\ RunFits(e) /\ CallsFit(e) /\ Heard(e)
    BY OfReview
  <2>2. StageFits(e)'
    BY <1>1, <2>1 DEF StageFits
  <2>3. RunFits(e)'
    BY <1>1, <2>1 DEF RunFits, TextFits, MayApprove, NoneBefore, Marked
  <2>4. CallsFit(e)'
    BY <1>1, <2>1 DEF CallsFit, CallFits, By, NoneBefore, Marked
  <2>5. Heard(e)'
    BY <1>1, <2>1 DEF Heard, By, OutputExists, Marked
  <2> QED
    BY <2>2, <2>3, <2>4, <2>5
<1>5. EarlierSurfaceIsReused' /\ NoFailureNoticeBesideVerdict'
  <2>1. EarlierSurfaceIsReused'
    BY <1>1 DEF PublicationInv, EarlierSurfaceIsReused, Marked
  <2>2. NoFailureNoticeBesideVerdict'
    BY <1>1 DEF PublicationInv, NoFailureNoticeBesideVerdict
  <2> QED
    BY <2>1, <2>2
<1> QED
  BY <1>2, <1>3, <1>4, <1>5 DEF PublicationInv

LEMMA PublicationStep == PublicationInv /\ [Next]_vars => PublicationInv'
<1> SUFFICES ASSUME PublicationInv, [Next]_vars
             PROVE  PublicationInv'
  OBVIOUS
<1>1. CASE UNCHANGED vars
  BY <1>1, PublicationUnchanged
<1>2. CASE Terminated
  BY <1>2, PublicationUnchanged DEF Terminated
<1>3. ASSUME NEW e \in Reviews, NEW lane \in Lanes, Start(e, lane)
      PROVE  PublicationInv'
  BY <1>3, StartKeeps
<1>4. ASSUME NEW e \in Reviews, End(e) \/ QuietEnd(e)
      PROVE  PublicationInv'
  BY <1>4, EndKeeps, QuietEndKeeps
<1>5. ASSUME NEW e \in Reviews, NEW tool \in Tools, BeginCall(e, tool)
      PROVE  PublicationInv'
  BY <1>5, BeginCallKeeps
<1>6. ASSUME NEW e \in Reviews, NEW i \in DOMAIN calls[e],
             CallStep(e, i) \/ TimeOutCall(e, i)
      PROVE  PublicationInv'
  BY <1>6, CallStepKeeps
<1>7. ASSUME NEW e \in Reviews, AgentReturns(e)
      PROVE  PublicationInv'
  BY <1>7, AgentReturnsKeeps
<1>8. ASSUME NEW e \in Reviews, HandlerStep(e)
      PROVE  PublicationInv'
  BY <1>8, GateKeeps, EnsureKeeps, PresentKeeps, SendKeeps, AcceptKeeps,
     ThrowKeeps, RecheckKeeps, ReconcileKeeps, NoteKeeps, ReplyKeeps,
     ReplyRefusedKeeps DEF HandlerStep
<1> QED
  BY <1>1, <1>2, <1>3, <1>4, <1>5, <1>6, <1>7, <1>8 DEF Next

LEMMA PublicationHolds == Spec => []PublicationInv
<1> QED
  BY PublicationInit, PublicationStep, PTL DEF Spec

\* Whatever the reviews, their agents and GitHub do, the rights to publish go as
\* PublishRights says: what holds here rests on nothing else about the
\* coordinator, which implements PublishRights.
THEOREM RightsAsPromised == Spec => Rights!Spec
<1>1. Init => Rights!Init
  BY DEF Init
<1>2. ASSUME [Next]_vars
      PROVE  [Rights!Next]_(Rights!vars)
  <2>1. ASSUME NEW e \in Reviews, NEW lane \in Lanes, Start(e, lane)
        PROVE  Rights!Next
    BY <2>1 DEF Start, Rights!Next
  <2>2. ASSUME NEW e \in Reviews, End(e) \/ QuietEnd(e)
        PROVE  Rights!Next
    BY <2>2 DEF End, QuietEnd, Rights!Next
  <2>3. ASSUME NEW e \in Reviews,
               \/ \E tool \in Tools : BeginCall(e, tool)
               \/ \E i \in DOMAIN calls[e] : CallStep(e, i) \/ TimeOutCall(e, i)
               \/ AgentReturns(e)
        PROVE  UNCHANGED rightsVars
    BY <2>3 DEF BeginCall, CallStep, AcceptCall, AnswerCall, FailCall, TimeOutCall,
                AgentReturns, ExplicitSucceeds, ExplicitFails, AutomaticReturns
  <2>4. ASSUME NEW e \in Reviews, HandlerStep(e)
        PROVE  UNCHANGED rightsVars
    BY <2>4 DEF HandlerStep, Gate, Ensure, Present, Send, Accept, Throw, Recheck,
                Reconcile, Note, Reply, ReplyRefused
  <2>5. UNCHANGED vars \/ UNCHANGED rightsVars => UNCHANGED Rights!vars
    BY DEF vars, rightsVars, Rights!vars
  <2> QED
    BY <1>2, <2>1, <2>2, <2>3, <2>4, <2>5 DEF Next, Terminated
<1> QED
  BY <1>1, <1>2, PTL DEF Spec, Rights!Spec

-----------------------------------------------------------------------------
\* The variables hold values of their types, and a review that starts when a
\* surface of a kind is there never makes a second one: what it read when it
\* looked for the surface still holds when GitHub takes its own
\* (upsertCanonicalReviewSurface), and its agent's gate read no surface at all.
THEOREM SurfaceIsReused == Spec => []OutputsInv
<1>1. PublicationInv => OutputsInv
  <2> SUFFICES ASSUME PublicationInv
               PROVE  PublicationTypeOK /\ EarlierSurfaceIsReused
    BY DEF OutputsInv
  <2>1. Types /\ \A e \in Reviews : RunFits(e)
    BY DEF PublicationInv
  <2>2. \A e \in Reviews : /\ memory[e] \in Memory
                           /\ run[e].target \in {0} \cup Marked
    BY <2>1 DEF Types, RunFits
  <2>3. \A i \in DOMAIN outputs : /\ outputs[i].kind \in Kinds
                                  /\ outputs[i].verdict \in Verdicts
                                  /\ outputs[i].by \in Reviews
                                  /\ TextOf(outputs[i]) \in Texts
    <3>1. \A o \in Output : /\ o.kind \in Kinds /\ o.verdict \in Verdicts
                            /\ o.by \in Reviews /\ TextOf(o) \in Texts
      BY DEF Output, TextOf, Texts
    <3> QED
      BY <2>1, <3>1, OutputsAreSeq
  <2> QED
    BY <2>1, <2>2, <2>3 DEF PublicationInv, PublicationTypeOK, Types, Memory
<1> QED
  BY <1>1, PublicationHolds, PTL

\* No handler approves, on a surface of its own or over the text of another
\* review, beside a finding of its own review: the scan before the approval
\* sees what the agent had posted, and a note on a superseded surface puts
\* back only a text that was allowed when it was written.
THEOREM FindingsBarApprovals == Spec => []FindingsBarApproval
<1>1. PublicationInv => FindingsBarApproval
  BY DEF PublicationInv, OutputFits, TextFits, FindingsBarApproval
<1> QED
  BY <1>1, PublicationHolds, PTL

\* The comment that says a verdict could not be published stands beside a
\* verdict of its review only if the scan after the error failed too.
THEOREM NoticesAreTrue == Spec => []NoFailureNoticeBesideVerdict
<1>1. PublicationInv => NoFailureNoticeBesideVerdict
  BY DEF PublicationInv
<1> QED
  BY <1>1, PublicationHolds, PTL

\* A tool call that begins after GitHub took the same one, with its answer
\* lost or late, posts no comment again.
THEOREM ReplaysPostNoComment == Spec => []ReplayPostsNoComment
<1>1. PublicationInv => ReplayPostsNoComment
  BY DEF PublicationInv, OutputFits, ReplayPostsNoComment
<1> QED
  BY <1>1, PublicationHolds, PTL

\* An explicit request that ends without an output of its own ends beside one
\* of its head, without the rights, or after its last comment failed.
THEOREM RequestsAreHeard == Spec => []NoSilentSuccess
<1>1. PublicationInv => NoSilentSuccess
  BY DEF PublicationInv, Heard, By, NoSilentSuccess
<1> QED
  BY <1>1, PublicationHolds, PTL
=============================================================================
