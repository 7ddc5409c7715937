---------------------- MODULE ContinuationFamilyProofs ----------------------
(***************************************************************************)
(* Proofs about the record of a continued review, for any number of        *)
(* attempts and of processes: the newest attempt is the one on record, the *)
(* row says what is so, and what superseded the review stays named.        *)
(***************************************************************************)
EXTENDS ContinuationFamily, ReviewWorkCoordinatorProofs

\* The authority of a family s is an attempt of the past that is running if it
\* is still live, and newer than the live ones whose ordinals are below its own.
Newer(s, f) ==
  LET b == s.latestAuthoritativeAttemptId
  IN b # NoAttempt =>
       /\ b \in 1..(nextAttemptId - 1)
       /\ b \in Live => Active(b)
       /\ \A a \in Live : /\ attempts[a].familyKey = f
                          /\ attempts[a].claimOrdinal < s.latestAuthoritativeClaimOrdinal
                          => a < b

AuthorityIsNewer == \A f \in DOMAIN families : Newer(families[f], f)

ArbiterInv == CoordinatorInv /\ AuthorityIsNewer

\* The review is claimed before its retry, holds its attempt no longer than its
\* lane, and its retry waits for it without starting.
BodyInv ==
  /\ base = NoAttempt <=> pc.base = "idle"
  /\ base # NoAttempt => base \in 1..(nextAttemptId - 1)
  /\ retry # NoAttempt => /\ base # NoAttempt
                          /\ retry \in 1..(nextAttemptId - 1)
                          /\ base < retry
  /\ retry = NoAttempt => pc.retry = "none" /\ pc.base # "scheduling"
  /\ "base" \in abandoned => base # NoAttempt
  /\ pc.base = "scheduling" => pc.retry = "none"
  /\ pc.catch # "idle" => pc.retry \notin {"none", "queued"}
  /\ base \in Live => pc.base = "gates" \/ Active(base)
  /\ pc.base = "done" \/ "base" \in abandoned \/ pc.retry \notin {"none", "queued"}
       => base \notin Live
  /\ retry # NoAttempt /\ pc.retry \in {"none", "queued"}
       => retry \in Live /\ ~Active(retry)
  /\ posted # {} => pc.retry \in {"fallback", "details", "settling", "cleaning",
                                 "done", "rejected"}

\* What a write of this process, or the row it left, may say.
Fits(x) ==
  /\ x.outcome = "superseded" => x.attempt \in Others /\ x.projection = "canonical"
  /\ x.outcome # "superseded" => x.attempt # NoAttempt /\ x.attempt \in {base, retry}
  /\ x.outcome \in {"merged", "continuation-pending"} => x.attempt = retry
  /\ x.outcome = "merged" /\ x.projection # "pending" => x.projection \in posted
  /\ x.outcome = "blocked" /\ x.attempt = retry /\ pc.catch = "idle"
       => posted = {} /\ pc.retry \in {"failing", "done"}

\* Nothing newer than newest is on its way or on record, and newest is, unless
\* the database refused it; a retry that is about to be enqueued has been named.
NewestIsOnItsWay ==
  /\ \A w \in writes : w.attempt <= newest
  /\ OwnRow => row.attempt <= newest
  /\ row # NoRow => row.process <= process
  /\ newest # NoAttempt /\ ~lost =>
       \/ \E w \in writes : w.attempt = newest
       \/ row # NoRow /\ row.attempt >= newest
  /\ pc.base = "scheduling" \/ pc.retry # "none" => retry <= newest

WritesFit ==
  /\ \A w \in writes : Fits(w)
  /\ OwnRow => Fits(row)

\* The retry is announced before it is enqueued, and what the catch of its job
\* writes takes that back.
AnnouncementEnds ==
  /\ \A w \in writes : w.outcome = "continuation-pending" =>
       w.by = "base" /\ pc.base = "scheduling"
  /\ pc.catch = "finalizing" /\ RetryAwaited /\ ~lost =>
       \E w \in writes : w.by = "catch" /\ w.attempt >= retry
  /\ pc.catch = "released" /\ ~lost => ~RetryAwaited

FamilyInv ==
  /\ FamilyTypeOK
  /\ ArbiterInv
  /\ BodyInv
  /\ NewestIsOnItsWay
  /\ WritesFit
  /\ AnnouncementEnds

-----------------------------------------------------------------------------
(* The authority is newer than what it bars *)

\* Ids and ordinals of a family are in the same order.
LEMMA LowerOrdinalIsOlder ==
  ASSUME CoordinatorInv, NEW a \in Live, NEW b \in Live,
         attempts[a].familyKey = attempts[b].familyKey,
         attempts[a].claimOrdinal < attempts[b].claimOrdinal
  PROVE  a < b
<1>1. /\ a \in Nat /\ attempts[a].claimOrdinal \in Nat
      /\ b \in Nat /\ attempts[b].claimOrdinal \in Nat
  BY LiveFacts DEF AttemptIds, Attempt
<1>2. ~(b < a) /\ a # b
  BY <1>1 DEF CoordinatorInv, OrdinalsOrdered
<1> QED
  BY <1>1, <1>2

LEMMA IdFacts ==
  ASSUME CoordinatorInv
  PROVE  /\ nextAttemptId \in Nat \ {0}
         /\ Live \subseteq 1..(nextAttemptId - 1)
         /\ 1..(nextAttemptId - 1) \subseteq AttemptIds
<1>1. nextAttemptId \in 1..(MaxAttempts + 1) /\ Live \subseteq AttemptIds
  BY DEF CoordinatorInv, TypeOK, Live
<1>2. \A a \in Live : a < nextAttemptId
  BY DEF CoordinatorInv, OrdinalsOrdered
<1> QED
  BY <1>1, <1>2, MaxAttemptsAssumption DEF AttemptIds

\* A claim that waits is newer than the authority, which stays.
LEMMA ClaimKeepsArbiter ==
  ASSUME ArbiterInv, NEW a, Claim(a, Family, "claimed")
  PROVE  /\ ArbiterInv'
         /\ a = nextAttemptId /\ a \in AttemptIds /\ nextAttemptId' = nextAttemptId + 1
         /\ a \notin Live
         /\ Live' = Live \cup {a}
         /\ \A b \in Live : Active(b)' <=> Active(b)
         /\ ~Active(a)'
<1> DEFINE f == Family
           s == FamilyStateOf(f)
<1>1. f \in Families
  BY FamilyAssumption DEF Family
<1>2. /\ a = nextAttemptId /\ a \in AttemptIds /\ a \notin Live
      /\ nextAttemptId' = nextAttemptId + 1
      /\ Live' = Live \cup {a}
      /\ attempts'[a].familyKey = f
      /\ attempts'[a].claimOrdinal = s.nextClaimOrdinal
      /\ \A b \in Live : attempts'[b] = attempts[b]
      /\ DOMAIN families' = DOMAIN families \cup {f}
      /\ \A g \in DOMAIN families \ {f} : families'[g] = families[g]
  BY <1>1, ClaimEffect DEF ArbiterInv
<1>3. attempts'[a].lifecycle = "pending"
  BY DEF Claim
<1>4. /\ s \in FamilyState /\ s.nextClaimOrdinal \in Nat \ {0}
      /\ s.latestAuthoritativeClaimOrdinal < s.nextClaimOrdinal
  BY <1>1, FamilyStateOfFields DEF ArbiterInv
<1>5. /\ families'[f].latestAuthoritativeClaimOrdinal = s.latestAuthoritativeClaimOrdinal
      /\ families'[f].latestAuthoritativeAttemptId = s.latestAuthoritativeAttemptId
  <2>1. families'[f] = [s EXCEPT !.attemptIds = @ \cup {a}, !.nextClaimOrdinal = @ + 1]
    BY DEF Claim
  <2>2. \A ids, n :
          LET t == [s EXCEPT !.attemptIds = ids, !.nextClaimOrdinal = n]
          IN /\ t.latestAuthoritativeClaimOrdinal = s.latestAuthoritativeClaimOrdinal
             /\ t.latestAuthoritativeAttemptId = s.latestAuthoritativeAttemptId
    BY <1>4, Zenon DEF FamilyState
  <2> HIDE DEF s
  <2> QED
    BY <2>1, <2>2
<1>6. Newer(s, f)
  BY DEF ArbiterInv, AuthorityIsNewer, Newer, FamilyStateOf, FreshFamily
<1>7. CoordinatorInv'
  BY <1>1, ClaimInv DEF ArbiterInv
<1> HIDE DEF f, s
<1>8. /\ \A b \in Live : Active(b)' <=> Active(b)
      /\ ~Active(a)'
  BY <1>2, <1>3 DEF Active
<1>9. /\ nextAttemptId \in Nat /\ Live \subseteq 1..(nextAttemptId - 1)
  BY IdFacts DEF ArbiterInv
<1>10. s.latestAuthoritativeClaimOrdinal \in Nat
  BY <1>4 DEF FamilyState
<1>11. Newer(families[f], f)'
  BY <1>2, <1>4, <1>5, <1>6, <1>8, <1>9, <1>10 DEF Newer
<1>12. ASSUME NEW g \in DOMAIN families', g # f
       PROVE  Newer(families[g], g)'
  <2>1. g \in DOMAIN families /\ families'[g] = families[g] /\ Newer(families[g], g)
    BY <1>2, <1>12 DEF ArbiterInv, AuthorityIsNewer
  <2> QED
    BY <1>2, <1>8, <1>9, <1>12, <2>1 DEF Newer
<1> QED
  BY <1>2, <1>7, <1>8, <1>11, <1>12 DEF ArbiterInv, AuthorityIsNewer

LEMMA SetPhaseKeepsArbiter ==
  ASSUME ArbiterInv, NEW a, SetPhase(a)
  PROVE  /\ ArbiterInv'
         /\ nextAttemptId' = nextAttemptId
         /\ Live' = Live
         /\ \A b : b # a => (Active(b)' <=> Active(b))
         /\ a \in Live => Active(a)'
<1>1. CASE ~(a \in Live /\ ~Active(a))
  <2>1. UNCHANGED coordinatorVars
    BY <1>1 DEF SetPhase, coordinatorVars
  <2> QED
    BY <1>1, <2>1, UnchangedInv
       DEF ArbiterInv, AuthorityIsNewer, Newer, coordinatorVars, Live, Active
<1>2. CASE a \in Live /\ ~Active(a)
  <2> PICK f : f = attempts[a].familyKey
    OBVIOUS
  <2> PICK o : o = attempts[a].claimOrdinal
    OBVIOUS
  <2>1. /\ Live' = Live /\ nextAttemptId' = nextAttemptId
        /\ \A b \in Live : /\ attempts'[b].familyKey = attempts[b].familyKey
                           /\ attempts'[b].claimOrdinal = attempts[b].claimOrdinal
        /\ attempts'[a].lifecycle = "active"
        /\ \A b \in Live \ {a} : attempts'[b] = attempts[b]
        /\ DOMAIN families' = DOMAIN families
        /\ \A g \in DOMAIN families \ {f} : families'[g] = families[g]
        /\ families'[f] = Promoted(families[f], a, o)
    BY <1>2, SetPhaseEffect DEF ArbiterInv
  <2>2. /\ f \in DOMAIN families /\ families[f] \in FamilyState
    BY <1>2, LiveFacts DEF ArbiterInv
  <2>3. CoordinatorInv'
    BY <1>2, SetPhaseInv DEF ArbiterInv
  <2>4. /\ \A b : b # a => (Active(b)' <=> Active(b))
        /\ Active(a)'
    BY <1>2, <2>1 DEF Active
  <2>5. Live \subseteq 1..(nextAttemptId - 1)
    BY IdFacts DEF ArbiterInv
  <2>6. Newer(families[f], f)'
    <3>1. CASE o > families[f].latestAuthoritativeClaimOrdinal
      <4>1. /\ families'[f].latestAuthoritativeClaimOrdinal = o
            /\ families'[f].latestAuthoritativeAttemptId = a
        <5>1. families'[f] = [families[f] EXCEPT !.latestAuthoritativeClaimOrdinal = o,
                                                 !.latestAuthoritativeAttemptId = a]
          BY <2>1, <3>1 DEF Promoted
        <5> QED
          BY <2>2, <5>1, Zenon DEF FamilyState
      <4>2. \A b \in Live : attempts[b].familyKey = f /\ attempts[b].claimOrdinal < o => b < a
        BY <1>2, LowerOrdinalIsOlder DEF ArbiterInv
      <4> QED
        BY <1>2, <2>1, <2>4, <2>5, <4>1, <4>2 DEF Newer
    <3>2. CASE ~(o > families[f].latestAuthoritativeClaimOrdinal)
      <4>1. families'[f] = families[f] /\ Newer(families[f], f)
        BY <2>1, <2>2, <3>2 DEF Promoted, ArbiterInv, AuthorityIsNewer
      <4> QED
        BY <1>2, <2>1, <2>4, <4>1 DEF Newer
    <3> QED
      BY <3>1, <3>2
  <2>7. ASSUME NEW g \in DOMAIN families', g # f
        PROVE  Newer(families[g], g)'
    <3>1. families'[g] = families[g] /\ Newer(families[g], g)
      BY <2>1, <2>7 DEF ArbiterInv, AuthorityIsNewer
    <3> QED
      BY <1>2, <2>1, <2>4, <3>1 DEF Newer
  <2> QED
    BY <1>2, <2>1, <2>3, <2>4, <2>6, <2>7 DEF ArbiterInv, AuthorityIsNewer
<1> QED
  BY <1>1, <1>2

\* recomputeAuthoritativeAttempt names a running attempt, or nobody.
LEMMA RecomputedIsNewer ==
  ASSUME CoordinatorInv, NEW s \in FamilyState, NEW f,
         s.attemptIds \subseteq {b \in Live : attempts[b].familyKey = f},
         \A b \in s.attemptIds : attempts[b].claimOrdinal \in 1..s.nextClaimOrdinal
  PROVE  LET p == Recomputed(s)
         IN \/ p.latestAuthoritativeAttemptId = NoAttempt
            \/ /\ p.latestAuthoritativeAttemptId \in s.attemptIds
               /\ Active(p.latestAuthoritativeAttemptId)
               /\ p.latestAuthoritativeClaimOrdinal
                    = attempts[p.latestAuthoritativeAttemptId].claimOrdinal
<1> DEFINE candidates == {b \in s.attemptIds : Active(b)}
           Newest(b) == \A c \in candidates :
                          attempts[c].claimOrdinal <= attempts[b].claimOrdinal
           latest == CHOOSE b \in candidates : Newest(b)
           nobody == [s EXCEPT !.latestAuthoritativeClaimOrdinal = 0,
                               !.latestAuthoritativeAttemptId = NoAttempt]
           heir   == [s EXCEPT
                        !.latestAuthoritativeClaimOrdinal = attempts[latest].claimOrdinal,
                        !.latestAuthoritativeAttemptId = latest]
<1>1. Recomputed(s) = IF candidates = {} THEN nobody ELSE heir
  BY DEF Recomputed
<1>2. \A o, b :
        LET t == [s EXCEPT !.latestAuthoritativeClaimOrdinal = o,
                           !.latestAuthoritativeAttemptId = b]
        IN /\ t.latestAuthoritativeClaimOrdinal = o
           /\ t.latestAuthoritativeAttemptId = b
  BY Zenon DEF FamilyState
<1>3. CASE candidates = {}
  <2>1. nobody.latestAuthoritativeAttemptId = NoAttempt
    BY <1>2, Zenon
  <2> QED
    BY <1>1, <1>3, <2>1
<1>4. CASE candidates # {}
  <2>1. \E b \in candidates : Newest(b)
    <3> DEFINE T == {attempts[b].claimOrdinal : b \in candidates}
    <3>1. T \in SUBSET (0..s.nextClaimOrdinal) /\ T # {}
      BY <1>4
    <3>2. s.nextClaimOrdinal \in Nat
      BY DEF FamilyState
    <3>3. PICK x \in T : \A y \in T : y <= x
      BY <3>1, <3>2, GreatestNat
    <3>4. PICK b \in candidates : x = attempts[b].claimOrdinal
      BY <3>3
    <3> QED
      BY <3>3, <3>4
  <2>2. latest \in candidates
    BY <2>1
  <2>3. /\ heir.latestAuthoritativeAttemptId = latest
        /\ heir.latestAuthoritativeClaimOrdinal = attempts[latest].claimOrdinal
    BY <1>2, Zenon
  <2> HIDE DEF latest, heir, nobody
  <2> QED
    BY <1>1, <1>4, <2>2, <2>3
<1> QED
  BY <1>3, <1>4

\* The end of an attempt leaves the authority to whom it belongs, or passes it
\* on to a running sibling.
LEMMA RemovalKeepsNewer ==
  ASSUME ArbiterInv, NEW a \in Live, Release(a) \/ (Active(a) /\ Complete(a))
  PROVE  AuthorityIsNewer'
<1> PICK f : f = attempts[a].familyKey
  OBVIOUS
<1> DEFINE left == FamiliesWithout(a)
           kept == [families[f] EXCEPT !.attemptIds = Siblings(a)]
<1>1. /\ Live' = Live \ {a} /\ nextAttemptId' = nextAttemptId
      /\ \A b \in Live \ {a} : attempts'[b] = attempts[b]
      /\ DOMAIN families' = IF Siblings(a) = {} THEN DOMAIN families \ {f}
                            ELSE DOMAIN families
      /\ \A g \in DOMAIN families \ {f} : families'[g] = families[g]
  BY RemovalEffect DEF ArbiterInv
<1>2. f \in DOMAIN families /\ families[f] \in FamilyState /\ Newer(families[f], f)
  BY LiveFacts DEF ArbiterInv, AuthorityIsNewer
<1>3. \A b \in Live \ {a} : Active(b)' <=> Active(b)
  BY <1>1 DEF Active
<1>4. ASSUME NEW g \in DOMAIN families', g # f
      PROVE  Newer(families[g], g)'
  <2>1. families'[g] = families[g] /\ Newer(families[g], g)
    BY <1>1, <1>4 DEF ArbiterInv, AuthorityIsNewer
  <2> QED
    BY <1>1, <1>3, <2>1 DEF Newer
<1>5. ASSUME Siblings(a) # {} PROVE Newer(families[f], f)'
  <2>1. families[f].attemptIds \ {a} = Siblings(a)
    BY <1>2 DEF ArbiterInv, CoordinatorInv, MapsAgree, Siblings
  <2>2. left = [families EXCEPT ![f].attemptIds = Siblings(a)]
    BY <1>5, <2>1 DEF FamiliesWithout
  <2>3. f \in DOMAIN left /\ left[f] = kept
    BY <1>2, <2>2
  <2>4. Siblings(a) \in SUBSET AttemptIds
    BY DEF ArbiterInv, CoordinatorInv, TypeOK, Siblings, Live
  <2>5. /\ kept \in FamilyState
        /\ kept.attemptIds = Siblings(a)
        /\ kept.nextClaimOrdinal = families[f].nextClaimOrdinal
        /\ kept.latestAuthoritativeClaimOrdinal
             = families[f].latestAuthoritativeClaimOrdinal
        /\ kept.latestAuthoritativeAttemptId = families[f].latestAuthoritativeAttemptId
    BY <1>2, <2>4, Zenon DEF FamilyState
  <2>6. Release(a) => families' = [left EXCEPT ![f] = Recomputed(@)]
    BY <2>3 DEF Release
  <2>7. (Active(a) /\ Complete(a)) => families' = left
    BY DEF Complete
  <2> HIDE DEF left, kept
  <2>8. families'[f] = kept \/ families'[f] = Recomputed(kept)
    BY <2>3, <2>6, <2>7
  <2>9. CASE families'[f] = kept
    BY <1>1, <1>2, <1>3, <2>5, <2>9 DEF Newer
  <2>10. CASE families'[f] = Recomputed(kept)
    <3>1. \A b \in Siblings(a) :
            /\ b \in Live /\ attempts[b].familyKey = f
            /\ attempts[b].claimOrdinal \in 1..kept.nextClaimOrdinal
      <4> SUFFICES ASSUME NEW b \in Siblings(a)
                   PROVE  /\ b \in Live /\ attempts[b].familyKey = f
                          /\ attempts[b].claimOrdinal \in 1..kept.nextClaimOrdinal
        OBVIOUS
      <4>1. b \in Live /\ attempts[b].familyKey = f
        BY DEF Siblings
      <4>2. /\ attempts[b].claimOrdinal \in 1..(families[f].nextClaimOrdinal - 1)
            /\ families[f].nextClaimOrdinal \in Nat
        BY <4>1, LiveFacts DEF ArbiterInv
      <4> QED
        BY <2>5, <4>1, <4>2
    <3> DEFINE p == Recomputed(kept)
               b == p.latestAuthoritativeAttemptId
    <3>2. \/ b = NoAttempt
          \/ /\ b \in Siblings(a) /\ Active(b)
             /\ p.latestAuthoritativeClaimOrdinal = attempts[b].claimOrdinal
      BY <2>5, <3>1, RecomputedIsNewer DEF ArbiterInv
    <3> HIDE DEF p
    <3>3. CASE b = NoAttempt
      BY <2>10, <3>3 DEF Newer, p
    <3>4. CASE b # NoAttempt
      <4>1. /\ b \in Live \ {a} /\ attempts[b].familyKey = f /\ Active(b)
            /\ p.latestAuthoritativeClaimOrdinal = attempts[b].claimOrdinal
        BY <3>2, <3>4 DEF Siblings
      <4>2. b \in 1..(nextAttemptId - 1)
        BY <4>1, IdFacts DEF ArbiterInv
      <4>3. \A c \in Live : /\ attempts[c].familyKey = f
                            /\ attempts[c].claimOrdinal < attempts[b].claimOrdinal
                            => c < b
        BY <4>1, LowerOrdinalIsOlder DEF ArbiterInv
      <4> QED
        BY <1>1, <1>3, <2>10, <4>1, <4>2, <4>3 DEF Newer, p
    <3> QED
      BY <3>3, <3>4
  <2> QED
    BY <2>8, <2>9, <2>10
<1> QED
  BY <1>1, <1>4, <1>5 DEF AuthorityIsNewer

LEMMA RemovalKeepsArbiter ==
  ASSUME ArbiterInv, NEW a, Release(a) \/ Complete(a)
  PROVE  /\ ArbiterInv'
         /\ nextAttemptId' = nextAttemptId
         /\ Live' \subseteq Live /\ Live \ {a} \subseteq Live'
         /\ \A b : b # a => (Active(b)' <=> Active(b))
         /\ Release(a) \/ Active(a) => a \notin Live'
<1>1. CASE a \in Live /\ (Release(a) \/ (Active(a) /\ Complete(a)))
  <2>1. AuthorityIsNewer'
    BY <1>1, RemovalKeepsNewer
  <2>2. CoordinatorInv'
    BY <1>1, RemovalInv DEF ArbiterInv
  <2>3. /\ Live' = Live \ {a} /\ nextAttemptId' = nextAttemptId
        /\ \A b \in Live \ {a} : attempts'[b] = attempts[b]
    BY <1>1, RemovalEffect DEF ArbiterInv
  <2> QED
    BY <2>1, <2>2, <2>3 DEF ArbiterInv, Active
<1>2. CASE ~(a \in Live /\ (Release(a) \/ (Active(a) /\ Complete(a))))
  <2>1. UNCHANGED coordinatorVars /\ ~(a \in Live /\ Release(a)) /\ ~(Active(a) /\ Complete(a))
    BY <1>2 DEF Release, Complete, coordinatorVars, Active
  <2> QED
    BY <1>2, <2>1, UnchangedInv
       DEF ArbiterInv, AuthorityIsNewer, Newer, coordinatorVars, Live, Active, Release,
           Complete
<1> QED
  BY <1>1, <1>2

-----------------------------------------------------------------------------
(* The steps of the bodies *)

BodyTypes ==
  /\ base \in AttemptIds \cup {NoAttempt}
  /\ retry \in AttemptIds \cup {NoAttempt}
  /\ pc \in Stages
  /\ abandoned \subseteq {"base", "retry"}
  /\ posted \subseteq {"canonical", "degraded"}

\* What no step of a process takes back, and when the writes that the base or
\* the catch waits for must have landed.
BodyStep ==
  /\ base' # base => base = NoAttempt /\ base' = nextAttemptId /\ retry' = retry
  /\ retry' # retry => retry = NoAttempt /\ retry' = nextAttemptId
  /\ Others \subseteq Others'
  /\ posted \subseteq posted'
  /\ posted' = posted \/ pc.retry \in {"posting", "details"}
  /\ pc'.retry # "none" => pc.retry # "none" \/ pc.base = "scheduling"
  /\ pc'.catch = "idle" => pc.catch = "idle"
  /\ pc.retry \in {"failing", "done"} => pc'.retry \in {"failing", "done"}
  /\ pc.base = "scheduling" => pc'.base = "scheduling" \/ Answered("base")
  /\ pc'.catch = "released" =>
       pc.catch = "released" \/ (pc.catch = "finalizing" /\ Answered("catch"))

BodyKept == ArbiterInv' /\ BodyInv' /\ BodyTypes' /\ BodyStep

\* What superseded the review or its retry is neither of them, and newer.
LEMMA SupersederIsAnother ==
  ASSUME ArbiterInv, BodyInv, NEW a, a \in {base, retry}, Superseder(a) # NoAttempt
  PROVE  Superseder(a) \in Others /\ Superseder(a) \in AttemptIds /\ a < Superseder(a)
<1> PICK f : f = attempts[a].familyKey
  OBVIOUS
<1> PICK b : b = Superseder(a)
  OBVIOUS
<1>1. /\ a \in Live /\ f \in DOMAIN families
      /\ families[f].latestAuthoritativeClaimOrdinal > attempts[a].claimOrdinal
      /\ families[f].latestAuthoritativeAttemptId = b
  BY DEF Superseder, SupersedingAttemptId
<1>2. /\ attempts[a].claimOrdinal \in Nat
      /\ families[f].latestAuthoritativeClaimOrdinal \in Nat
      /\ a \in Nat
  BY <1>1, LiveFacts DEF ArbiterInv, Attempt, AttemptIds
<1>3. /\ b \in 1..(nextAttemptId - 1)
      /\ b \in Live => Active(b)
      /\ a < b
  BY <1>1, <1>2 DEF ArbiterInv, AuthorityIsNewer, Newer
<1>4. b \in AttemptIds
  BY <1>3, IdFacts DEF ArbiterInv
<1>5. b \notin {base, retry}
  <2>1. CASE a = base
    <3>1. b # retry
      BY <1>1, <1>3, <2>1 DEF BodyInv
    <3> QED
      BY <1>2, <1>3, <2>1, <3>1
  <2>2. CASE a = retry
    <3>1. base < retry /\ base \in Nat
      BY <1>1, <2>2, IdFacts DEF BodyInv, ArbiterInv, NoAttempt
    <3> QED
      BY <1>2, <1>3, <2>2, <3>1
  <2> QED
    BY <2>1, <2>2
<1> QED
  BY <1>3, <1>4, <1>5 DEF Others

LEMMA PcFields ==
  ASSUME pc \in Stages
  PROVE  /\ \A s \in {"idle", "gates", "working", "blocking", "scheduling", "done"} :
              LET p == [pc EXCEPT !.base = s]
              IN p \in Stages /\ p.base = s /\ p.retry = pc.retry /\ p.catch = pc.catch
         /\ \A s \in {"none", "queued", "working", "merging", "posting", "fallback",
                      "details", "settling", "failing", "cleaning", "done",
                      "rejected"} :
              LET p == [pc EXCEPT !.retry = s]
              IN p \in Stages /\ p.retry = s /\ p.base = pc.base /\ p.catch = pc.catch
         /\ \A s \in {"idle", "finalizing", "released"} :
              LET p == [pc EXCEPT !.catch = s]
              IN p \in Stages /\ p.catch = s /\ p.base = pc.base /\ p.retry = pc.retry
<1> QED
  BY DEF Stages

\* The delivery claims the review.
LEMMA ReceiveKeepsBody ==
  ASSUME FamilyInv, ReceiveDelivery
  PROVE  BodyKept
<1> PICK a : a = nextAttemptId
  OBVIOUS
<1>1. /\ pc.base = "idle" /\ Claim(a, Family, "claimed") /\ base' = a
      /\ pc' = [pc EXCEPT !.base = "gates"]
      /\ retry' = retry /\ abandoned' = abandoned /\ posted' = posted
  BY DEF ReceiveDelivery, recordVars
<1>2. ArbiterInv /\ BodyInv /\ BodyTypes
  BY DEF FamilyInv, FamilyTypeOK, BodyTypes
<1>3. /\ ArbiterInv' /\ a \in AttemptIds /\ nextAttemptId' = nextAttemptId + 1
      /\ a \notin Live /\ Live' = Live \cup {a}
  BY <1>1, <1>2, ClaimKeepsArbiter
<1>4. pc' \in Stages /\ pc'.base = "gates" /\ pc'.retry = pc.retry /\ pc'.catch = pc.catch
  BY <1>1, <1>2, PcFields DEF BodyTypes
<1>5. base = NoAttempt /\ retry = NoAttempt /\ pc.retry = "none" /\ posted = {} /\ pc.catch = "idle"
  BY <1>1, <1>2 DEF BodyInv
<1>6. nextAttemptId \in Nat \ {0}
  BY <1>2, IdFacts DEF ArbiterInv
<1>7. BodyTypes'
  BY <1>1, <1>2, <1>3, <1>4 DEF BodyTypes
<1>8. "base" \notin abandoned
  BY <1>1, <1>2 DEF BodyInv
<1>9. BodyInv'
  BY <1>1, <1>3, <1>4, <1>5, <1>6, <1>8 DEF BodyInv, NoAttempt
<1>10. Others \subseteq Others'
  BY <1>1, <1>3, <1>5, <1>6 DEF Others, NoAttempt
<1>11. BodyStep
  BY <1>1, <1>4, <1>5, <1>10 DEF BodyStep
<1> QED
  BY <1>3, <1>7, <1>9, <1>11 DEF BodyKept

\* The review claims its retry, and goes on to schedule it or fails.
LEMMA PlanKeepsBody ==
  ASSUME FamilyInv, TimesOutWithRetry
  PROVE  BodyKept
<1> PICK a : a = nextAttemptId
  OBVIOUS
<1>1. /\ pc.base = "working" /\ retry = NoAttempt
      /\ Claim(a, Family, "claimed") /\ retry' = a
      /\ pc' = [pc EXCEPT !.base = "scheduling"] \/ pc' = pc
      /\ base' = base /\ abandoned' = abandoned /\ posted' = posted
  BY DEF TimesOutWithRetry
<1>2. ArbiterInv /\ BodyInv /\ BodyTypes
  BY DEF FamilyInv, FamilyTypeOK, BodyTypes
<1>3. /\ ArbiterInv' /\ a \in AttemptIds /\ nextAttemptId' = nextAttemptId + 1
      /\ a \notin Live /\ Live' = Live \cup {a} /\ ~Active(a)'
      /\ \A b \in Live : Active(b)' <=> Active(b)
  BY <1>1, <1>2, ClaimKeepsArbiter
<1>4. /\ pc' \in Stages /\ pc'.base \in {"scheduling", "working"}
      /\ pc'.retry = pc.retry /\ pc'.catch = pc.catch
  <2>1. CASE pc' = [pc EXCEPT !.base = "scheduling"]
    BY <1>2, <2>1, PcFields DEF BodyTypes
  <2>2. CASE pc' = pc
    BY <1>1, <1>2, <2>2 DEF BodyTypes
  <2> QED
    BY <1>1, <2>1, <2>2
<1>5. pc.retry = "none" /\ posted = {} /\ pc.catch = "idle" /\ base \in 1..(nextAttemptId - 1)
  BY <1>1, <1>2 DEF BodyInv
<1>6. nextAttemptId \in Nat \ {0} /\ Live \subseteq 1..(nextAttemptId - 1)
  BY <1>2, IdFacts DEF ArbiterInv
<1>7. BodyTypes'
  BY <1>1, <1>2, <1>3, <1>4 DEF BodyTypes
<1>8. BodyInv'
  BY <1>1, <1>2, <1>3, <1>4, <1>5, <1>6 DEF BodyInv, NoAttempt
<1>9. Others \subseteq Others'
  BY <1>1, <1>3, <1>5, <1>6 DEF Others, NoAttempt
<1>10. BodyStep
  BY <1>1, <1>4, <1>5, <1>9 DEF BodyStep
<1> QED
  BY <1>3, <1>7, <1>8, <1>10 DEF BodyKept

\* The bodies start.
LEMMA StartKeepsBody ==
  ASSUME FamilyInv, BeginWork \/ RetryStarts
  PROVE  BodyKept
<1>1. PICK a \in {base, retry} :
        /\ SetPhase(a)
        /\ \/ a = base /\ pc.base = "gates" /\ pc' = [pc EXCEPT !.base = "working"]
           \/ /\ a = retry /\ pc.retry = "queued" /\ pc' = [pc EXCEPT !.retry = "working"]
              /\ pc.base = "done" \/ "base" \in abandoned
        /\ UNCHANGED <<base, retry, abandoned, posted>>
  BY DEF BeginWork, RetryStarts
<1>2. ArbiterInv /\ BodyInv /\ BodyTypes
  BY DEF FamilyInv, FamilyTypeOK, BodyTypes
<1>3. /\ ArbiterInv' /\ nextAttemptId' = nextAttemptId /\ Live' = Live
      /\ \A b : b # a => (Active(b)' <=> Active(b))
      /\ a \in Live => Active(a)'
  BY <1>1, <1>2, SetPhaseKeepsArbiter
<1>4. /\ pc' \in Stages /\ pc'.catch = pc.catch
      /\ \/ a = base /\ pc.base = "gates" /\ pc'.base = "working" /\ pc'.retry = pc.retry
         \/ /\ a = retry /\ pc.retry = "queued" /\ pc'.retry = "working"
            /\ pc'.base = pc.base
            /\ pc.base = "done" \/ "base" \in abandoned
  <2>1. CASE pc' = [pc EXCEPT !.base = "working"] /\ pc.base = "gates" /\ a = base
    BY <1>2, <2>1, PcFields DEF BodyTypes
  <2>2. CASE /\ pc' = [pc EXCEPT !.retry = "working"] /\ pc.retry = "queued" /\ a = retry
             /\ pc.base = "done" \/ "base" \in abandoned
    BY <1>2, <2>2, PcFields DEF BodyTypes
  <2> QED
    BY <1>1, <2>1, <2>2
<1>5. retry # NoAttempt => base # retry
  BY <1>2, IdFacts DEF BodyInv, ArbiterInv, NoAttempt
<1>6. BodyTypes'
  BY <1>1, <1>2, <1>4 DEF BodyTypes
<1>7. BodyInv'
  <2>1. CASE a = base /\ pc.base = "gates" /\ pc'.base = "working" /\ pc'.retry = pc.retry
    BY <1>1, <1>2, <1>3, <1>4, <1>5, <2>1 DEF BodyInv
  <2>2. CASE /\ a = retry /\ pc.retry = "queued" /\ pc'.retry = "working"
             /\ pc'.base = pc.base
             /\ pc.base = "done" \/ "base" \in abandoned
    BY <1>1, <1>2, <1>3, <1>4, <1>5, <2>2 DEF BodyInv
  <2> QED
    BY <1>4, <2>1, <2>2
<1>8. BodyStep
  BY <1>1, <1>3, <1>4 DEF BodyStep, Others
<1> QED
  BY <1>3, <1>6, <1>7, <1>8 DEF BodyKept

\* The attempt of the review ends, with its body or before it.
LEMMA BaseEndKeepsBody ==
  ASSUME FamilyInv, BaseEnds \/ BaseIsAbandoned
  PROVE  BodyKept
<1>1. /\ IF pc.base = "gates" THEN Release(base) ELSE Complete(base)
      /\ UNCHANGED <<base, retry, posted>>
      /\ pc.base # "idle"
      /\ \/ pc' = [pc EXCEPT !.base = "done"] /\ abandoned' = abandoned
            /\ pc.base # "scheduling"
         \/ pc' = pc /\ abandoned' = abandoned \cup {"base"}
  BY DEF BaseEnds, BaseIsAbandoned
<1>2. ArbiterInv /\ BodyInv /\ BodyTypes
  BY DEF FamilyInv, FamilyTypeOK, BodyTypes
<1>3. /\ ArbiterInv' /\ nextAttemptId' = nextAttemptId
      /\ Live' \subseteq Live /\ Live \ {base} \subseteq Live'
      /\ \A b : b # base => (Active(b)' <=> Active(b))
      /\ Release(base) \/ Active(base) => base \notin Live'
  BY <1>1, <1>2, RemovalKeepsArbiter
<1>4. base \notin Live'
  BY <1>1, <1>2, <1>3 DEF BodyInv
<1>5. /\ pc' \in Stages /\ pc'.retry = pc.retry /\ pc'.catch = pc.catch
      /\ pc'.base # "idle"
      /\ pc'.base = "scheduling" => pc.base = "scheduling"
      /\ pc.base = "scheduling" => pc'.base = "scheduling"
  <2>1. CASE pc' = [pc EXCEPT !.base = "done"] /\ pc.base # "scheduling"
    BY <1>2, <2>1, PcFields DEF BodyTypes
  <2>2. CASE pc' = pc
    BY <1>1, <1>2, <2>2 DEF BodyTypes
  <2> QED
    BY <1>1, <2>1, <2>2
<1>6. retry # NoAttempt => base # retry
  BY <1>2, IdFacts DEF BodyInv, ArbiterInv, NoAttempt
<1>7. BodyTypes'
  BY <1>1, <1>2, <1>5 DEF BodyTypes
<1>8. BodyInv'
  <2>1. base # NoAttempt
    BY <1>1, <1>2 DEF BodyInv
  <2> QED
    BY <1>1, <1>2, <1>3, <1>4, <1>5, <1>6, <2>1 DEF BodyInv
<1>9. BodyStep
  BY <1>1, <1>3, <1>5 DEF BodyStep, Others
<1> QED
  BY <1>3, <1>7, <1>8, <1>9 DEF BodyKept

\* The attempt of the retry ends.
LEMMA RetryEndKeepsBody ==
  ASSUME FamilyInv, RetryEnds \/ CatchReleases
  PROVE  BodyKept
<1>1. /\ Complete(retry) \/ Release(retry) \/ UNCHANGED coordinatorVars
      /\ UNCHANGED <<base, retry, abandoned, posted>>
      /\ \/ /\ pc.retry \in {"cleaning", "failing"}
            /\ pc' = [pc EXCEPT !.retry = "done"]
         \/ /\ pc.retry = "cleaning"
            /\ pc' = [pc EXCEPT !.retry = "rejected"]
         \/ /\ pc.catch = "finalizing" /\ Answered("catch")
            /\ pc' = [pc EXCEPT !.catch = "released"]
  BY DEF RetryEnds, CatchReleases
<1>2. ArbiterInv /\ BodyInv /\ BodyTypes
  BY DEF FamilyInv, FamilyTypeOK, BodyTypes
<1>3. /\ ArbiterInv' /\ nextAttemptId' = nextAttemptId /\ Live' \subseteq Live
  <2>1. CASE UNCHANGED coordinatorVars
    BY <1>2, <2>1, UnchangedInv
       DEF ArbiterInv, AuthorityIsNewer, Newer, coordinatorVars, Live, Active
  <2> QED
    BY <1>1, <1>2, <2>1, RemovalKeepsArbiter
<1>4. /\ pc' \in Stages /\ pc'.base = pc.base
      /\ \/ /\ pc.retry \in {"cleaning", "failing"} /\ pc'.retry = "done"
            /\ pc'.catch = pc.catch
         \/ /\ pc.retry = "cleaning" /\ pc'.retry = "rejected"
            /\ pc'.catch = pc.catch
         \/ /\ pc.catch = "finalizing" /\ Answered("catch")
            /\ pc'.catch = "released" /\ pc'.retry = pc.retry
  <2>1. pc \in Stages
    BY <1>2 DEF BodyTypes
  <2>2. CASE pc.retry \in {"cleaning", "failing"} /\ pc' = [pc EXCEPT !.retry = "done"]
    BY <2>1, <2>2, PcFields
  <2>3. CASE pc.retry = "cleaning" /\ pc' = [pc EXCEPT !.retry = "rejected"]
    BY <2>1, <2>3, PcFields
  <2>4. CASE /\ pc.catch = "finalizing" /\ Answered("catch")
             /\ pc' = [pc EXCEPT !.catch = "released"]
    BY <2>1, <2>4, PcFields
  <2> QED
    BY <1>1, <2>2, <2>3, <2>4
<1>5. base \notin Live /\ pc.retry \notin {"none", "queued"} /\ pc'.retry \notin {"none", "queued"}
  BY <1>2, <1>4 DEF BodyInv
<1>6. BodyTypes'
  BY <1>1, <1>2, <1>4 DEF BodyTypes
<1>7. BodyInv'
  BY <1>1, <1>2, <1>3, <1>4, <1>5 DEF BodyInv
<1>8. BodyStep
  BY <1>1, <1>3, <1>4 DEF BodyStep, Others
<1> QED
  BY <1>3, <1>6, <1>7, <1>8 DEF BodyKept

\* Another review of the pull request makes any call of its own.
LEMMA OtherKeepsBody ==
  ASSUME FamilyInv, OtherReview
  PROVE  BodyKept
<1>1. /\ UNCHANGED <<base, retry, pc, abandoned, posted>>
      /\ \/ Claim(nextAttemptId, Family, "claimed")
         \/ \E a \in Others : SetPhase(a) \/ Complete(a) \/ Release(a)
  BY DEF OtherReview, bodyVars
<1>2. ArbiterInv /\ BodyInv /\ BodyTypes
  BY DEF FamilyInv, FamilyTypeOK, BodyTypes
<1>3. nextAttemptId \in Nat \ {0} /\ Live \subseteq 1..(nextAttemptId - 1)
  BY <1>2, IdFacts DEF ArbiterInv
<1>4. /\ ArbiterInv' /\ nextAttemptId' \in {nextAttemptId, nextAttemptId + 1}
      /\ \A b \in 1..(nextAttemptId - 1) \cap {base, retry} :
           (b \in Live' <=> b \in Live) /\ (Active(b)' <=> Active(b))
  <2>1. ASSUME NEW a, a = nextAttemptId, Claim(a, Family, "claimed")
        PROVE  <1>4
    <3>1. /\ ArbiterInv' /\ nextAttemptId' = nextAttemptId + 1
          /\ Live' = Live \cup {a} /\ a \notin Live
          /\ \A b \in Live : Active(b)' <=> Active(b)
      BY <1>2, <2>1, ClaimKeepsArbiter
    <3>2. \A b \in 1..(nextAttemptId - 1) : b # a
      BY <1>3, <2>1
    <3> QED
      BY <3>1, <3>2 DEF Active
  <2>2. ASSUME NEW a \in Others, SetPhase(a) PROVE <1>4
    <3>1. a \notin {base, retry}
      BY DEF Others
    <3> QED
      BY <1>2, <2>2, <3>1, SetPhaseKeepsArbiter
  <2>3. ASSUME NEW a \in Others, Complete(a) \/ Release(a) PROVE <1>4
    <3>1. a \notin {base, retry}
      BY DEF Others
    <3>2. /\ ArbiterInv' /\ nextAttemptId' = nextAttemptId
          /\ Live' \subseteq Live /\ Live \ {a} \subseteq Live'
          /\ \A b : b # a => (Active(b)' <=> Active(b))
      BY <1>2, <2>3, RemovalKeepsArbiter
    <3> QED
      BY <3>1, <3>2
  <2> QED
    BY <1>1, <2>1, <2>2, <2>3
<1>5. /\ base # NoAttempt => base \in 1..(nextAttemptId - 1)
      /\ retry # NoAttempt => retry \in 1..(nextAttemptId - 1)
      /\ NoAttempt \notin Live'
  <2>1. NoAttempt \notin Live'
    BY <1>4 DEF ArbiterInv, CoordinatorInv, TypeOK, Live, AttemptIds, NoAttempt
  <2> QED
    BY <1>2, <2>1 DEF BodyInv
<1>6. BodyTypes'
  BY <1>1, <1>2 DEF BodyTypes
<1>7. BodyInv'
  BY <1>1, <1>2, <1>3, <1>4, <1>5 DEF BodyInv
<1>8. Others \subseteq Others'
  BY <1>1, <1>3, <1>4 DEF Others
<1>9. BodyStep
  BY <1>1, <1>8 DEF BodyStep
<1> QED
  BY <1>4, <1>6, <1>7, <1>9 DEF BodyKept

\* The steps that leave the coordinator alone: gates, records and awaits.
LEMMA RecordKeepsBody ==
  ASSUME FamilyInv,
         \/ BaseGateCloses \/ TimesOutForGood \/ EnqueueRetry
         \/ RetrySettlesQuietly \/ RetryMerges
         \/ MergeChecks \/ MergeReturns \/ FallbackChecks \/ FallbackReturns
         \/ RetryThrows \/ RetryRecorded \/ RetryRejects
  PROVE  BodyKept
<1> DEFINE BaseMoves ==
             /\ pc' \in Stages /\ pc'.retry = pc.retry /\ pc'.catch = pc.catch
             /\ pc.base = "working" /\ pc'.base \in {"working", "blocking"}
             /\ abandoned' = abandoned /\ posted' = posted
           Enqueues ==
             /\ pc' \in Stages /\ pc'.retry = "queued" /\ pc'.catch = pc.catch
             /\ pc.base = "scheduling" /\ pc'.base = "working" /\ Answered("base")
             /\ abandoned' = abandoned /\ posted' = posted
           RetryMoves ==
             /\ pc' \in Stages /\ pc'.base = pc.base /\ pc'.catch = pc.catch
             /\ \/ /\ pc.retry = "working" /\ posted' = posted
                   /\ pc'.retry \in {"settling", "cleaning", "merging", "failing"}
                \/ /\ pc.retry = "merging" /\ posted' = posted
                   /\ pc'.retry \in {"posting", "settling", "fallback"}
                \/ /\ pc.retry = "posting"
                   /\ posted' \in {posted, posted \cup {"canonical"}}
                   /\ pc'.retry \in {"settling", "fallback"}
                \/ /\ pc.retry = "fallback" /\ posted' = posted
                   /\ pc'.retry \in {"details", "settling"}
                \/ /\ pc.retry = "details" /\ pc'.retry = "settling"
                   /\ posted' \in {posted, posted \cup {"degraded"}}
                \/ /\ pc.retry = "settling" /\ posted' = posted /\ pc'.retry = "cleaning"
             /\ abandoned' = abandoned
           Catches ==
             /\ pc' \in Stages /\ pc'.base = pc.base /\ pc'.retry = pc.retry
             /\ pc.catch = "idle" /\ pc'.catch = "finalizing"
             /\ pc.retry \notin {"none", "queued", "done"}
             /\ abandoned' \in {abandoned, abandoned \cup {"retry"}} /\ posted' = posted
<1>1. UNCHANGED coordinatorVars /\ UNCHANGED <<base, retry>>
  BY DEF BaseGateCloses, TimesOutForGood, EnqueueRetry, RetrySettlesQuietly, RetryMerges,
         MergeChecks, MergeReturns, FallbackChecks, FallbackReturns, RetryThrows,
         RetryRecorded, RetryRejects, bodyVars
<1>2. ArbiterInv /\ BodyInv /\ BodyTypes
  BY DEF FamilyInv, FamilyTypeOK, BodyTypes
<1>3. /\ ArbiterInv' /\ nextAttemptId' = nextAttemptId /\ Live' = Live
      /\ \A b : Active(b)' <=> Active(b)
  BY <1>1, <1>2, UnchangedInv
     DEF ArbiterInv, AuthorityIsNewer, Newer, coordinatorVars, Live, Active
<1>4. BaseMoves \/ Enqueues \/ RetryMoves \/ Catches
  <2>1. pc \in Stages
    BY <1>2 DEF BodyTypes
  <2>2. CASE BaseGateCloses
    BY <2>1, <2>2 DEF BaseGateCloses, bodyVars
  <2>3. CASE TimesOutForGood
    BY <2>1, <2>3, PcFields DEF TimesOutForGood
  <2>4. CASE EnqueueRetry
    <3> PICK p : p = [pc EXCEPT !.base = "working"]
      OBVIOUS
    <3>1. p \in Stages /\ p.base = "working" /\ p.retry = pc.retry /\ p.catch = pc.catch
      BY <2>1, PcFields
    <3>2. pc' = [p EXCEPT !.retry = "queued"]
      BY <2>1, <2>4 DEF EnqueueRetry, Stages
    <3>3. pc' \in Stages /\ pc'.retry = "queued" /\ pc'.base = "working" /\ pc'.catch = pc.catch
      BY <3>1, <3>2 DEF Stages
    <3> QED
      BY <2>4, <3>3 DEF EnqueueRetry
  <2>5. CASE RetrySettlesQuietly
    <3>1. pc.retry = "working" /\ posted' = posted /\ abandoned' = abandoned
      BY <2>5 DEF RetrySettlesQuietly
    <3>2. PICK s \in {"settling", "cleaning"} : pc' = [pc EXCEPT !.retry = s]
      BY <2>5 DEF RetrySettlesQuietly
    <3> QED
      BY <2>1, <3>1, <3>2, PcFields
  <2>6. CASE RetryMerges
    <3>1. pc.retry = "working" /\ posted' = posted /\ abandoned' = abandoned
      BY <2>6 DEF RetryMerges
    <3>2. PICK s \in {"merging", "cleaning"} : pc' = [pc EXCEPT !.retry = s]
      BY <2>6 DEF RetryMerges
    <3> QED
      BY <2>1, <3>1, <3>2, PcFields
  <2>7. CASE MergeReturns
    <3>1. /\ pc.retry = "posting" /\ abandoned' = abandoned
          /\ posted' \in {posted, posted \cup {"canonical"}}
      BY <2>7 DEF MergeReturns
    <3>2. PICK s \in {"settling", "fallback"} : pc' = [pc EXCEPT !.retry = s]
      BY <2>7 DEF MergeReturns
    <3> QED
      BY <2>1, <3>1, <3>2, PcFields
  <2>8. CASE RetryThrows
    BY <2>1, <2>8, PcFields DEF RetryThrows
  <2>9. CASE RetryRecorded
    BY <2>1, <2>9, PcFields DEF RetryRecorded
  <2>10. CASE RetryRejects
    <3>1. /\ pc.catch = "idle" /\ pc' = [pc EXCEPT !.catch = "finalizing"]
          /\ pc.retry \notin {"none", "queued", "done"} /\ posted' = posted
          /\ abandoned' \in {abandoned, abandoned \cup {"retry"}}
      BY <2>10 DEF RetryRejects
    <3> QED
      BY <2>1, <3>1, PcFields
  <2>11. CASE MergeChecks
    <3>1. pc.retry = "merging" /\ posted' = posted /\ abandoned' = abandoned
      BY <2>11 DEF MergeChecks
    <3>2. PICK s \in {"posting", "settling", "fallback"} : pc' = [pc EXCEPT !.retry = s]
      BY <2>11 DEF MergeChecks
    <3> QED
      BY <2>1, <3>1, <3>2, PcFields
  <2>12. CASE FallbackChecks
    <3>1. pc.retry = "fallback" /\ posted' = posted /\ abandoned' = abandoned
      BY <2>12 DEF FallbackChecks
    <3>2. PICK s \in {"details", "settling"} : pc' = [pc EXCEPT !.retry = s]
      BY <2>12 DEF FallbackChecks
    <3> QED
      BY <2>1, <3>1, <3>2, PcFields
  <2>13. CASE FallbackReturns
    <3>1. /\ pc.retry = "details" /\ abandoned' = abandoned
          /\ posted' \in {posted, posted \cup {"degraded"}}
          /\ pc' = [pc EXCEPT !.retry = "settling"]
      BY <2>13 DEF FallbackReturns
    <3> QED
      BY <2>1, <3>1, PcFields
  <2> QED
    BY <2>2, <2>3, <2>4, <2>5, <2>6, <2>7, <2>8, <2>9, <2>10, <2>11, <2>12, <2>13
<1>5. BodyTypes'
  BY <1>1, <1>2, <1>4 DEF BodyTypes
<1>6. BodyInv'
  <2>1. CASE BaseMoves
    BY <1>1, <1>2, <1>3, <2>1 DEF BodyInv
  <2>2. CASE Enqueues
    BY <1>1, <1>2, <1>3, <2>2 DEF BodyInv
  <2>3. CASE RetryMoves
    BY <1>1, <1>2, <1>3, <2>3 DEF BodyInv
  <2>4. CASE Catches
    BY <1>1, <1>2, <1>3, <2>4 DEF BodyInv
  <2> QED
    BY <1>4, <2>1, <2>2, <2>3, <2>4
<1>7. BodyStep
  <2>1. posted # {} => pc.retry \notin {"working", "merging", "posting"}
    BY <1>2 DEF BodyInv
  <2>2. CASE BaseMoves
    BY <1>1, <1>3, <2>2 DEF BodyStep, Others
  <2>3. CASE Enqueues
    BY <1>1, <1>2, <1>3, <2>3 DEF BodyStep, Others, BodyInv
  <2>4. CASE RetryMoves
    BY <1>1, <1>3, <2>1, <2>4 DEF BodyStep, Others
  <2>5. CASE Catches
    BY <1>1, <1>3, <2>5 DEF BodyStep, Others
  <2> QED
    BY <1>4, <2>2, <2>3, <2>4, <2>5
<1> QED
  BY <1>3, <1>5, <1>6, <1>7 DEF BodyKept

-----------------------------------------------------------------------------
(* The writes of a step *)

\* The writes ws set out, and newest is the newest attempt named so far.
Issued(ws) ==
  /\ writes' = writes \cup ws
  /\ newest' \in AttemptIds \cup {NoAttempt}
  /\ newest <= newest'
  /\ \A w \in ws : w.attempt <= newest'
  /\ newest' = newest \/ \E w \in ws : w.attempt = newest'

LEMMA IssueEffect ==
  ASSUME newest \in AttemptIds \cup {NoAttempt}, NEW ws \in SUBSET Write, Issue(ws)
  PROVE  Issued(ws)
<1> DEFINE asked == {newest} \cup {w.attempt : w \in ws}
<1>1. MaxAttempts \in Nat
  BY MaxAttemptsAssumption
<1>2. \A w \in ws : w.attempt \in AttemptIds
  BY DEF Write
<1>3. AttemptIds \cup {NoAttempt} = 0..MaxAttempts
  BY <1>1 DEF AttemptIds, NoAttempt
<1>4. asked \in SUBSET (0..MaxAttempts) /\ asked # {}
  BY <1>2, <1>3
<1>5. \E n \in asked : \A m \in asked : m <= n
  BY <1>1, <1>4, GreatestNat
<1>6. newest' \in asked /\ \A m \in asked : m <= newest'
  BY <1>5 DEF Issue
<1>7. writes' = writes \cup ws
  BY DEF Issue
<1> QED
  BY <1>3, <1>4, <1>6, <1>7 DEF Issued

LEMMA NothingIssued ==
  ASSUME newest \in AttemptIds \cup {NoAttempt}, UNCHANGED <<writes, newest>>
  PROVE  Issued({})
<1> QED
  BY MaxAttemptsAssumption DEF Issued, AttemptIds, NoAttempt

\* What was true to say stays true.
LEMMA FitsStays ==
  ASSUME FamilyInv, BodyKept, NEW x, Fits(x)
  PROVE  Fits(x)'
<1>1. BodyInv /\ BodyStep
  BY DEF FamilyInv, BodyKept
<1>2. x.outcome # "superseded" =>
        /\ x.attempt \in {base', retry'}
        /\ x.attempt = retry => retry' = retry
        /\ x.attempt = retry' => x.attempt = retry
  <2>1. SUFFICES ASSUME x.outcome # "superseded"
                 PROVE  /\ x.attempt \in {base', retry'}
                        /\ x.attempt = retry => retry' = retry
                        /\ x.attempt = retry' => x.attempt = retry
    OBVIOUS
  <2>2. x.attempt # NoAttempt /\ x.attempt \in {base, retry}
    BY <2>1 DEF Fits
  <2>3. nextAttemptId \notin {base, retry}
    <3>1. nextAttemptId \in Nat \ {0}
      BY IdFacts DEF FamilyInv, ArbiterInv
    <3> QED
      BY <1>1, <3>1 DEF BodyInv, NoAttempt
  <2> QED
    BY <1>1, <2>2, <2>3 DEF BodyStep
<1>3. /\ x.outcome = "superseded" => x.attempt \in Others' /\ x.projection = "canonical"
      /\ x.outcome # "superseded" => x.attempt # NoAttempt
      /\ x.outcome \in {"merged", "continuation-pending"} => x.attempt = retry'
  BY <1>1, <1>2 DEF BodyStep, Fits
<1>4. x.outcome = "merged" /\ x.projection # "pending" => x.projection \in posted'
  BY <1>1 DEF BodyStep, Fits
<1>5. x.outcome = "blocked" /\ x.attempt = retry' /\ pc'.catch = "idle"
        => posted' = {} /\ pc'.retry \in {"failing", "done"}
  BY <1>1, <1>2 DEF BodyStep, Fits
<1> QED
  BY <1>2, <1>3, <1>4, <1>5 DEF Fits

\* A step of a body keeps the invariant if what it writes is so.
LEMMA StepKeeps ==
  ASSUME FamilyInv, BodyKept, UNCHANGED <<process, row, lost>>,
         NEW ws \in SUBSET Write, Issued(ws),
         \A w \in ws : Fits(w)',
         \A w \in ws : w.outcome = "continuation-pending" =>
           w.by = "base" /\ pc'.base = "scheduling",
         pc'.base = "scheduling" =>
           pc.base = "scheduling" \/ \E w \in ws : w.attempt = retry',
         pc'.catch = "finalizing" =>
           pc.catch = "finalizing" \/ \E w \in ws : w.by = "catch" /\ w.attempt >= retry'
  PROVE  FamilyInv'
<1>1. /\ FamilyTypeOK /\ BodyInv /\ NewestIsOnItsWay /\ WritesFit /\ AnnouncementEnds
      /\ ArbiterInv' /\ BodyInv' /\ BodyTypes' /\ BodyStep
  BY DEF FamilyInv, BodyKept
<1>2. FamilyTypeOK'
  <2>1. TypeOK'
    BY <1>1 DEF ArbiterInv, CoordinatorInv
  <2> QED
    BY <1>1, <2>1 DEF FamilyTypeOK, BodyTypes, Issued
<1>3. OwnRow' <=> OwnRow
  BY DEF OwnRow
<1>4. RetryAwaited' <=> RetryAwaited
  BY <1>3 DEF RetryAwaited
<1>5. (pc.retry # "none" \/ pc.catch # "idle" \/ pc.base = "scheduling") => retry' = retry
  BY <1>1 DEF BodyInv, BodyStep
<1>6. NewestIsOnItsWay'
  <2>1. /\ newest \in Int /\ newest' \in Int /\ newest <= newest'
        /\ \A w \in writes : w.attempt \in Int
        /\ row # NoRow => row.attempt \in Int
        /\ retry \in Int
    BY <1>1, MaxAttemptsAssumption
       DEF FamilyTypeOK, Issued, Write, Row, AttemptIds, NoAttempt
  <2>2. \A w \in writes' : w.attempt <= newest'
    BY <1>1, <2>1 DEF NewestIsOnItsWay, Issued
  <2>3. OwnRow' => row'.attempt <= newest'
    BY <1>1, <1>3, <2>1 DEF NewestIsOnItsWay, OwnRow
  <2>4. newest' # NoAttempt /\ ~lost' =>
          \/ \E w \in writes' : w.attempt = newest'
          \/ row' # NoRow /\ row'.attempt >= newest'
    BY <1>1 DEF NewestIsOnItsWay, Issued
  <2>5. pc'.base = "scheduling" \/ pc'.retry # "none" => retry' <= newest'
    <3>1. CASE pc.base = "scheduling" \/ pc.retry # "none"
      BY <1>1, <1>5, <2>1, <3>1 DEF NewestIsOnItsWay
    <3>2. CASE /\ ~(pc.base = "scheduling" \/ pc.retry # "none")
               /\ pc'.base = "scheduling" \/ pc'.retry # "none"
      BY <1>1, <3>2 DEF Issued, BodyStep
    <3> QED
      BY <3>1, <3>2
  <2>6. row' # NoRow => row'.process <= process'
    BY <1>1 DEF NewestIsOnItsWay
  <2> QED
    BY <2>2, <2>3, <2>4, <2>5, <2>6 DEF NewestIsOnItsWay
<1>7. WritesFit'
  <2>1. \A w \in writes : Fits(w)'
    BY <1>1, FitsStays DEF WritesFit
  <2>2. OwnRow => Fits(row)'
    <3> PICK r : r = row
      OBVIOUS
    <3>1. OwnRow => Fits(r)
      BY <1>1 DEF WritesFit
    <3>2. OwnRow => Fits(r)'
      BY <3>1, FitsStays
    <3> QED
      BY <3>2 DEF Fits
  <2> QED
    BY <1>3, <2>1, <2>2 DEF WritesFit, Issued
<1>8. AnnouncementEnds'
  <2>1. \A w \in writes' : w.outcome = "continuation-pending" =>
          w.by = "base" /\ pc'.base = "scheduling"
    BY <1>1 DEF AnnouncementEnds, Issued, BodyStep, Answered
  <2>2. pc'.catch = "finalizing" /\ RetryAwaited' /\ ~lost' =>
          \E w \in writes' : w.by = "catch" /\ w.attempt >= retry'
    BY <1>1, <1>4, <1>5 DEF AnnouncementEnds, Issued
  <2>3. pc'.catch = "released" /\ ~lost' => ~RetryAwaited'
    BY <1>1, <1>4 DEF AnnouncementEnds, BodyStep, Answered
  <2> QED
    BY <2>1, <2>2, <2>3 DEF AnnouncementEnds
<1> QED
  BY <1>1, <1>2, <1>6, <1>7, <1>8 DEF FamilyInv

LEMMA WriteFields ==
  ASSUME NEW by \in Callers, NEW a \in AttemptIds,
         NEW outcome \in Outcomes, NEW projection \in Projections
  PROVE  LET w == WriteOf(by, a, outcome, projection)
         IN w \in Write /\ w.by = by /\ w.attempt = a /\ w.outcome = outcome
            /\ w.projection = projection
<1> QED
  BY DEF WriteOf, Write

\* A closed gate writes nothing but the truth.
LEMMA GateWritesFit ==
  ASSUME FamilyInv, NEW a, a \in {base, retry}
  PROVE  /\ GateWrites(a) \in SUBSET Write
         /\ \A w \in GateWrites(a) : Fits(w) /\ w.outcome = "superseded"
<1> PICK b : b = Superseder(a)
  OBVIOUS
<1>1. CASE b = NoAttempt
  BY <1>1 DEF GateWrites
<1>2. CASE b # NoAttempt
  <2>1. b \in Others /\ b \in AttemptIds
    BY <1>2, SupersederIsAnother DEF FamilyInv
  <2> PICK w : w = WriteOf("gate", b, "superseded", "canonical")
    OBVIOUS
  <2>2. /\ w \in Write /\ w.attempt = b /\ w.outcome = "superseded"
        /\ w.projection = "canonical"
    BY <2>1, WriteFields DEF Callers, Outcomes, Projections
  <2>3. GateWrites(a) = {w}
    BY <1>2 DEF GateWrites
  <2>4. Fits(w)
    BY <2>1, <2>2 DEF Fits
  <2> QED
    BY <2>2, <2>3, <2>4
<1> QED
  BY <1>1, <1>2

\* What finalizeContinuationAttempt writes: who superseded the retry, or that
\* it is blocked.
LEMMA FinalWriteFields ==
  ASSUME FamilyInv, retry # NoAttempt, NEW by \in Callers
  PROVE  LET w == FinalWrite(by)
         IN /\ w \in Write /\ w.by = by /\ w.attempt >= retry
            /\ \/ Fits(w) /\ w.outcome = "superseded"
               \/ w.attempt = retry /\ w.outcome = "blocked"
<1> PICK b : b = Superseder(retry)
  OBVIOUS
<1>1. retry \in AttemptIds /\ retry \in Nat
  BY MaxAttemptsAssumption DEF FamilyInv, FamilyTypeOK, AttemptIds
<1>2. CASE b = NoAttempt
  <2> PICK w : w = WriteOf(by, retry, "blocked", "canonical")
    OBVIOUS
  <2>1. w \in Write /\ w.by = by /\ w.attempt = retry /\ w.outcome = "blocked"
    BY <1>1, WriteFields DEF Outcomes, Projections
  <2>2. FinalWrite(by) = w
    BY <1>2 DEF FinalWrite
  <2> QED
    BY <1>1, <2>1, <2>2
<1>3. CASE b # NoAttempt
  <2>1. b \in Others /\ b \in AttemptIds /\ retry < b
    BY <1>3, SupersederIsAnother DEF FamilyInv
  <2> PICK w : w = WriteOf(by, b, "superseded", "canonical")
    OBVIOUS
  <2>2. /\ w \in Write /\ w.by = by /\ w.attempt = b /\ w.outcome = "superseded"
        /\ w.projection = "canonical"
    BY <2>1, WriteFields DEF Outcomes, Projections
  <2>3. FinalWrite(by) = w
    BY <1>3 DEF FinalWrite
  <2>4. Fits(w)
    BY <2>1, <2>2 DEF Fits
  <2>5. b >= retry
    BY <1>1, <2>1 DEF AttemptIds
  <2> QED
    BY <2>2, <2>3, <2>4, <2>5
<1> QED
  BY <1>2, <1>3

-----------------------------------------------------------------------------
(* The steps *)

\* A step that writes nothing.
LEMMA SilentStep ==
  ASSUME FamilyInv, BodyKept, UNCHANGED <<process, row, lost>>,
         UNCHANGED <<writes, newest>>,
         pc'.base = "scheduling" => pc.base = "scheduling",
         pc'.catch = "finalizing" => pc.catch = "finalizing"
  PROVE  FamilyInv'
<1>1. Issued({})
  BY NothingIssued DEF FamilyInv, FamilyTypeOK
<1> QED
  BY <1>1, StepKeeps

LEMMA SilentActions ==
  ASSUME FamilyInv,
         \/ ReceiveDelivery \/ BeginWork \/ EnqueueRetry \/ BaseEnds
         \/ BaseIsAbandoned \/ RetryStarts \/ RetryRecorded \/ RetryEnds
         \/ CatchReleases \/ OtherReview
  PROVE  FamilyInv'
<1>1. BodyKept
  BY ReceiveKeepsBody, StartKeepsBody, BaseEndKeepsBody, RetryEndKeepsBody,
     OtherKeepsBody, RecordKeepsBody
<1>2. UNCHANGED <<process, row, lost>> /\ UNCHANGED <<writes, newest>>
  BY DEF ReceiveDelivery, BeginWork, EnqueueRetry, BaseEnds, BaseIsAbandoned,
         RetryStarts, RetryRecorded, RetryEnds, CatchReleases, OtherReview,
         recordVars, bodyVars
<1>3. /\ pc'.catch = "finalizing" => pc.catch = "finalizing"
      /\ pc'.base = "scheduling" => pc.base = "scheduling"
  <2>1. pc \in Stages
    BY DEF FamilyInv, FamilyTypeOK
  <2>2. CASE pc' = pc
    BY <2>2
  <2>3. CASE \E s \in {"gates", "working", "done"} : pc' = [pc EXCEPT !.base = s]
    BY <2>1, <2>3, PcFields
  <2>4. CASE \E s \in {"working", "cleaning", "done", "rejected"} :
               pc' = [pc EXCEPT !.retry = s]
    BY <2>1, <2>4, PcFields
  <2>5. CASE pc' = [pc EXCEPT !.base = "working", !.retry = "queued"]
    BY <2>1, <2>5 DEF Stages
  <2>6. CASE pc' = [pc EXCEPT !.catch = "released"]
    BY <2>1, <2>6, PcFields
  <2> QED
    BY <2>2, <2>3, <2>4, <2>5, <2>6
       DEF ReceiveDelivery, BeginWork, EnqueueRetry, BaseEnds, BaseIsAbandoned,
           RetryStarts, RetryRecorded, RetryEnds, CatchReleases, OtherReview, bodyVars
<1> QED
  BY <1>1, <1>2, <1>3, SilentStep

\* The step of a body that writes what the records of its own attempts and its
\* closed gates say.
LEMMA WritingStep ==
  ASSUME FamilyInv, BodyKept, UNCHANGED <<process, row, lost>>,
         NEW own \in SUBSET Write, NEW gated, gated \in {base, retry},
         NEW closed \in SUBSET GateWrites(gated), Issue(own \cup closed),
         \A w \in own : Fits(w)',
         \A w \in own : w.outcome = "continuation-pending" =>
           w.by = "base" /\ pc'.base = "scheduling",
         pc'.base = "scheduling" =>
           pc.base = "scheduling" \/ \E w \in own : w.attempt = retry',
         pc'.catch = "finalizing" =>
           pc.catch = "finalizing" \/ \E w \in own : w.by = "catch" /\ w.attempt >= retry'
  PROVE  FamilyInv'
<1>1. /\ closed \in SUBSET Write
      /\ \A w \in closed : Fits(w) /\ w.outcome = "superseded"
  BY GateWritesFit
<1>2. \A w \in closed : Fits(w)'
  BY <1>1, FitsStays
<1>3. own \cup closed \in SUBSET Write
  BY <1>1
<1>4. Issued(own \cup closed)
  BY <1>3, IssueEffect DEF FamilyInv, FamilyTypeOK
<1> QED
  BY <1>1, <1>2, <1>3, <1>4, StepKeeps

LEMMA GateStep ==
  ASSUME FamilyInv, BodyKept, UNCHANGED <<process, row, lost>>,
         NEW a, a \in {base, retry}, Issue(GateWrites(a)),
         pc'.base = "scheduling" => pc.base = "scheduling",
         pc'.catch = "finalizing" => pc.catch = "finalizing"
  PROVE  FamilyInv'
<1> PICK own : own = {}
  OBVIOUS
<1> PICK closed : closed = GateWrites(a)
  OBVIOUS
<1>1. own \cup closed = GateWrites(a)
  OBVIOUS
<1>2. Issue(own \cup closed)
  BY <1>1
<1>3. own \in SUBSET Write /\ closed \in SUBSET GateWrites(a)
  OBVIOUS
<1> QED
  BY <1>2, <1>3, WritingStep

\* One write about an attempt of its own, perhaps behind a closed gate.
LEMMA OneWriteStep ==
  ASSUME FamilyInv, BodyKept, UNCHANGED <<process, row, lost>>,
         NEW w \in Write, NEW ws, w \in ws, ws \subseteq {w} \cup GateWrites(retry),
         Issue(ws), Fits(w)',
         w.outcome = "continuation-pending" => w.by = "base" /\ pc'.base = "scheduling",
         pc'.base = "scheduling" => pc.base = "scheduling" \/ w.attempt = retry',
         pc'.catch = "finalizing" =>
           pc.catch = "finalizing" \/ (w.by = "catch" /\ w.attempt >= retry')
  PROVE  FamilyInv'
<1> PICK own : own = {w}
  OBVIOUS
<1> PICK closed : closed = ws \ {w}
  OBVIOUS
<1> PICK gated : gated = retry
  OBVIOUS
<1>1. own \cup closed = ws
  OBVIOUS
<1>2. Issue(own \cup closed)
  BY <1>1
<1>3. own \in SUBSET Write /\ closed \in SUBSET GateWrites(gated)
  OBVIOUS
<1> QED
  BY <1>2, <1>3, WritingStep

LEMMA BaseWrites ==
  ASSUME FamilyInv, BaseGateCloses \/ TimesOutForGood \/ TimesOutWithRetry
  PROVE  FamilyInv'
<1>1. /\ BodyKept /\ UNCHANGED <<process, row, lost>>
      /\ pc \in Stages /\ base \in AttemptIds /\ pc.base = "working"
  <2>1. base \in AttemptIds /\ pc.base = "working" /\ pc \in Stages
    BY DEF BaseGateCloses, TimesOutForGood, TimesOutWithRetry, FamilyInv, FamilyTypeOK,
           BodyInv
  <2> QED
    BY <2>1, RecordKeepsBody, PlanKeepsBody
       DEF BaseGateCloses, TimesOutForGood, TimesOutWithRetry, bodyVars
<1>2. CASE BaseGateCloses
  <2>1. Issue(GateWrites(base)) /\ pc' = pc
    BY <1>2 DEF BaseGateCloses, bodyVars
  <2> QED
    BY <1>1, <2>1, GateStep
<1>3. CASE TimesOutForGood
  <2>1. PICK projection \in {"canonical", "degraded"} :
          Issue({WriteOf("base", base, "blocked", projection)})
    BY <1>3 DEF TimesOutForGood
  <2> PICK w : w = WriteOf("base", base, "blocked", projection)
    OBVIOUS
  <2>2. w \in Write /\ w.attempt = base /\ w.outcome = "blocked"
    BY <1>1, WriteFields DEF Callers, Outcomes, Projections
  <2>3. Issue({w})
    BY <2>1
  <2>4. base # NoAttempt /\ base # retry
    BY <1>1, <1>3, MaxAttemptsAssumption DEF AttemptIds, NoAttempt, TimesOutForGood
  <2>5. Fits(w)
    BY <2>2, <2>4 DEF Fits
  <2>6. Fits(w)'
    BY <1>1, <2>5, FitsStays
  <2>7. pc'.catch = pc.catch /\ pc'.base = "blocking"
    BY <1>1, <1>3, PcFields DEF TimesOutForGood
  <2> QED
    BY <1>1, <2>2, <2>3, <2>6, <2>7, OneWriteStep
<1>4. CASE TimesOutWithRetry
  <2> PICK a : a = nextAttemptId
    OBVIOUS
  <2>1. /\ retry' = a /\ Claim(a, Family, "claimed") /\ base' = base
        /\ \/ /\ Issue({WriteOf("base", a, "continuation-pending", "pending")})
              /\ pc' = [pc EXCEPT !.base = "scheduling"]
           \/ pc' = pc /\ UNCHANGED <<writes, newest>>
    BY <1>4 DEF TimesOutWithRetry
  <2>2. a \in AttemptIds
    BY <2>1, ClaimKeepsArbiter DEF FamilyInv
  <2>3. CASE pc' = pc /\ UNCHANGED <<writes, newest>>
    BY <1>1, <2>3, SilentStep
  <2>4. CASE /\ Issue({WriteOf("base", a, "continuation-pending", "pending")})
             /\ pc' = [pc EXCEPT !.base = "scheduling"]
    <3> PICK w : w = WriteOf("base", a, "continuation-pending", "pending")
      OBVIOUS
    <3>1. /\ w \in Write /\ w.by = "base" /\ w.attempt = a
          /\ w.outcome = "continuation-pending"
      BY <2>2, WriteFields DEF Callers, Outcomes, Projections
    <3>2. Issue({w})
      BY <2>4
    <3>3. pc'.catch = pc.catch /\ pc'.base = "scheduling"
      BY <1>1, <2>4, PcFields
    <3>4. a # NoAttempt
      BY <2>2, MaxAttemptsAssumption DEF AttemptIds, NoAttempt
    <3>5. Fits(w)'
      BY <2>1, <3>1, <3>4 DEF Fits
    <3>6. w.attempt = retry' /\ w.by = "base" /\ pc'.base = "scheduling"
      BY <2>1, <3>1, <3>3
    <3> PICK ws : ws = {w}
      OBVIOUS
    <3>7. Issue(ws) /\ w \in ws /\ ws \subseteq {w} \cup GateWrites(retry)
      BY <3>2
    <3> QED
      BY <1>1, <3>1, <3>3, <3>5, <3>6, <3>7, OneWriteStep
  <2> QED
    BY <2>1, <2>3, <2>4
<1> QED
  BY <1>2, <1>3, <1>4

\* A retry that settles, or asks whether it may merge.
LEMMA RetryWrites ==
  ASSUME FamilyInv, RetrySettlesQuietly \/ RetryMerges \/ MergeChecks
  PROVE  FamilyInv'
<1>1. /\ BodyKept /\ UNCHANGED <<process, row, lost, base, retry>>
      /\ pc \in Stages /\ retry \in AttemptIds /\ retry # NoAttempt
  <2>1. retry \in AttemptIds /\ retry # NoAttempt /\ pc \in Stages
    BY DEF RetrySettlesQuietly, RetryMerges, MergeChecks, FamilyInv, FamilyTypeOK,
           BodyInv
  <2> QED
    BY <2>1, RecordKeepsBody DEF RetrySettlesQuietly, RetryMerges, MergeChecks
<1>2. pc'.catch = pc.catch /\ pc'.base = pc.base
  <2>1. \E s \in {"settling", "cleaning", "merging", "posting", "fallback"} :
          pc' = [pc EXCEPT !.retry = s]
    BY DEF RetrySettlesQuietly, RetryMerges, MergeChecks
  <2> QED
    BY <1>1, <2>1, PcFields
<1> PICK w : w = WriteOf("retry", retry, "quiet-settled", "canonical")
  OBVIOUS
<1>3. w \in Write /\ w.attempt = retry /\ w.outcome = "quiet-settled"
  BY <1>1, WriteFields DEF Callers, Outcomes, Projections
<1>4. Fits(w)'
  BY <1>1, <1>3 DEF Fits
<1>5. CASE RetrySettlesQuietly
  <2>1. PICK asked \in BOOLEAN, recorded \in BOOLEAN :
          Issue(   (IF asked /\ ~CanPublish(retry) THEN GateWrites(retry) ELSE {})
              \cup (IF recorded
                    THEN {WriteOf("retry", retry, "quiet-settled", "canonical")}
                    ELSE {}))
    BY <1>5 DEF RetrySettlesQuietly
  <2> PICK closed : closed = IF asked /\ ~CanPublish(retry) THEN GateWrites(retry) ELSE {}
    OBVIOUS
  <2> PICK own : own = IF recorded THEN {w} ELSE {}
    OBVIOUS
  <2>2. Issue(own \cup closed)
    <3>1. own \cup closed = (IF asked /\ ~CanPublish(retry) THEN GateWrites(retry) ELSE {})
                              \cup (IF recorded
                    THEN {WriteOf("retry", retry, "quiet-settled", "canonical")}
                    ELSE {})
      OBVIOUS
    <3> QED
      BY <2>1, <3>1
  <2>3. own \subseteq {w} /\ closed \in SUBSET GateWrites(retry)
    OBVIOUS
  <2> QED
    BY <1>1, <1>2, <1>3, <1>4, <2>2, <2>3, WritingStep
<1>6. CASE RetryMerges
  <2>1. CASE UNCHANGED <<writes, newest>>
    BY <1>1, <1>2, <2>1, SilentStep
  <2>2. CASE Issue(GateWrites(retry))
    BY <1>1, <1>2, <2>2, GateStep
  <2> QED
    BY <1>6, <2>1, <2>2 DEF RetryMerges
<1>7. CASE MergeChecks
  <2>1. CASE UNCHANGED <<writes, newest>>
    BY <1>1, <1>2, <2>1, SilentStep
  <2>2. CASE Issue({WriteOf("retry", retry, "quiet-settled", "canonical")} \cup GateWrites(retry))
    BY <1>1, <1>2, <1>3, <1>4, <2>2, OneWriteStep
  <2> QED
    BY <1>7, <2>1, <2>2 DEF MergeChecks
<1> QED
  BY <1>5, <1>6, <1>7

\* What a merge records of its projection is on the pull request.
LEMMA MergeWrites ==
  ASSUME FamilyInv, MergeReturns \/ FallbackChecks \/ FallbackReturns
  PROVE  FamilyInv'
<1>1. /\ BodyKept /\ UNCHANGED <<process, row, lost, base, retry>>
      /\ pc \in Stages /\ retry \in AttemptIds /\ retry # NoAttempt
  <2>1. retry \in AttemptIds /\ retry # NoAttempt /\ pc \in Stages
    BY DEF MergeReturns, FallbackChecks, FallbackReturns, FamilyInv, FamilyTypeOK,
           BodyInv
  <2> QED
    BY <2>1, RecordKeepsBody DEF MergeReturns, FallbackChecks, FallbackReturns
<1>2. pc'.catch = pc.catch /\ pc'.base = pc.base
  <2>1. \E s \in {"settling", "fallback", "details"} : pc' = [pc EXCEPT !.retry = s]
    BY DEF MergeReturns, FallbackChecks, FallbackReturns
  <2> QED
    BY <1>1, <2>1, PcFields
<1>3. CASE UNCHANGED <<writes, newest>>
  BY <1>1, <1>2, <1>3, SilentStep
<1>4. ASSUME NEW projection \in Projections,
             NEW closed \in SUBSET GateWrites(retry),
             Issue({WriteOf("retry", retry, "merged", projection)} \cup closed),
             projection = "pending" \/ projection \in posted'
      PROVE  FamilyInv'
  <2> PICK w : w = WriteOf("retry", retry, "merged", projection)
    OBVIOUS
  <2>1. /\ w \in Write /\ w.attempt = retry /\ w.outcome = "merged"
        /\ w.projection = projection
    BY <1>1, WriteFields DEF Callers, Outcomes
  <2>2. Fits(w)'
    BY <1>1, <1>4, <2>1 DEF Fits
  <2> PICK ws : ws = {w} \cup closed
    OBVIOUS
  <2>3. Issue(ws) /\ w \in ws /\ ws \subseteq {w} \cup GateWrites(retry)
    BY <1>4
  <2> QED
    BY <1>1, <1>2, <2>1, <2>2, <2>3, OneWriteStep
<1>5. ASSUME NEW projection \in Projections,
             Issue({WriteOf("retry", retry, "merged", projection)}),
             projection = "pending" \/ projection \in posted'
      PROVE  FamilyInv'
  <2> PICK closed : closed = {}
    OBVIOUS
  <2>1. {WriteOf("retry", retry, "merged", projection)} \cup closed
          = {WriteOf("retry", retry, "merged", projection)}
    OBVIOUS
  <2>2. /\ Issue({WriteOf("retry", retry, "merged", projection)} \cup closed)
        /\ closed \in SUBSET GateWrites(retry)
    BY <1>5, <2>1
  <2> QED
    BY <1>4, <1>5, <2>2
<1>6. "canonical" \in Projections /\ "degraded" \in Projections /\ "pending" \in Projections
  BY DEF Projections
<1>7. CASE MergeReturns
  BY <1>3, <1>5, <1>6, <1>7 DEF MergeReturns
<1>8. CASE FallbackChecks
  BY <1>3, <1>4, <1>6, <1>8 DEF FallbackChecks
<1>9. CASE FallbackReturns
  BY <1>5, <1>6, <1>9 DEF FallbackReturns
<1> QED
  BY <1>7, <1>8, <1>9

\* The retry, or the catch of its job, records its end.
LEMMA FinalWrites ==
  ASSUME FamilyInv, RetryThrows \/ RetryRejects
  PROVE  FamilyInv'
<1>1. /\ BodyKept /\ UNCHANGED <<process, row, lost, base, retry>>
      /\ pc \in Stages /\ retry # NoAttempt
  <2>1. retry # NoAttempt /\ pc \in Stages
    BY DEF RetryThrows, RetryRejects, FamilyInv, FamilyTypeOK, BodyInv
  <2> QED
    BY <2>1, RecordKeepsBody DEF RetryThrows, RetryRejects
<1>2. PICK by \in {"retry", "catch"} :
        /\ Issue({FinalWrite(by)})
        /\ \/ by = "retry" /\ RetryThrows
           \/ by = "catch" /\ RetryRejects
  BY DEF RetryThrows, RetryRejects
<1> PICK w : w = FinalWrite(by)
  OBVIOUS
<1>3. /\ w \in Write /\ w.by = by /\ w.attempt >= retry
      /\ \/ Fits(w) /\ w.outcome = "superseded"
         \/ w.attempt = retry /\ w.outcome = "blocked"
  BY <1>1, FinalWriteFields DEF Callers
<1>4. Issue({w})
  BY <1>2
<1>5. CASE by = "retry" /\ RetryThrows
  <2>1. /\ pc'.catch = pc.catch /\ pc'.retry = "failing" /\ pc'.base = pc.base
        /\ posted' = {}
    BY <1>1, <1>5, PcFields DEF RetryThrows, FamilyInv, BodyInv
  <2>2. Fits(w)'
    BY <1>1, <1>3, <2>1, FitsStays DEF Fits
  <2> QED
    BY <1>1, <1>3, <1>4, <2>1, <2>2, OneWriteStep
<1>6. CASE by = "catch" /\ RetryRejects
  <2>1. pc'.catch = "finalizing" /\ pc'.base = pc.base
    BY <1>1, <1>6, PcFields DEF RetryRejects
  <2>2. Fits(w)'
    BY <1>1, <1>3, <2>1, FitsStays DEF Fits
  <2> QED
    BY <1>1, <1>3, <1>4, <1>6, <2>1, <2>2, OneWriteStep
<1> QED
  BY <1>2, <1>5, <1>6

\* The database and the end of the process leave the bodies alone.
LEMMA StutterKeepsBody ==
  ASSUME FamilyInv, UNCHANGED <<coordinatorVars, bodyVars>>
  PROVE  BodyKept
<1>1. ArbiterInv /\ BodyInv /\ BodyTypes
  BY DEF FamilyInv, FamilyTypeOK, BodyTypes
<1>2. /\ UNCHANGED coordinatorVars /\ UNCHANGED <<base, retry, pc, abandoned, posted>>
      /\ nextAttemptId' = nextAttemptId /\ Live' = Live /\ \A a : Active(a)' <=> Active(a)
  BY DEF bodyVars, coordinatorVars, Live, Active
<1>3. ArbiterInv'
  BY <1>1, <1>2, UnchangedInv
     DEF ArbiterInv, AuthorityIsNewer, Newer, coordinatorVars
<1>4. BodyInv' /\ BodyTypes'
  BY <1>1, <1>2 DEF BodyInv, BodyTypes
<1>5. BodyStep
  BY <1>2 DEF BodyStep, Others
<1> QED
  BY <1>3, <1>4, <1>5 DEF BodyKept

\* The ordinal guard of the upsert: what lands is true, or it loses.
LEMMA LandStep ==
  ASSUME FamilyInv, NEW w \in writes, Land(w)
  PROVE  FamilyInv'
<1> PICK entry : entry = [attempt |-> w.attempt, outcome |-> w.outcome,
                          projection |-> w.projection, process |-> process]
  OBVIOUS
<1>1. /\ FamilyTypeOK /\ BodyInv /\ NewestIsOnItsWay /\ WritesFit /\ AnnouncementEnds
  BY DEF FamilyInv
<1>2. /\ writes' = writes \ {w}
      /\ UNCHANGED <<coordinatorVars, bodyVars>>
      /\ UNCHANGED <<process, newest, lost, base, retry, pc, abandoned, posted>>
  BY DEF Land, bodyVars
<1>3. BodyKept
  BY <1>2, StutterKeepsBody
<1>4. /\ entry.attempt = w.attempt /\ entry.outcome = w.outcome
      /\ entry.projection = w.projection /\ entry.process = process
      /\ entry \in Row /\ entry # NoRow
  BY <1>1, NoRowAssumption DEF FamilyTypeOK, Write, Row
<1>5. \/ Wins(w) /\ row' = entry
      \/ ~Wins(w) /\ row' = row
  BY DEF Land
<1>6. /\ newest \in Int /\ retry \in Int /\ w.attempt \in Int /\ process \in Int
      /\ \A v \in writes : v.attempt \in Int
      /\ row # NoRow => row.attempt \in Int
  BY <1>1, MaxAttemptsAssumption, MaxProcessesAssumption
     DEF FamilyTypeOK, Write, Row, AttemptIds, NoAttempt
<1>7. FamilyTypeOK'
  <2>1. TypeOK' /\ row' \in Row \cup {NoRow}
    BY <1>1, <1>3, <1>4, <1>5 DEF BodyKept, ArbiterInv, CoordinatorInv, FamilyTypeOK
  <2> QED
    BY <1>1, <1>2, <2>1 DEF FamilyTypeOK
<1>8. NewestIsOnItsWay'
  <2>1. w.attempt <= newest
    BY <1>1 DEF NewestIsOnItsWay
  <2>2. CASE Wins(w) /\ row' = entry
    BY <1>1, <1>2, <1>4, <1>6, <2>1, <2>2 DEF NewestIsOnItsWay, OwnRow, Wins
  <2>3. CASE ~Wins(w) /\ row' = row
    BY <1>1, <1>2, <1>6, <2>1, <2>3 DEF NewestIsOnItsWay, OwnRow, Wins
  <2> QED
    BY <1>5, <2>2, <2>3
<1>9. WritesFit'
  <2>1. \A v \in writes : Fits(v)'
    BY <1>1, <1>3, FitsStays DEF WritesFit
  <2>2. OwnRow' => Fits(row)'
    <3> PICK r : r = row'
      OBVIOUS
    <3>1. OwnRow' => Fits(r)
      <4>1. CASE row' = entry
        BY <1>1, <1>4, <4>1 DEF WritesFit, Fits
      <4>2. CASE row' = row
        BY <1>1, <1>2, <4>2 DEF WritesFit, OwnRow
      <4> QED
        BY <1>5, <4>1, <4>2
    <3>2. OwnRow' => Fits(r)'
      BY <1>3, <3>1, FitsStays
    <3> QED
      BY <3>2 DEF Fits
  <2> QED
    BY <1>2, <2>1, <2>2 DEF WritesFit
<1>10. AnnouncementEnds'
  <2>1. \A v \in writes' : v.outcome = "continuation-pending" =>
          v.by = "base" /\ pc'.base = "scheduling"
    BY <1>1, <1>2 DEF AnnouncementEnds
  <2>2. pc.catch # "idle" /\ RetryAwaited' => ~Wins(w) /\ row' = row /\ RetryAwaited
    <3>1. pc.catch # "idle" => w.outcome # "continuation-pending"
      BY <1>1 DEF AnnouncementEnds, BodyInv
    <3> QED
      BY <1>2, <1>4, <1>5, <3>1 DEF RetryAwaited, OwnRow
  <2>3. RetryAwaited /\ ~Wins(w) => w.attempt < retry
    <3>1. RetryAwaited => row.attempt = retry /\ row # NoRow
      BY <1>1 DEF RetryAwaited, OwnRow, WritesFit, Fits
    <3> QED
      BY <1>6, <3>1 DEF Wins
  <2>4. pc'.catch = "finalizing" /\ RetryAwaited' /\ ~lost' =>
          \E v \in writes' : v.by = "catch" /\ v.attempt >= retry'
    BY <1>1, <1>2, <1>6, <2>2, <2>3 DEF AnnouncementEnds
  <2>5. pc'.catch = "released" /\ ~lost' => ~RetryAwaited'
    BY <1>1, <1>2, <2>2 DEF AnnouncementEnds
  <2> QED
    BY <2>1, <2>4, <2>5 DEF AnnouncementEnds
<1> QED
  BY <1>3, <1>7, <1>8, <1>9, <1>10 DEF FamilyInv, BodyKept

LEMMA FailStep ==
  ASSUME FamilyInv, NEW w \in writes, Fail(w)
  PROVE  FamilyInv'
<1>1. /\ FamilyTypeOK /\ BodyInv /\ NewestIsOnItsWay /\ WritesFit /\ AnnouncementEnds
  BY DEF FamilyInv
<1>2. /\ writes' = writes \ {w} /\ lost' = TRUE
      /\ UNCHANGED <<coordinatorVars, bodyVars>>
      /\ UNCHANGED <<process, row, newest, base, retry, pc, abandoned, posted>>
  BY DEF Fail, bodyVars
<1>3. BodyKept
  BY <1>2, StutterKeepsBody
<1>4. FamilyTypeOK'
  <2>1. TypeOK'
    BY <1>3 DEF BodyKept, ArbiterInv, CoordinatorInv
  <2> QED
    BY <1>1, <1>2, <2>1 DEF FamilyTypeOK
<1>5. NewestIsOnItsWay' /\ AnnouncementEnds'
  BY <1>1, <1>2 DEF NewestIsOnItsWay, AnnouncementEnds, OwnRow
<1>6. WritesFit'
  <2>1. \A v \in writes : Fits(v)'
    BY <1>1, <1>3, FitsStays DEF WritesFit
  <2> PICK r : r = row
    OBVIOUS
  <2>2. OwnRow => Fits(r)'
    BY <1>1, <1>3, FitsStays DEF WritesFit
  <2> QED
    BY <1>2, <2>1, <2>2 DEF WritesFit, OwnRow, Fits
<1> QED
  BY <1>3, <1>4, <1>5, <1>6 DEF FamilyInv, BodyKept

LEMMA FreshArbiter == CoordinatorInit => ArbiterInv
<1> SUFFICES ASSUME CoordinatorInit PROVE ArbiterInv
  OBVIOUS
<1>1. CoordinatorInv
  BY InitInv
<1>2. AuthorityIsNewer
  BY DEF CoordinatorInit, AuthorityIsNewer
<1> QED
  BY <1>1, <1>2 DEF ArbiterInv

\* A process that starts knows no attempt, whatever the row says.
LEMMA RestartStep ==
  ASSUME FamilyInv, Restart
  PROVE  FamilyInv'
<1>1. FamilyTypeOK /\ NewestIsOnItsWay
  BY DEF FamilyInv
<1>2. /\ process' = process + 1 /\ process \in 1..MaxProcesses
      /\ process < MaxProcesses /\ row' = row
      /\ writes' = {} /\ newest' = NoAttempt /\ lost' = FALSE
      /\ base' = NoAttempt /\ retry' = NoAttempt
      /\ pc' = [base |-> "idle", retry |-> "none", catch |-> "idle"]
      /\ abandoned' = {} /\ posted' = {}
  BY <1>1 DEF Restart, FamilyTypeOK
<1>3. CoordinatorInit' /\ nextAttemptId' = 1 /\ Live' = {}
  BY DEF Restart, CoordinatorInit, Live
<1>4. ArbiterInv'
  BY <1>3, FreshArbiter, PTL
<1>5. BodyInv'
  BY <1>2, <1>3 DEF BodyInv, NoAttempt
<1>6. ~OwnRow'
  BY <1>1, <1>2, MaxProcessesAssumption
     DEF NewestIsOnItsWay, OwnRow, FamilyTypeOK, Row
<1>7. FamilyTypeOK'
  <2>1. TypeOK'
    BY <1>4 DEF ArbiterInv, CoordinatorInv
  <2>2. process' \in 1..MaxProcesses
    BY <1>2, MaxProcessesAssumption
  <2> QED
    BY <1>1, <1>2, <2>1, <2>2 DEF FamilyTypeOK, Stages
<1>8. NewestIsOnItsWay'
  <2>1. row' # NoRow => row'.process <= process'
    BY <1>1, <1>2, MaxProcessesAssumption DEF NewestIsOnItsWay, FamilyTypeOK, Row
  <2> QED
    BY <1>2, <1>6, <2>1 DEF NewestIsOnItsWay
<1>9. WritesFit' /\ AnnouncementEnds'
  BY <1>2, <1>6 DEF WritesFit, AnnouncementEnds, RetryAwaited
<1> QED
  BY <1>4, <1>5, <1>7, <1>8, <1>9 DEF FamilyInv

LEMMA FamilyInit == Init => FamilyInv
<1> SUFFICES ASSUME Init PROVE FamilyInv
  OBVIOUS
<1>1. /\ process = 1 /\ row = NoRow /\ writes = {} /\ newest = NoAttempt /\ lost = FALSE
      /\ base = NoAttempt /\ retry = NoAttempt
      /\ pc = [base |-> "idle", retry |-> "none", catch |-> "idle"]
      /\ abandoned = {} /\ posted = {}
  BY DEF Init
<1>2. ArbiterInv
  BY FreshArbiter DEF Init
<1>3. BodyInv
  <2>1. nextAttemptId = 1 /\ Live = {}
    BY DEF Init, CoordinatorInit, Live
  <2> QED
    BY <1>1, <2>1 DEF BodyInv, NoAttempt
<1>4. FamilyTypeOK
  <2>1. TypeOK
    BY <1>2 DEF ArbiterInv, CoordinatorInv
  <2>2. process \in 1..MaxProcesses
    BY <1>1, MaxProcessesAssumption
  <2>3. pc \in Stages
    BY <1>1 DEF Stages
  <2> QED
    BY <1>1, <2>1, <2>2, <2>3 DEF FamilyTypeOK
<1>5. NewestIsOnItsWay /\ WritesFit /\ AnnouncementEnds
  BY <1>1 DEF NewestIsOnItsWay, WritesFit, AnnouncementEnds, OwnRow, RetryAwaited
<1> QED
  BY <1>2, <1>3, <1>4, <1>5 DEF FamilyInv

LEMMA FamilyStep == FamilyInv /\ [Next]_vars => FamilyInv'
<1> SUFFICES ASSUME FamilyInv, [Next]_vars PROVE FamilyInv'
  OBVIOUS
<1>1. CASE \E w \in writes : Land(w)
  BY <1>1, LandStep
<1>2. CASE \E w \in writes : Fail(w)
  BY <1>2, FailStep
<1>3. CASE \/ ReceiveDelivery \/ BeginWork \/ EnqueueRetry \/ BaseEnds
           \/ BaseIsAbandoned \/ RetryStarts \/ RetryRecorded \/ RetryEnds
           \/ CatchReleases \/ OtherReview
  BY <1>3, SilentActions
<1>4. CASE BaseGateCloses \/ TimesOutForGood \/ TimesOutWithRetry
  BY <1>4, BaseWrites
<1>5. CASE RetrySettlesQuietly \/ RetryMerges \/ MergeChecks
  BY <1>5, RetryWrites
<1>6. CASE MergeReturns \/ FallbackChecks \/ FallbackReturns
  BY <1>6, MergeWrites
<1>7. CASE RetryThrows \/ RetryRejects
  BY <1>7, FinalWrites
<1>8. CASE Restart
  BY <1>8, RestartStep
<1>9. CASE UNCHANGED vars
  <2>1. UNCHANGED <<coordinatorVars, bodyVars>> /\ UNCHANGED <<process, row, lost, pc>>
        /\ UNCHANGED <<writes, newest>>
    BY <1>9 DEF vars, bodyVars, recordVars
  <2> QED
    BY <2>1, StutterKeepsBody, SilentStep
<1> QED
  BY <1>1, <1>2, <1>3, <1>4, <1>5, <1>6, <1>7, <1>8, <1>9 DEF Next

-----------------------------------------------------------------------------
(* What the invariant says *)

LEMMA FamilyHolds == Spec => []FamilyInv
<1> QED
  BY FamilyInit, FamilyStep, PTL DEF Spec

\* Every variable keeps its type.
THEOREM FamilyTypes == Spec => []FamilyTypeOK
<1>1. FamilyInv => FamilyTypeOK
  BY DEF FamilyInv
<1> QED
  BY <1>1, FamilyHolds, PTL

\* The row ends up with the newest attempt that any write named, in whatever
\* order the writes arrive (upsertContinuationFamilyState).
THEOREM NewestWins == Spec => []LatestIsRecorded
<1>1. FamilyInv => LatestIsRecorded
  <2> SUFFICES ASSUME FamilyInv, Quiet PROVE LatestIsRecorded
    BY DEF LatestIsRecorded
  <2>1. /\ FamilyTypeOK /\ NewestIsOnItsWay
        /\ writes = {} /\ ~lost /\ newest # NoAttempt
    BY DEF FamilyInv, Quiet
  <2>2. row # NoRow /\ row.attempt >= newest
    BY <2>1 DEF NewestIsOnItsWay
  <2>3. OwnRow => row.attempt <= newest
    BY <2>1 DEF NewestIsOnItsWay
  <2>4. row.attempt \in Int /\ newest \in Int
    BY <2>1, <2>2, MaxAttemptsAssumption DEF FamilyTypeOK, Row, AttemptIds, NoAttempt
  <2> QED
    BY <2>2, <2>3, <2>4 DEF LatestIsRecorded
<1> QED
  BY <1>1, FamilyHolds, PTL

\* What the row says of supersession, merge and awaited retry is so.
THEOREM RecordIsTrue == Spec => []RowIsTrue
<1>1. FamilyInv => RowIsTrue
  <2> SUFFICES ASSUME FamilyInv PROVE RowIsTrue
    OBVIOUS
  <2>1. /\ FamilyTypeOK /\ BodyInv /\ NewestIsOnItsWay /\ AnnouncementEnds
        /\ OwnRow => Fits(row)
    BY DEF FamilyInv, WritesFit
  <2>2. SupersededByAnother /\ MergedWasPublished
    BY <2>1 DEF SupersededByAnother, MergedWasPublished, Fits
  <2>3. MergedStaysRecorded
    <3> SUFFICES ASSUME Quiet, OwnRow, "canonical" \in posted, pc.catch = "idle", row.outcome = "blocked"
                 PROVE  FALSE
      BY DEF MergedStaysRecorded
    <3>1. row.attempt # retry /\ row.attempt \in {base, retry} /\ row.attempt = base
      BY <2>1 DEF Fits
    <3>2. pc.retry # "none" /\ retry # NoAttempt /\ base < retry
      BY <2>1 DEF BodyInv
    <3>3. row.attempt >= newest /\ retry <= newest
      BY <2>1, <3>2 DEF Quiet, OwnRow, NewestIsOnItsWay
    <3>4. base \in Int /\ retry \in Int /\ newest \in Int
      BY <2>1, MaxAttemptsAssumption DEF FamilyTypeOK, AttemptIds, NoAttempt
    <3> QED
      BY <3>1, <3>2, <3>3, <3>4
  <2>4. RejectedRetryIsNotAwaited
    BY <2>1 DEF RejectedRetryIsNotAwaited, AnnouncementEnds
  <2> QED
    BY <2>2, <2>3, <2>4 DEF RowIsTrue
<1> QED
  BY <1>1, FamilyHolds, PTL

\* Once the row names the newer review, only a newer one still takes its place.
THEOREM SupersessionSticks == Spec => SupersededSticks
<1> DEFINE Sticks ==
      (OwnRow /\ row.outcome = "superseded" /\ process' = process /\ row' # row)
        => row'.attempt > row.attempt
<1>1. FamilyInv /\ [Next]_vars => [Sticks]_vars
  <2> SUFFICES ASSUME FamilyInv, Next, OwnRow, row.outcome = "superseded",
                      process' = process, row' # row
               PROVE  row'.attempt > row.attempt
    OBVIOUS
  <2>1. PICK w \in writes : Land(w)
    <3>1. row' # row => \E w \in writes : Land(w)
      BY DEF Next, Fail, ReceiveDelivery, BeginWork, BaseGateCloses, TimesOutForGood,
             TimesOutWithRetry, EnqueueRetry, BaseEnds, BaseIsAbandoned, RetryStarts,
             RetrySettlesQuietly, RetryMerges, MergeChecks, MergeReturns, FallbackChecks,
             FallbackReturns, RetryThrows, RetryRecorded, RetryEnds, RetryRejects, CatchReleases, OtherReview, Restart, recordVars
    <3> QED
      BY <3>1
  <2> PICK entry : entry = [attempt |-> w.attempt, outcome |-> w.outcome,
                            projection |-> w.projection, process |-> process]
    OBVIOUS
  <2>2. row' = entry /\ w.attempt >= row.attempt /\ row # NoRow
    BY <2>1 DEF Land, Wins, OwnRow
  <2>3. w \in Write /\ row \in Row /\ Fits(w) /\ Fits(row) /\ row.process = process
    BY <2>2 DEF FamilyInv, FamilyTypeOK, WritesFit, OwnRow
  <2>4. w.attempt # row.attempt
    <3> SUFFICES ASSUME w.attempt = row.attempt PROVE FALSE
      OBVIOUS
    <3>1. row.attempt \in Others /\ row.projection = "canonical"
      BY <2>3 DEF Fits
    <3>2. w.outcome = "superseded" /\ w.projection = "canonical"
      BY <2>3, <3>1 DEF Fits, Others
    <3>3. row = entry
      BY <2>3, <3>1, <3>2 DEF Row
    <3> QED
      BY <2>2, <3>3
  <2>5. w.attempt \in Int /\ row.attempt \in Int
    BY <2>3, MaxAttemptsAssumption DEF Write, Row, AttemptIds
  <2> QED
    BY <2>2, <2>4, <2>5
<1> QED
  BY <1>1, FamilyHolds, PTL DEF Spec, SupersededSticks

\* Every step that is not a restart is one call on the coordinator at most, of
\* an attempt that it has handed out.
THEOREM FamilyUsesTheCoordinator == Spec => [][CoordinatorNext \/ Restart]_coordinatorVars
<1>1. ASSUME FamilyInv, Next, ~Restart
      PROVE  CoordinatorNext \/ UNCHANGED coordinatorVars
  <2>1. {base, retry} \subseteq AttemptIds \cup {NoAttempt}
    BY <1>1 DEF FamilyInv, FamilyTypeOK
  <2>2. Family \in Families
    BY FamilyAssumption DEF Family
  <2>3. Claim(nextAttemptId, Family, "claimed") => CoordinatorNext
    BY <2>2 DEF CoordinatorNext, ClaimAny
  <2>4. CASE ReceiveDelivery \/ TimesOutWithRetry
    BY <2>3, <2>4 DEF ReceiveDelivery, TimesOutWithRetry
  <2>5. CASE BeginWork \/ BaseEnds \/ BaseIsAbandoned
    <3>1. pc.base # "idle"
      BY <2>5 DEF BeginWork, BaseEnds, BaseIsAbandoned
    <3>2. base \in AttemptIds
      BY <1>1, <2>1, <3>1 DEF FamilyInv, BodyInv
    <3> QED
      BY <2>5, <3>2 DEF BeginWork, BaseEnds, BaseIsAbandoned, CoordinatorNext
  <2>6. CASE RetryStarts \/ RetryEnds \/ CatchReleases
    <3>1. pc.retry # "none"
      BY <1>1, <2>6 DEF RetryStarts, RetryEnds, CatchReleases, FamilyInv, BodyInv
    <3>2. retry \in AttemptIds
      BY <1>1, <2>1, <3>1 DEF FamilyInv, BodyInv
    <3> QED
      BY <2>6, <3>2 DEF RetryStarts, RetryEnds, CatchReleases, CoordinatorNext
  <2>7. CASE OtherReview
    <3>1. Live \subseteq AttemptIds
      BY <1>1 DEF FamilyInv, FamilyTypeOK, TypeOK, Live
    <3> QED
      BY <2>3, <2>7, <3>1 DEF OtherReview, CoordinatorNext
  <2>8. CASE \/ \E w \in writes : Land(w) \/ Fail(w)
             \/ BaseGateCloses \/ TimesOutForGood \/ EnqueueRetry
             \/ RetrySettlesQuietly \/ RetryMerges \/ MergeChecks \/ MergeReturns
             \/ FallbackChecks \/ FallbackReturns \/ RetryThrows \/ RetryRecorded \/ RetryRejects
    BY <2>8 DEF Land, Fail, BaseGateCloses, TimesOutForGood, EnqueueRetry,
         RetrySettlesQuietly, RetryMerges, MergeChecks, MergeReturns, FallbackChecks,
         FallbackReturns, RetryThrows, RetryRecorded, RetryRejects
  <2> QED
    BY <1>1, <2>4, <2>5, <2>6, <2>7, <2>8 DEF Next
<1>2. FamilyInv /\ [Next]_vars => [CoordinatorNext \/ Restart]_coordinatorVars
  BY <1>1 DEF vars
<1> QED
  BY <1>2, FamilyHolds, PTL DEF Spec

\* Of the attempts of a continued review, its retry and the other reviews at
\* most one may publish, in every process: the retry and the review it repeats
\* never pass canPublish together.
THEOREM OnePublisherThroughRestarts == Spec => []AtMostOnePublisher
<1>1. FamilyInv => AtMostOnePublisher
  BY InvBarsSecond DEF FamilyInv, ArbiterInv
<1> QED
  BY <1>1, FamilyHolds, PTL
=============================================================================
