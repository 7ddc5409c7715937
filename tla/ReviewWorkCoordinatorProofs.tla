-------------------- MODULE ReviewWorkCoordinatorProofs --------------------
(***************************************************************************)
(* Proofs about the review-work coordinator, for every set of pull         *)
(* requests and every number of claims: its invariants, and that it        *)
(* implements the abstract PublishRights.                                  *)
(***************************************************************************)
EXTENDS ReviewWorkCoordinator, WellFoundedInduction, TLAPS

-----------------------------------------------------------------------------
(* Extrema of sets of naturals *)

\* A non-empty set of naturals has a least element.
LEMMA LeastNat ==
  ASSUME NEW T \in SUBSET Nat, T # {}
  PROVE  \E x \in T : \A y \in T : x <= y
<1> DEFINE R == OpToRel(<, Nat)
<1>1. IsWellFoundedOn(R, Nat)
  BY NatLessThanWellFounded
<1>2. PICK x \in T : \A y \in T : ~ (<<y, x>> \in R)
  BY <1>1, WFMin
<1>3. \A y \in T : y < x => <<y, x>> \in R
  BY DEF OpToRel
<1> HIDE DEF R
<1>4. \A y \in T : ~ (y < x)
  BY <1>2, <1>3
<1>5. \A y \in T : x <= y
  <2> TAKE y \in T
  <2>1. x \in Nat /\ y \in Nat
    OBVIOUS
  <2>2. ~ (y < x)
    BY <1>4
  <2> QED
    BY <2>1, <2>2
<1> QED
  BY <1>5

\* A non-empty set of naturals below a bound has a greatest element.
LEMMA GreatestNat ==
  ASSUME NEW n \in Nat, NEW T \in SUBSET (0..n), T # {}
  PROVE  \E x \in T : \A y \in T : y <= x
<1> DEFINE U == {n - t : t \in T}
<1>1. U \in SUBSET Nat
  <2>1. \A t \in T : t \in Nat /\ t <= n /\ n - t \in Nat
    OBVIOUS
  <2> QED
    BY <2>1
<1>2. U # {}
  OBVIOUS
<1>3. PICK u \in U : \A v \in U : u <= v
  BY <1>1, <1>2, LeastNat
<1>4. PICK x \in T : u = n - x
  BY <1>3
<1>5. \A y \in T : y <= x
  <2> TAKE y \in T
  <2>1. n - x <= n - y
    BY <1>3, <1>4
  <2>2. x \in 0..n /\ y \in 0..n
    OBVIOUS
  <2> QED
    BY <2>1, <2>2
<1> QED
  BY <1>5

-----------------------------------------------------------------------------
(* The inductive invariant *)

\* The empty maps satisfy the invariant.
LEMMA InitInv == CoordinatorInit => CoordinatorInv
<1> SUFFICES ASSUME CoordinatorInit PROVE CoordinatorInv
  OBVIOUS
<1>1. DOMAIN attempts = {} /\ DOMAIN families = {} /\ nextAttemptId = 1
  BY DEF CoordinatorInit
<1>2. TypeOK
  BY <1>1, MaxAttemptsAssumption DEF TypeOK
<1>3. MapsAgree
  BY <1>1 DEF MapsAgree, Live
<1>4. OrdinalsOrdered
  BY <1>1 DEF OrdinalsOrdered, Live
<1> QED
  BY <1>2, <1>3, <1>4 DEF CoordinatorInv

-----------------------------------------------------------------------------
(* What the operations do, field by field *)

\* Promoted keeps everything but the authority, which goes up to the ordinal.
LEMMA PromotedFields ==
  ASSUME NEW s \in FamilyState, NEW a \in AttemptIds, NEW o \in Nat
  PROVE  LET p == Promoted(s, a, o)
         IN /\ p \in FamilyState
            /\ p.attemptIds = s.attemptIds
            /\ p.nextClaimOrdinal = s.nextClaimOrdinal
            /\ p.latestAuthoritativeClaimOrdinal
                 \in {s.latestAuthoritativeClaimOrdinal, o}
            /\ p.latestAuthoritativeClaimOrdinal
                 >= s.latestAuthoritativeClaimOrdinal
            /\ p.latestAuthoritativeClaimOrdinal >= o
<1> DEFINE up == [s EXCEPT !.latestAuthoritativeClaimOrdinal = o,
                         !.latestAuthoritativeAttemptId = a]
<1>1. up \in FamilyState
  BY Zenon DEF FamilyState
<1>2. up.attemptIds = s.attemptIds /\ up.nextClaimOrdinal = s.nextClaimOrdinal
  BY Zenon DEF FamilyState
<1>3. up.latestAuthoritativeClaimOrdinal = o
  BY Zenon DEF FamilyState
<1>4. s.latestAuthoritativeClaimOrdinal \in Nat
  BY DEF FamilyState
<1>5. Promoted(s, a, o)
        = IF o > s.latestAuthoritativeClaimOrdinal THEN up ELSE s
  BY Zenon DEF Promoted
<1> HIDE DEF up
<1>6. CASE o > s.latestAuthoritativeClaimOrdinal
  <2>1. Promoted(s, a, o) = up
    BY <1>5, <1>6
  <2> QED
    BY <1>1, <1>2, <1>3, <1>4, <1>6, <2>1
<1>7. CASE ~(o > s.latestAuthoritativeClaimOrdinal)
  <2>1. Promoted(s, a, o) = s
    BY <1>5, <1>7
  <2> QED
    BY <1>4, <1>7, <2>1
<1> QED
  BY <1>6, <1>7

\* A family entry, or the one that would be created, is well formed, and its
\* next ordinal is above every ordinal in use.
LEMMA FamilyStateOfFields ==
  ASSUME CoordinatorInv, NEW f \in Families
  PROVE  /\ FamilyStateOf(f) \in FamilyState
         /\ FamilyStateOf(f).attemptIds = {b \in Live : attempts[b].familyKey = f}
         /\ FamilyStateOf(f).nextClaimOrdinal \in Nat \ {0}
         /\ FamilyStateOf(f).latestAuthoritativeClaimOrdinal
              < FamilyStateOf(f).nextClaimOrdinal
         /\ \A b \in Live : attempts[b].familyKey = f =>
              /\ f \in DOMAIN families
              /\ attempts[b].claimOrdinal < FamilyStateOf(f).nextClaimOrdinal
<1>1. CASE f \in DOMAIN families
  <2>1. FamilyStateOf(f) = families[f] /\ families[f] \in FamilyState
    BY <1>1 DEF FamilyStateOf, CoordinatorInv, TypeOK
  <2>2. families[f].latestAuthoritativeClaimOrdinal < families[f].nextClaimOrdinal
    BY <1>1 DEF CoordinatorInv, OrdinalsOrdered
  <2>3. families[f].nextClaimOrdinal \in Nat \ {0}
    BY <2>1, <2>2 DEF FamilyState
  <2>4. \A b \in Live : attempts[b].familyKey = f =>
          attempts[b].claimOrdinal < families[f].nextClaimOrdinal
    BY <2>3 DEF CoordinatorInv, OrdinalsOrdered
  <2> QED
    BY <1>1, <2>1, <2>2, <2>3, <2>4 DEF CoordinatorInv, MapsAgree
<1>2. CASE f \notin DOMAIN families
  <2>1. FamilyStateOf(f) = FreshFamily
    BY <1>2 DEF FamilyStateOf
  <2>2. \A b \in Live : attempts[b].familyKey # f
    BY <1>2 DEF CoordinatorInv, MapsAgree
  <2> QED
    BY <2>1, <2>2 DEF FreshFamily, FamilyState
<1> QED
  BY <1>1, <1>2

\* claim adds one attempt, newer than all and with the highest ordinal of its
\* family, and touches no other family.
LEMMA ClaimEffect ==
  ASSUME CoordinatorInv, NEW a, NEW f \in Families, NEW phase, Claim(a, f, phase)
  PROVE  LET s == FamilyStateOf(f)
         IN /\ a \in AttemptIds /\ a \notin Live
            /\ a = nextAttemptId /\ nextAttemptId' = nextAttemptId + 1
            /\ Live' = Live \cup {a}
            /\ attempts'[a] \in Attempt
            /\ attempts'[a].familyKey = f
            /\ attempts'[a].claimOrdinal = s.nextClaimOrdinal
            /\ \A b \in Live : attempts'[b] = attempts[b]
            /\ DOMAIN families' = DOMAIN families \cup {f}
            /\ \A g \in DOMAIN families \ {f} : families'[g] = families[g]
            /\ families'[f] \in FamilyState
            /\ families'[f].attemptIds = s.attemptIds \cup {a}
            /\ families'[f].nextClaimOrdinal = s.nextClaimOrdinal + 1
            /\ families'[f].latestAuthoritativeClaimOrdinal
                 \in {s.latestAuthoritativeClaimOrdinal, s.nextClaimOrdinal}
            /\ families'[f].latestAuthoritativeClaimOrdinal
                 >= s.latestAuthoritativeClaimOrdinal
            /\ attempts'[a].lifecycle = "active" =>
                 families'[f].latestAuthoritativeClaimOrdinal = s.nextClaimOrdinal
            /\ attempts'[a].lifecycle # "active" =>
                 families'[f].latestAuthoritativeClaimOrdinal
                   = s.latestAuthoritativeClaimOrdinal
<1> DEFINE s == FamilyStateOf(f)
           o == s.nextClaimOrdinal
           joined == [s EXCEPT !.attemptIds = @ \cup {a}, !.nextClaimOrdinal = @ + 1]
           life == IF phase = "claimed" THEN "pending" ELSE "active"
<1>1. /\ a = nextAttemptId /\ a \in AttemptIds /\ nextAttemptId' = nextAttemptId + 1
      /\ attempts' = [b \in Live \cup {a} |->
                        IF b = a THEN [familyKey |-> f, lifecycle |-> life,
                                       claimOrdinal |-> o]
                        ELSE attempts[b]]
      /\ families' = [g \in DOMAIN families \cup {f} |->
                        IF g # f THEN families[g]
                        ELSE IF life = "active" THEN Promoted(joined, a, o)
                        ELSE joined]
  BY DEF Claim
<1>2. s \in FamilyState /\ o \in Nat \ {0} /\ s.latestAuthoritativeClaimOrdinal < o
  BY FamilyStateOfFields
<1>3. a \notin Live
  <2>1. \A b \in Live : b < nextAttemptId /\ b \in Nat
    BY DEF CoordinatorInv, TypeOK, OrdinalsOrdered, AttemptIds, Live
  <2> QED
    BY <1>1, <2>1 DEF AttemptIds
<1>4. /\ joined \in FamilyState
      /\ joined.attemptIds = s.attemptIds \cup {a}
      /\ joined.nextClaimOrdinal = o + 1
      /\ joined.latestAuthoritativeClaimOrdinal = s.latestAuthoritativeClaimOrdinal
  <2>1. s.attemptIds \cup {a} \in SUBSET AttemptIds /\ o + 1 \in Nat
    BY <1>1, <1>2 DEF FamilyState
  <2>2. \A ids \in SUBSET AttemptIds, n \in Nat :
          LET t == [s EXCEPT !.attemptIds = ids, !.nextClaimOrdinal = n]
          IN /\ t \in FamilyState
             /\ t.attemptIds = ids
             /\ t.nextClaimOrdinal = n
             /\ t.latestAuthoritativeClaimOrdinal = s.latestAuthoritativeClaimOrdinal
    BY <1>2, Zenon DEF FamilyState
  <2> QED
    BY <2>1, <2>2
<1> HIDE DEF joined
<1> DEFINE p == Promoted(joined, a, o)
<1>5. /\ p \in FamilyState
      /\ p.attemptIds = joined.attemptIds
      /\ p.nextClaimOrdinal = joined.nextClaimOrdinal
      /\ p.latestAuthoritativeClaimOrdinal = o
  <2>1. joined.latestAuthoritativeClaimOrdinal \in Nat
        /\ joined.latestAuthoritativeClaimOrdinal < o
    BY <1>2, <1>4 DEF FamilyState
  <2>2. /\ p \in FamilyState
        /\ p.attemptIds = joined.attemptIds
        /\ p.nextClaimOrdinal = joined.nextClaimOrdinal
        /\ p.latestAuthoritativeClaimOrdinal
             \in {joined.latestAuthoritativeClaimOrdinal, o}
        /\ p.latestAuthoritativeClaimOrdinal >= o
    BY <1>1, <1>2, <1>4, PromotedFields, Zenon
  <2> QED
    BY <1>2, <2>1, <2>2
<1>6. /\ families'[f] \in FamilyState
      /\ families'[f].attemptIds = s.attemptIds \cup {a}
      /\ families'[f].nextClaimOrdinal = o + 1
      /\ families'[f].latestAuthoritativeClaimOrdinal
           = IF life = "active" THEN o ELSE s.latestAuthoritativeClaimOrdinal
  <2>1. families'[f] = IF life = "active" THEN Promoted(joined, a, o) ELSE joined
    BY <1>1
  <2>2. CASE life = "active"
    BY <2>1, <2>2, <1>4, <1>5
  <2>3. CASE life # "active"
    BY <2>1, <2>3, <1>4
  <2> QED
    BY <2>2, <2>3
<1>7. /\ DOMAIN families' = DOMAIN families \cup {f}
      /\ \A g \in DOMAIN families \ {f} : families'[g] = families[g]
  BY <1>1
<1>8. /\ Live' = Live \cup {a}
      /\ attempts'[a] = [familyKey |-> f, lifecycle |-> life, claimOrdinal |-> o]
      /\ \A b \in Live : attempts'[b] = attempts[b]
  BY <1>1, <1>3 DEF Live
<1>9. attempts'[a] \in Attempt /\ attempts'[a].lifecycle = life
  BY <1>2, <1>8 DEF Attempt
<1>10. /\ families'[f].latestAuthoritativeClaimOrdinal
             \in {s.latestAuthoritativeClaimOrdinal, o}
       /\ families'[f].latestAuthoritativeClaimOrdinal
             >= s.latestAuthoritativeClaimOrdinal
  BY <1>2, <1>6 DEF FamilyState
<1> HIDE DEF s, life
<1> QED
  BY <1>1, <1>3, <1>6, <1>7, <1>8, <1>9, <1>10 DEF s

\* setPhase starts the attempt and may raise the authority of its family to it.
LEMMA SetPhaseEffect ==
  ASSUME CoordinatorInv, NEW a, a \in Live, ~Active(a), SetPhase(a)
  PROVE  LET f == attempts[a].familyKey
         IN /\ Live' = Live /\ nextAttemptId' = nextAttemptId
            /\ \A b \in Live : /\ attempts'[b] \in Attempt
                               /\ attempts'[b].familyKey = attempts[b].familyKey
                               /\ attempts'[b].claimOrdinal = attempts[b].claimOrdinal
            /\ attempts'[a].lifecycle = "active"
            /\ \A b \in Live \ {a} : attempts'[b] = attempts[b]
            /\ DOMAIN families' = DOMAIN families
            /\ \A g \in DOMAIN families \ {f} : families'[g] = families[g]
            /\ families'[f] = Promoted(families[f], a, attempts[a].claimOrdinal)
<1> DEFINE f == attempts[a].familyKey
<1>1. /\ attempts' = [attempts EXCEPT ![a].lifecycle = "active"]
      /\ families' = [families EXCEPT
                        ![f] = Promoted(@, a, attempts[a].claimOrdinal)]
      /\ nextAttemptId' = nextAttemptId
  BY DEF SetPhase
<1>2. \A b \in Live : attempts[b] \in Attempt
  BY DEF CoordinatorInv, TypeOK, Live
<1>3. f \in DOMAIN families
  BY DEF CoordinatorInv, MapsAgree
<1>4. Live' = Live /\ \A b \in Live \ {a} : attempts'[b] = attempts[b]
  BY <1>1 DEF Live
<1>5. attempts'[a] = [attempts[a] EXCEPT !.lifecycle = "active"]
  BY <1>1 DEF Live
<1>6. /\ attempts'[a] \in Attempt
      /\ attempts'[a].familyKey = attempts[a].familyKey
      /\ attempts'[a].claimOrdinal = attempts[a].claimOrdinal
      /\ attempts'[a].lifecycle = "active"
  BY <1>2, <1>5 DEF Attempt
<1>7. /\ DOMAIN families' = DOMAIN families
      /\ \A g \in DOMAIN families \ {f} : families'[g] = families[g]
      /\ families'[f] = Promoted(families[f], a, attempts[a].claimOrdinal)
  BY <1>1, <1>3
<1> QED
  BY <1>1, <1>2, <1>4, <1>6, <1>7

\* The other live attempts of the family of a.
Siblings(a) == {b \in Live \ {a} : attempts[b].familyKey = attempts[a].familyKey}

\* removeAttemptFromFamily: a family without siblings disappears, any other
\* keeps its ordinals and its authority.
LEMMA FamiliesWithoutFields ==
  ASSUME CoordinatorInv, NEW a, a \in Live
  PROVE  LET f    == attempts[a].familyKey
             left == FamiliesWithout(a)
         IN /\ f \in DOMAIN families
            /\ DOMAIN left = IF Siblings(a) = {} THEN DOMAIN families \ {f}
                             ELSE DOMAIN families
            /\ \A g \in DOMAIN families \ {f} : left[g] = families[g]
            /\ Siblings(a) # {} =>
                 /\ left[f] \in FamilyState
                 /\ left[f].attemptIds = Siblings(a)
                 /\ left[f].nextClaimOrdinal = families[f].nextClaimOrdinal
                 /\ left[f].latestAuthoritativeClaimOrdinal
                      = families[f].latestAuthoritativeClaimOrdinal
<1> DEFINE f == attempts[a].familyKey
           left == FamiliesWithout(a)
           kept == [families EXCEPT ![f].attemptIds = Siblings(a)]
<1>1. f \in DOMAIN families /\ families[f] \in FamilyState
  BY DEF CoordinatorInv, MapsAgree, TypeOK
<1>2. families[f].attemptIds \ {a} = Siblings(a)
  BY <1>1 DEF CoordinatorInv, MapsAgree, Siblings
<1>3. left = IF Siblings(a) = {} THEN Without(families, f) ELSE kept
  BY <1>2 DEF FamiliesWithout
<1>4. CASE Siblings(a) = {}
  <2>1. left = Without(families, f)
    BY <1>3, <1>4
  <2> QED
    BY <1>1, <1>4, <2>1 DEF Without
<1>5. CASE Siblings(a) # {}
  <2>1. left = kept
    BY <1>3, <1>5
  <2>2. /\ DOMAIN kept = DOMAIN families
        /\ \A g \in DOMAIN families \ {f} : kept[g] = families[g]
        /\ kept[f] = [families[f] EXCEPT !.attemptIds = Siblings(a)]
    BY <1>1
  <2>3. Siblings(a) \in SUBSET AttemptIds
    BY DEF CoordinatorInv, TypeOK, Siblings, Live
  <2>4. LET t == [families[f] EXCEPT !.attemptIds = Siblings(a)]
        IN /\ t \in FamilyState
           /\ t.attemptIds = Siblings(a)
           /\ t.nextClaimOrdinal = families[f].nextClaimOrdinal
           /\ t.latestAuthoritativeClaimOrdinal
                = families[f].latestAuthoritativeClaimOrdinal
    BY <1>1, <2>3, Zenon DEF FamilyState
  <2> HIDE DEF kept, left
  <2>5. /\ DOMAIN left = DOMAIN families
        /\ \A g \in DOMAIN families \ {f} : left[g] = families[g]
        /\ left[f] = [families[f] EXCEPT !.attemptIds = Siblings(a)]
    BY <2>1, <2>2
  <2> QED
    BY <1>1, <1>5, <2>4, <2>5 DEF left
<1> QED
  BY <1>4, <1>5

\* recomputeAuthoritativeAttempt: the new authority is nobody's, or that of an
\* active member, and at least that of every active member.
LEMMA RecomputedFields ==
  ASSUME CoordinatorInv, NEW s \in FamilyState, s.attemptIds \subseteq Live,
         \A b \in s.attemptIds : attempts[b].claimOrdinal \in 0..s.nextClaimOrdinal
  PROVE  LET p == Recomputed(s)
         IN /\ p \in FamilyState
            /\ p.attemptIds = s.attemptIds
            /\ p.nextClaimOrdinal = s.nextClaimOrdinal
            /\ \/ p.latestAuthoritativeClaimOrdinal = 0
               \/ \E b \in s.attemptIds :
                    /\ Active(b)
                    /\ p.latestAuthoritativeClaimOrdinal = attempts[b].claimOrdinal
            /\ \A b \in s.attemptIds : Active(b) =>
                 attempts[b].claimOrdinal <= p.latestAuthoritativeClaimOrdinal
<1> DEFINE candidates == {b \in s.attemptIds : Active(b)}
           Newest(b) == \A c \in candidates :
                          attempts[c].claimOrdinal <= attempts[b].claimOrdinal
           newest == CHOOSE b \in candidates : Newest(b)
           nobody == [s EXCEPT !.latestAuthoritativeClaimOrdinal = 0,
                               !.latestAuthoritativeAttemptId = NoAttempt]
           heir   == [s EXCEPT
                        !.latestAuthoritativeClaimOrdinal = attempts[newest].claimOrdinal,
                        !.latestAuthoritativeAttemptId = newest]
<1>1. Recomputed(s) = IF candidates = {} THEN nobody ELSE heir
  BY DEF Recomputed
<1>2. \A o \in Nat, b \in AttemptIds \cup {NoAttempt} :
        LET t == [s EXCEPT !.latestAuthoritativeClaimOrdinal = o,
                           !.latestAuthoritativeAttemptId = b]
        IN /\ t \in FamilyState
           /\ t.attemptIds = s.attemptIds
           /\ t.nextClaimOrdinal = s.nextClaimOrdinal
           /\ t.latestAuthoritativeClaimOrdinal = o
  BY Zenon DEF FamilyState
<1>3. CASE candidates = {}
  <2>1. Recomputed(s) = nobody
    BY <1>1, <1>3
  <2>2. 0 \in Nat /\ NoAttempt \in AttemptIds \cup {NoAttempt}
    OBVIOUS
  <2>3. /\ nobody \in FamilyState
        /\ nobody.attemptIds = s.attemptIds
        /\ nobody.nextClaimOrdinal = s.nextClaimOrdinal
        /\ nobody.latestAuthoritativeClaimOrdinal = 0
    BY <1>2, <2>2, Zenon
  <2>4. \A b \in s.attemptIds : ~Active(b)
    BY <1>3
  <2> HIDE DEF nobody
  <2> QED
    BY <2>1, <2>3, <2>4
<1>4. CASE candidates # {}
  <2>1. \A b \in candidates : attempts[b].claimOrdinal \in Nat /\ b \in AttemptIds
    BY DEF CoordinatorInv, TypeOK, Live, Attempt
  <2>2. \E b \in candidates : Newest(b)
    <3> DEFINE T == {attempts[b].claimOrdinal : b \in candidates}
    <3>1. T \in SUBSET (0..s.nextClaimOrdinal) /\ T # {}
      BY <1>4
    <3>2. s.nextClaimOrdinal \in Nat
      BY DEF FamilyState
    <3>3. PICK x \in T : \A y \in T : y <= x
      BY <3>1, <3>2, GreatestNat
    <3>4. PICK b \in candidates : x = attempts[b].claimOrdinal
      BY <3>3
    <3>5. \A c \in candidates : attempts[c].claimOrdinal <= attempts[b].claimOrdinal
      BY <3>3, <3>4
    <3> QED
      BY <3>4, <3>5
  <2>3. newest \in candidates /\ Newest(newest)
    BY <2>2
  <2>4. /\ heir \in FamilyState
        /\ heir.attemptIds = s.attemptIds
        /\ heir.nextClaimOrdinal = s.nextClaimOrdinal
        /\ heir.latestAuthoritativeClaimOrdinal = attempts[newest].claimOrdinal
    <3>1. attempts[newest].claimOrdinal \in Nat /\ newest \in AttemptIds \cup {NoAttempt}
      BY <2>1, <2>3, Zenon
    <3> HIDE DEF newest
    <3> QED
      BY <1>2, <3>1, Zenon
  <2>5. Recomputed(s) = heir
    BY <1>1, <1>4
  <2> HIDE DEF heir, newest
  <2> QED
    BY <2>3, <2>4, <2>5
<1> QED
  BY <1>3, <1>4

\* What the invariant says of one live attempt and its family.
LEMMA LiveFacts ==
  ASSUME CoordinatorInv, NEW a, a \in Live
  PROVE  LET f == attempts[a].familyKey
         IN /\ a \in AttemptIds
            /\ attempts[a] \in Attempt
            /\ f \in Families /\ f \in DOMAIN families
            /\ families[f] \in FamilyState
            /\ attempts[a].claimOrdinal \in 1..(families[f].nextClaimOrdinal - 1)
            /\ families[f].nextClaimOrdinal \in Nat \ {0}
            /\ families[f].latestAuthoritativeClaimOrdinal \in Nat
            /\ families[f].latestAuthoritativeClaimOrdinal < families[f].nextClaimOrdinal
            /\ Active(a) => attempts[a].claimOrdinal
                              <= families[f].latestAuthoritativeClaimOrdinal
<1> DEFINE f == attempts[a].familyKey
<1>1. /\ a \in AttemptIds /\ attempts[a] \in Attempt
      /\ f \in DOMAIN families /\ families[f] \in FamilyState
  BY DEF CoordinatorInv, TypeOK, MapsAgree, Live
<1>2. /\ f \in Families
      /\ families[f].nextClaimOrdinal \in Nat
      /\ families[f].latestAuthoritativeClaimOrdinal \in Nat
  BY <1>1 DEF Attempt, FamilyState
<1>3. /\ attempts[a].claimOrdinal \in 1..(families[f].nextClaimOrdinal - 1)
      /\ families[f].latestAuthoritativeClaimOrdinal < families[f].nextClaimOrdinal
      /\ Active(a) => attempts[a].claimOrdinal
                        <= families[f].latestAuthoritativeClaimOrdinal
  BY <1>1 DEF CoordinatorInv, OrdinalsOrdered
<1> QED
  BY <1>1, <1>2, <1>3

\* release and the complete of an active attempt take it out of both maps.  The
\* authority that stays is still at least that of every running sibling, and
\* still that of the sibling that held it.
LEMMA RemovalEffect ==
  ASSUME CoordinatorInv, NEW a, a \in Live, Release(a) \/ (Active(a) /\ Complete(a))
  PROVE  LET f == attempts[a].familyKey
         IN /\ Live' = Live \ {a} /\ nextAttemptId' = nextAttemptId
            /\ \A b \in Live \ {a} : attempts'[b] = attempts[b]
            /\ DOMAIN families' = IF Siblings(a) = {} THEN DOMAIN families \ {f}
                                  ELSE DOMAIN families
            /\ \A g \in DOMAIN families \ {f} : families'[g] = families[g]
            /\ Siblings(a) # {} =>
                 /\ families'[f] \in FamilyState
                 /\ families'[f].attemptIds = Siblings(a)
                 /\ families'[f].nextClaimOrdinal = families[f].nextClaimOrdinal
                 /\ families'[f].latestAuthoritativeClaimOrdinal
                      < families[f].nextClaimOrdinal
                 /\ \A b \in Siblings(a) : Active(b) =>
                      attempts[b].claimOrdinal
                        <= families'[f].latestAuthoritativeClaimOrdinal
                 /\ \A b \in Siblings(a) : CanPublish(b) =>
                      families'[f].latestAuthoritativeClaimOrdinal
                        = attempts[b].claimOrdinal
<1> DEFINE f == attempts[a].familyKey
           left == FamiliesWithout(a)
<1>1. /\ attempts' = Without(attempts, a) /\ nextAttemptId' = nextAttemptId
      /\ \/ families' = IF f \in DOMAIN left
                        THEN [left EXCEPT ![f] = Recomputed(@)] ELSE left
         \/ families' = left
  BY DEF Release, Complete
<1>2. Live' = Live \ {a} /\ \A b \in Live \ {a} : attempts'[b] = attempts[b]
  BY <1>1 DEF Without, Live
<1>3. /\ f \in DOMAIN families
      /\ DOMAIN left = IF Siblings(a) = {} THEN DOMAIN families \ {f}
                       ELSE DOMAIN families
      /\ \A g \in DOMAIN families \ {f} : left[g] = families[g]
      /\ Siblings(a) # {} =>
           /\ left[f] \in FamilyState
           /\ left[f].attemptIds = Siblings(a)
           /\ left[f].nextClaimOrdinal = families[f].nextClaimOrdinal
           /\ left[f].latestAuthoritativeClaimOrdinal
                = families[f].latestAuthoritativeClaimOrdinal
  BY FamiliesWithoutFields
<1>4. \A b \in Siblings(a) :
        /\ b \in Live /\ attempts[b].familyKey = f
        /\ attempts[b].claimOrdinal \in 1..(families[f].nextClaimOrdinal - 1)
        /\ Active(b) => attempts[b].claimOrdinal
                          <= families[f].latestAuthoritativeClaimOrdinal
        /\ CanPublish(b) => /\ Active(b)
                            /\ attempts[b].claimOrdinal
                                 = families[f].latestAuthoritativeClaimOrdinal
  BY LiveFacts DEF Siblings, CanPublish
<1>5. /\ families[f].nextClaimOrdinal \in Nat \ {0}
      /\ families[f].latestAuthoritativeClaimOrdinal \in Nat
      /\ families[f].latestAuthoritativeClaimOrdinal < families[f].nextClaimOrdinal
  BY LiveFacts
<1> HIDE DEF left
<1>6. /\ DOMAIN families' = DOMAIN left
      /\ \A g \in DOMAIN families \ {f} : families'[g] = families[g]
  BY <1>1, <1>3
<1>7. ASSUME Siblings(a) # {}
      PROVE  /\ families'[f] \in FamilyState
             /\ families'[f].attemptIds = Siblings(a)
             /\ families'[f].nextClaimOrdinal = families[f].nextClaimOrdinal
             /\ families'[f].latestAuthoritativeClaimOrdinal
                  < families[f].nextClaimOrdinal
             /\ \A b \in Siblings(a) : Active(b) =>
                  attempts[b].claimOrdinal
                    <= families'[f].latestAuthoritativeClaimOrdinal
             /\ \A b \in Siblings(a) : CanPublish(b) =>
                  families'[f].latestAuthoritativeClaimOrdinal
                    = attempts[b].claimOrdinal
  <2>1. f \in DOMAIN left /\ left[f] \in FamilyState
    BY <1>3, <1>7
  <2>2. CASE families' = left
    BY <2>1, <2>2, <1>3, <1>4, <1>5, <1>7
  <2>3. CASE families' # left
    <3> DEFINE p == Recomputed(left[f])
    <3>1. families'[f] = p
      BY <1>1, <2>1, <2>3
    <3>2. /\ left[f].attemptIds \subseteq Live
          /\ \A b \in left[f].attemptIds :
               attempts[b].claimOrdinal \in 0..left[f].nextClaimOrdinal
      BY <1>3, <1>4, <1>5, <1>7
    <3>3. /\ p \in FamilyState
          /\ p.attemptIds = left[f].attemptIds
          /\ p.nextClaimOrdinal = left[f].nextClaimOrdinal
          /\ \/ p.latestAuthoritativeClaimOrdinal = 0
             \/ \E b \in left[f].attemptIds :
                  /\ Active(b)
                  /\ p.latestAuthoritativeClaimOrdinal = attempts[b].claimOrdinal
          /\ \A b \in left[f].attemptIds : Active(b) =>
               attempts[b].claimOrdinal <= p.latestAuthoritativeClaimOrdinal
      BY <2>1, <3>2, RecomputedFields
    <3> HIDE DEF p
    <3>4. p.latestAuthoritativeClaimOrdinal < families[f].nextClaimOrdinal
      BY <1>3, <1>4, <1>5, <1>7, <3>3
    <3>5. \A b \in Siblings(a) : CanPublish(b) =>
            p.latestAuthoritativeClaimOrdinal = attempts[b].claimOrdinal
      BY <1>3, <1>4, <1>5, <1>7, <3>3
    <3> QED
      BY <1>3, <1>7, <3>1, <3>3, <3>4, <3>5
  <2> QED
    BY <2>2, <2>3
<1> QED
  BY <1>1, <1>2, <1>3, <1>6, <1>7

-----------------------------------------------------------------------------
(* Every operation preserves the invariant *)

\* claim preserves the invariant.
LEMMA ClaimInv ==
  ASSUME CoordinatorInv, NEW a, NEW f \in Families, NEW phase, Claim(a, f, phase)
  PROVE  CoordinatorInv'
<1> DEFINE s == FamilyStateOf(f)
<1>1. /\ a \in AttemptIds /\ a \notin Live
      /\ a = nextAttemptId /\ nextAttemptId' = nextAttemptId + 1
      /\ Live' = Live \cup {a}
      /\ attempts'[a] \in Attempt
      /\ attempts'[a].familyKey = f
      /\ attempts'[a].claimOrdinal = s.nextClaimOrdinal
      /\ \A b \in Live : attempts'[b] = attempts[b]
  BY ClaimEffect
<1>2. /\ DOMAIN families' = DOMAIN families \cup {f}
      /\ \A g \in DOMAIN families \ {f} : families'[g] = families[g]
      /\ families'[f] \in FamilyState
      /\ families'[f].attemptIds = s.attemptIds \cup {a}
      /\ families'[f].nextClaimOrdinal = s.nextClaimOrdinal + 1
      /\ families'[f].latestAuthoritativeClaimOrdinal
           \in {s.latestAuthoritativeClaimOrdinal, s.nextClaimOrdinal}
      /\ families'[f].latestAuthoritativeClaimOrdinal
           >= s.latestAuthoritativeClaimOrdinal
      /\ attempts'[a].lifecycle = "active" =>
           families'[f].latestAuthoritativeClaimOrdinal = s.nextClaimOrdinal
  BY ClaimEffect
<1>3. /\ s \in FamilyState
      /\ s.attemptIds = {b \in Live : attempts[b].familyKey = f}
      /\ s.nextClaimOrdinal \in Nat \ {0}
      /\ s.latestAuthoritativeClaimOrdinal \in Nat
      /\ s.latestAuthoritativeClaimOrdinal < s.nextClaimOrdinal
      /\ \A b \in Live : attempts[b].familyKey = f =>
           attempts[b].claimOrdinal < s.nextClaimOrdinal
      /\ f \in DOMAIN families => s = families[f]
  BY FamilyStateOfFields DEF FamilyState, FamilyStateOf
<1> HIDE DEF s
<1>4. TypeOK'
  <2>1. DOMAIN attempts' \subseteq AttemptIds
        /\ \A b \in DOMAIN attempts' : attempts'[b] \in Attempt
    BY <1>1 DEF CoordinatorInv, TypeOK, Live
  <2>2. DOMAIN families' \subseteq Families
        /\ \A g \in DOMAIN families' : families'[g] \in FamilyState
    BY <1>2 DEF CoordinatorInv, TypeOK
  <2>3. nextAttemptId' \in 1..(MaxAttempts + 1)
    BY <1>1, MaxAttemptsAssumption DEF AttemptIds
  <2> QED
    BY <2>1, <2>2, <2>3 DEF TypeOK
<1>5. MapsAgree'
  <2>1. \A b \in Live' : attempts'[b].familyKey \in DOMAIN families'
    BY <1>1, <1>2 DEF CoordinatorInv, MapsAgree
  <2>2. \A g \in DOMAIN families' :
          /\ families'[g].attemptIds = {b \in Live' : attempts'[b].familyKey = g}
          /\ families'[g].attemptIds # {}
    <3>1. CASE f \in DOMAIN families
      BY <1>1, <1>2, <1>3, <3>1 DEF CoordinatorInv, MapsAgree
    <3>2. CASE f \notin DOMAIN families
      BY <1>1, <1>2, <1>3, <3>2 DEF CoordinatorInv, MapsAgree
    <3> QED
      BY <3>1, <3>2
  <2> QED
    BY <2>1, <2>2 DEF MapsAgree
<1>6. OrdinalsOrdered'
  <2>1. \A b \in Live : b < nextAttemptId /\ b \in Nat
    BY DEF CoordinatorInv, OrdinalsOrdered, TypeOK, Live, AttemptIds
  <2>2. \A b \in Live' : b < nextAttemptId'
    BY <1>1, <2>1 DEF AttemptIds
  <2>3. \A b, c \in Live' :
          attempts'[b].familyKey = attempts'[c].familyKey /\ b < c
            => attempts'[b].claimOrdinal < attempts'[c].claimOrdinal
    BY <1>1, <1>3, <2>1 DEF CoordinatorInv, OrdinalsOrdered, AttemptIds
  <2>4. \A b \in Live' :
          /\ attempts'[b].claimOrdinal
               \in 1..(families'[attempts'[b].familyKey].nextClaimOrdinal - 1)
          /\ attempts'[b].lifecycle = "active" =>
               attempts'[b].claimOrdinal <=
                 families'[attempts'[b].familyKey].latestAuthoritativeClaimOrdinal
    <3> TAKE b \in Live'
    <3>1. CASE b = a
      BY <1>1, <1>2, <1>3, <3>1 DEF FamilyState
    <3>2. CASE b # a /\ attempts[b].familyKey = f
      <4>1. b \in Live /\ attempts'[b] = attempts[b]
        BY <1>1, <3>2
      <4>2. f \in DOMAIN families /\ s = families[f]
        BY <1>3, <3>2, <4>1 DEF CoordinatorInv, MapsAgree
      <4>3. /\ attempts[b].claimOrdinal \in 1..(s.nextClaimOrdinal - 1)
            /\ attempts[b].lifecycle = "active" =>
                 attempts[b].claimOrdinal <= s.latestAuthoritativeClaimOrdinal
        BY <3>2, <4>1, <4>2, LiveFacts DEF Active
      <4> QED
        BY <1>2, <1>3, <3>2, <4>1, <4>3 DEF FamilyState
    <3>3. CASE b # a /\ attempts[b].familyKey # f
      <4>1. b \in Live /\ attempts'[b] = attempts[b]
        BY <1>1, <3>3
      <4>2. families'[attempts[b].familyKey] = families[attempts[b].familyKey]
        BY <1>2, <3>3, <4>1 DEF CoordinatorInv, MapsAgree
      <4> QED
        BY <4>1, <4>2, LiveFacts DEF Active
    <3> QED
      BY <3>1, <3>2, <3>3
  <2>5. \A g \in DOMAIN families' :
          families'[g].latestAuthoritativeClaimOrdinal < families'[g].nextClaimOrdinal
    BY <1>2, <1>3 DEF CoordinatorInv, OrdinalsOrdered
  <2> QED
    BY <2>2, <2>3, <2>4, <2>5 DEF OrdinalsOrdered, Active, Live
<1> QED
  BY <1>4, <1>5, <1>6 DEF CoordinatorInv

\* setPhase preserves it.
LEMMA SetPhaseInv ==
  ASSUME CoordinatorInv, NEW a, a \in Live, ~Active(a), SetPhase(a)
  PROVE  CoordinatorInv'
<1> DEFINE f == attempts[a].familyKey
<1>1. /\ Live' = Live /\ nextAttemptId' = nextAttemptId
      /\ \A b \in Live : /\ attempts'[b] \in Attempt
                         /\ attempts'[b].familyKey = attempts[b].familyKey
                         /\ attempts'[b].claimOrdinal = attempts[b].claimOrdinal
      /\ \A b \in Live \ {a} : attempts'[b] = attempts[b]
      /\ DOMAIN families' = DOMAIN families
      /\ \A g \in DOMAIN families \ {f} : families'[g] = families[g]
      /\ families'[f] = Promoted(families[f], a, attempts[a].claimOrdinal)
  BY SetPhaseEffect
<1>2. /\ a \in AttemptIds
      /\ f \in Families /\ f \in DOMAIN families
      /\ families[f] \in FamilyState
      /\ attempts[a].claimOrdinal \in Nat
      /\ attempts[a].claimOrdinal < families[f].nextClaimOrdinal
      /\ families[f].nextClaimOrdinal \in Nat
      /\ families[f].latestAuthoritativeClaimOrdinal \in Nat
      /\ families[f].latestAuthoritativeClaimOrdinal < families[f].nextClaimOrdinal
  BY LiveFacts
<1>3. /\ families'[f] \in FamilyState
      /\ families'[f].attemptIds = families[f].attemptIds
      /\ families'[f].nextClaimOrdinal = families[f].nextClaimOrdinal
      /\ families'[f].latestAuthoritativeClaimOrdinal
           \in {families[f].latestAuthoritativeClaimOrdinal, attempts[a].claimOrdinal}
      /\ families'[f].latestAuthoritativeClaimOrdinal
           >= families[f].latestAuthoritativeClaimOrdinal
      /\ families'[f].latestAuthoritativeClaimOrdinal >= attempts[a].claimOrdinal
  <2> DEFINE p == Promoted(families[f], a, attempts[a].claimOrdinal)
  <2>1. /\ p \in FamilyState
        /\ p.attemptIds = families[f].attemptIds
        /\ p.nextClaimOrdinal = families[f].nextClaimOrdinal
        /\ p.latestAuthoritativeClaimOrdinal
             \in {families[f].latestAuthoritativeClaimOrdinal, attempts[a].claimOrdinal}
        /\ p.latestAuthoritativeClaimOrdinal
             >= families[f].latestAuthoritativeClaimOrdinal
        /\ p.latestAuthoritativeClaimOrdinal >= attempts[a].claimOrdinal
    BY <1>2, PromotedFields, Zenon
  <2>2. families'[f] = p
    BY <1>1
  <2> HIDE DEF p
  <2> QED
    BY <2>1, <2>2
<1>4. TypeOK'
  BY <1>1, <1>3 DEF CoordinatorInv, TypeOK, Live
<1>5. MapsAgree'
  BY <1>1, <1>3 DEF CoordinatorInv, MapsAgree
<1>6. OrdinalsOrdered'
  <2>1. \A b \in Live' : b < nextAttemptId'
    BY <1>1 DEF CoordinatorInv, OrdinalsOrdered
  <2>2. \A b, c \in Live' :
          attempts'[b].familyKey = attempts'[c].familyKey /\ b < c
            => attempts'[b].claimOrdinal < attempts'[c].claimOrdinal
    BY <1>1 DEF CoordinatorInv, OrdinalsOrdered
  <2>3. \A b \in Live' :
          /\ attempts'[b].claimOrdinal
               \in 1..(families'[attempts'[b].familyKey].nextClaimOrdinal - 1)
          /\ attempts'[b].lifecycle = "active" =>
               attempts'[b].claimOrdinal <=
                 families'[attempts'[b].familyKey].latestAuthoritativeClaimOrdinal
    <3> TAKE b \in Live'
    <3> DEFINE g == attempts[b].familyKey
    <3>1. /\ b \in Live
          /\ attempts'[b].familyKey = g
          /\ attempts'[b].claimOrdinal = attempts[b].claimOrdinal
          /\ attempts[b].claimOrdinal \in 1..(families[g].nextClaimOrdinal - 1)
          /\ families'[g].nextClaimOrdinal = families[g].nextClaimOrdinal
      BY <1>1, <1>3, LiveFacts
    <3>2. ASSUME attempts'[b].lifecycle = "active"
          PROVE  attempts[b].claimOrdinal
                   <= families'[g].latestAuthoritativeClaimOrdinal
      <4>1. CASE b = a
        BY <1>2, <1>3, <4>1 DEF FamilyState
      <4>2. CASE b # a
        <5>1. /\ attempts[b].claimOrdinal \in Nat
              /\ attempts[b].claimOrdinal
                   <= families[g].latestAuthoritativeClaimOrdinal
              /\ families[g].latestAuthoritativeClaimOrdinal \in Nat
          BY <1>1, <3>1, <3>2, <4>2, LiveFacts DEF Active
        <5>2. CASE g = f
          BY <1>2, <1>3, <5>1, <5>2
        <5>3. CASE g # f
          BY <1>1, <3>1, <5>1, <5>3 DEF CoordinatorInv, MapsAgree
        <5> QED
          BY <5>2, <5>3
      <4> QED
        BY <4>1, <4>2
    <3> QED
      BY <3>1, <3>2
  <2>4. \A g \in DOMAIN families' :
          families'[g].latestAuthoritativeClaimOrdinal < families'[g].nextClaimOrdinal
    BY <1>1, <1>2, <1>3 DEF CoordinatorInv, OrdinalsOrdered
  <2> QED
    BY <2>1, <2>2, <2>3, <2>4 DEF OrdinalsOrdered, Active, Live
<1> QED
  BY <1>4, <1>5, <1>6 DEF CoordinatorInv

\* release and complete, which differ in the authority they leave, preserve it.
LEMMA RemovalInv ==
  ASSUME CoordinatorInv, NEW a, a \in Live, Release(a) \/ (Active(a) /\ Complete(a))
  PROVE  CoordinatorInv'
<1> DEFINE f == attempts[a].familyKey
<1>1. /\ Live' = Live \ {a} /\ nextAttemptId' = nextAttemptId
      /\ \A b \in Live \ {a} : attempts'[b] = attempts[b]
      /\ DOMAIN families' = IF Siblings(a) = {} THEN DOMAIN families \ {f}
                            ELSE DOMAIN families
      /\ \A g \in DOMAIN families \ {f} : families'[g] = families[g]
  BY RemovalEffect
<1>2. Siblings(a) # {} =>
        /\ families'[f] \in FamilyState
        /\ families'[f].attemptIds = Siblings(a)
        /\ families'[f].nextClaimOrdinal = families[f].nextClaimOrdinal
        /\ families'[f].latestAuthoritativeClaimOrdinal < families[f].nextClaimOrdinal
        /\ \A b \in Siblings(a) : Active(b) =>
             attempts[b].claimOrdinal <= families'[f].latestAuthoritativeClaimOrdinal
  BY RemovalEffect
<1>3. f \in DOMAIN families
  BY LiveFacts
<1>4. TypeOK'
  BY <1>1, <1>2 DEF CoordinatorInv, TypeOK, Live
<1>5. MapsAgree'
  <2>1. \A b \in Live' : attempts'[b].familyKey \in DOMAIN families'
    BY <1>1 DEF CoordinatorInv, MapsAgree, Siblings
  <2>2. \A g \in DOMAIN families' :
          /\ families'[g].attemptIds = {b \in Live' : attempts'[b].familyKey = g}
          /\ families'[g].attemptIds # {}
    <3> TAKE g \in DOMAIN families'
    <3>1. CASE g = f
      BY <1>1, <1>2, <3>1 DEF Siblings
    <3>2. CASE g # f
      BY <1>1, <3>2 DEF CoordinatorInv, MapsAgree
    <3> QED
      BY <3>1, <3>2
  <2> QED
    BY <2>1, <2>2 DEF MapsAgree
<1>6. OrdinalsOrdered'
  <2>1. \A b \in Live' : b < nextAttemptId'
    BY <1>1 DEF CoordinatorInv, OrdinalsOrdered
  <2>2. \A b, c \in Live' :
          attempts'[b].familyKey = attempts'[c].familyKey /\ b < c
            => attempts'[b].claimOrdinal < attempts'[c].claimOrdinal
    BY <1>1 DEF CoordinatorInv, OrdinalsOrdered
  <2>3. \A b \in Live' :
          /\ attempts'[b].claimOrdinal
               \in 1..(families'[attempts'[b].familyKey].nextClaimOrdinal - 1)
          /\ attempts'[b].lifecycle = "active" =>
               attempts'[b].claimOrdinal <=
                 families'[attempts'[b].familyKey].latestAuthoritativeClaimOrdinal
    <3> TAKE b \in Live'
    <3>1. b \in Live /\ b # a /\ attempts'[b] = attempts[b]
      BY <1>1
    <3>2. CASE attempts[b].familyKey = f
      BY <1>2, <3>1, <3>2, LiveFacts DEF Siblings, Active
    <3>3. CASE attempts[b].familyKey # f
      <4>1. families'[attempts[b].familyKey] = families[attempts[b].familyKey]
        BY <1>1, <3>1, <3>3, LiveFacts
      <4> QED
        BY <3>1, <4>1, LiveFacts DEF Active
    <3> QED
      BY <3>2, <3>3
  <2>4. \A g \in DOMAIN families' :
          families'[g].latestAuthoritativeClaimOrdinal < families'[g].nextClaimOrdinal
    BY <1>1, <1>2 DEF CoordinatorInv, OrdinalsOrdered
  <2> QED
    BY <2>1, <2>2, <2>3, <2>4 DEF OrdinalsOrdered, Active, Live
<1> QED
  BY <1>4, <1>5, <1>6 DEF CoordinatorInv

\* A call that finds nothing to do changes nothing.
LEMMA UnchangedInv ==
  ASSUME CoordinatorInv, UNCHANGED coordinatorVars
  PROVE  CoordinatorInv'
<1> QED
  BY DEF coordinatorVars, CoordinatorInv, TypeOK, MapsAgree, OrdinalsOrdered, Live, Active

\* What a step of the coordinator can be, in an invariant state.
LEMMA StepCases ==
  ASSUME CoordinatorNext
  PROVE  \/ \E a \in AttemptIds, f \in Families,
               phase \in {"claimed", "workspace-create"} : Claim(a, f, phase)
         \/ \E a \in Live : ~Active(a) /\ SetPhase(a)
         \/ \E a \in Live : Release(a) \/ (Active(a) /\ Complete(a))
         \/ UNCHANGED coordinatorVars
<1>1. CASE ClaimAny
  BY <1>1 DEF ClaimAny, Claim
<1>2. ASSUME NEW a \in AttemptIds, SetPhase(a)
      PROVE  (a \in Live /\ ~Active(a)) \/ UNCHANGED coordinatorVars
  BY <1>2 DEF SetPhase, coordinatorVars
<1>3. ASSUME NEW a \in AttemptIds, Release(a)
      PROVE  a \in Live \/ UNCHANGED coordinatorVars
  BY <1>3 DEF Release, coordinatorVars
<1>4. ASSUME NEW a \in AttemptIds, Complete(a)
      PROVE  (a \in Live /\ Active(a)) \/ UNCHANGED coordinatorVars
  BY <1>4 DEF Complete, coordinatorVars, Active
<1> QED
  BY <1>1, <1>2, <1>3, <1>4 DEF CoordinatorNext

\* The invariant is inductive.
LEMMA NextInv == CoordinatorInv /\ [CoordinatorNext]_coordinatorVars => CoordinatorInv'
<1> SUFFICES ASSUME CoordinatorInv, [CoordinatorNext]_coordinatorVars
             PROVE  CoordinatorInv'
  OBVIOUS
<1>1. CASE UNCHANGED coordinatorVars
  BY <1>1, UnchangedInv
<1>2. ASSUME NEW a \in AttemptIds, NEW f \in Families, NEW phase, Claim(a, f, phase)
      PROVE  CoordinatorInv'
  BY <1>2, ClaimInv
<1>3. ASSUME NEW a \in Live, ~Active(a), SetPhase(a)
      PROVE  CoordinatorInv'
  BY <1>3, SetPhaseInv
<1>4. ASSUME NEW a \in Live, Release(a) \/ (Active(a) /\ Complete(a))
      PROVE  CoordinatorInv'
  BY <1>4, RemovalInv
<1> QED
  BY <1>1, <1>2, <1>3, <1>4, StepCases

-----------------------------------------------------------------------------
(* The theorems *)

\* The invariant holds in every reachable state: the two maps have their types
\* and agree, and ordinals follow the order of the claims, whatever the order
\* of claim, setPhase, release and complete calls.
THEOREM CoordinatorInvariant == CoordinatorSpec => []CoordinatorInv
<1> QED
  BY InitInv, NextInv, PTL DEF CoordinatorSpec

LEMMA InvBarsSecond ==
  ASSUME CoordinatorInv
  PROVE  AtMostOnePublisher
<1> SUFFICES ASSUME NEW a \in Live, NEW b \in Live,
                    attempts[a].familyKey = attempts[b].familyKey,
                    CanPublish(a), CanPublish(b)
             PROVE  a = b
  BY DEF AtMostOnePublisher
<1>1. attempts[a].claimOrdinal = attempts[b].claimOrdinal
  BY DEF CanPublish
<1>2. a \in Nat /\ b \in Nat /\ attempts[a].claimOrdinal \in Nat
  BY LiveFacts DEF AttemptIds, Attempt
<1>3. ~(a < b) /\ ~(b < a)
  BY <1>1, <1>2 DEF CoordinatorInv, OrdinalsOrdered
<1> QED
  BY <1>2, <1>3

\* Two live attempts of one family never both pass canPublish: their ordinals
\* differ and only one of them is the authoritative one.
THEOREM PublisherIsUnique == CoordinatorSpec => []AtMostOnePublisher
<1> QED
  BY InvBarsSecond, InitInv, NextInv, PTL DEF CoordinatorSpec

\* A running review loses the publish right only in a step in which a newer
\* review of its pull request starts and gains it.
THEOREM RightsAreLostOnlyToNewer == CoordinatorSpec => RightsLostOnlyToNewer
<1> DEFINE Lost(a) == CanPublish(a) /\ a \in Live' /\ ~CanPublish(a)'
           Heir(a, b) == /\ b > a
                         /\ ~CanPublish(b)
                         /\ CanPublish(b)'
                         /\ attempts'[b].familyKey = attempts[a].familyKey
           Step == \A a \in Live : Lost(a) => \E b \in Live' : Heir(a, b)
<1>1. CoordinatorInv /\ [CoordinatorNext]_coordinatorVars => [Step]_coordinatorVars
  <2> SUFFICES ASSUME CoordinatorInv, CoordinatorNext, NEW a \in Live, Lost(a)
               PROVE  \E b \in Live' : Heir(a, b)
    OBVIOUS
  <2> DEFINE f == attempts[a].familyKey
  <2>1. /\ Active(a) /\ a \in AttemptIds /\ attempts[a] \in Attempt
        /\ f \in Families /\ f \in DOMAIN families /\ families[f] \in FamilyState
        /\ families[f].latestAuthoritativeClaimOrdinal = attempts[a].claimOrdinal
        /\ attempts[a].claimOrdinal \in Nat
    BY LiveFacts DEF CanPublish, Attempt
  <2>2. ASSUME attempts'[a] = attempts[a], f \in DOMAIN families',
               families'[f].latestAuthoritativeClaimOrdinal
                 = families[f].latestAuthoritativeClaimOrdinal
        PROVE  FALSE
    BY <2>1, <2>2 DEF CanPublish, Active, Live
  <2>3. ASSUME NEW b \in AttemptIds, NEW g \in Families, NEW phase, Claim(b, g, phase)
        PROVE  \E c \in Live' : Heir(a, c)
    <3> DEFINE s == FamilyStateOf(g)
    <3>1. /\ b = nextAttemptId /\ b \notin Live /\ b \in Live'
          /\ attempts'[b].familyKey = g
          /\ attempts'[b].claimOrdinal = s.nextClaimOrdinal
          /\ attempts'[a] = attempts[a]
          /\ DOMAIN families' = DOMAIN families \cup {g}
          /\ \A h \in DOMAIN families \ {g} : families'[h] = families[h]
          /\ attempts'[b].lifecycle = "active" =>
               families'[g].latestAuthoritativeClaimOrdinal = s.nextClaimOrdinal
          /\ attempts'[b].lifecycle # "active" =>
               families'[g].latestAuthoritativeClaimOrdinal
                 = s.latestAuthoritativeClaimOrdinal
      BY <2>3, ClaimEffect
    <3>2. g = f /\ s = families[f]
      BY <2>1, <2>2, <3>1 DEF FamilyStateOf
    <3>3. attempts'[b].lifecycle = "active"
      BY <2>1, <2>2, <3>1, <3>2
    <3>4. CanPublish(b)' /\ ~CanPublish(b)
      BY <3>1, <3>2, <3>3 DEF CanPublish, Active, Live
    <3>5. b > a
      BY <2>1, <3>1 DEF CoordinatorInv, OrdinalsOrdered, AttemptIds
    <3> QED
      BY <3>1, <3>2, <3>4, <3>5
  <2>4. ASSUME NEW b \in Live, ~Active(b), SetPhase(b)
        PROVE  \E c \in Live' : Heir(a, c)
    <3>1. b # a
      BY <2>1, <2>4
    <3>2. /\ Live' = Live
          /\ attempts'[b].familyKey = attempts[b].familyKey
          /\ attempts'[b].claimOrdinal = attempts[b].claimOrdinal
          /\ attempts'[b].lifecycle = "active"
          /\ attempts'[a] = attempts[a]
          /\ DOMAIN families' = DOMAIN families
          /\ attempts[b].familyKey # f => families'[f] = families[f]
          /\ families'[attempts[b].familyKey]
               = Promoted(families[attempts[b].familyKey], b, attempts[b].claimOrdinal)
      BY <2>1, <2>4, <3>1, SetPhaseEffect
    <3>3. attempts[b].familyKey = f
      BY <2>1, <2>2, <3>2
    <3>4. b \in AttemptIds /\ attempts[b].claimOrdinal \in Nat
      BY LiveFacts DEF Attempt
    <3> DEFINE p == Promoted(families[f], b, attempts[b].claimOrdinal)
    <3>5. /\ p.latestAuthoritativeClaimOrdinal
               \in {families[f].latestAuthoritativeClaimOrdinal, attempts[b].claimOrdinal}
          /\ p.latestAuthoritativeClaimOrdinal
               >= families[f].latestAuthoritativeClaimOrdinal
      BY <2>1, <3>4, PromotedFields, Zenon
    <3>6. families'[f] = p
      BY <3>2, <3>3
    <3> HIDE DEF p
    <3>7. families'[f].latestAuthoritativeClaimOrdinal = attempts[b].claimOrdinal
          /\ attempts[b].claimOrdinal > attempts[a].claimOrdinal
      BY <2>1, <2>2, <3>2, <3>4, <3>5, <3>6
    <3>8. b > a
      BY <2>1, <3>1, <3>3, <3>4, <3>7 DEF CoordinatorInv, OrdinalsOrdered, AttemptIds
    <3>9. CanPublish(b)' /\ ~CanPublish(b)
      BY <2>1, <2>4, <3>2, <3>3, <3>7 DEF CanPublish, Active, Live
    <3> QED
      BY <3>2, <3>3, <3>8, <3>9
  <2>5. ASSUME NEW b \in Live, Release(b) \/ (Active(b) /\ Complete(b))
        PROVE  FALSE
    <3>1. /\ Live' = Live \ {b}
          /\ \A c \in Live \ {b} : attempts'[c] = attempts[c]
          /\ DOMAIN families' = IF Siblings(b) = {}
                                THEN DOMAIN families \ {attempts[b].familyKey}
                                ELSE DOMAIN families
          /\ \A g \in DOMAIN families \ {attempts[b].familyKey} :
               families'[g] = families[g]
          /\ Siblings(b) # {} => \A c \in Siblings(b) : CanPublish(c) =>
               families'[attempts[b].familyKey].latestAuthoritativeClaimOrdinal
                 = attempts[c].claimOrdinal
      BY <2>5, RemovalEffect
    <3>2. a # b /\ attempts'[a] = attempts[a]
      BY <3>1
    <3>3. CASE attempts[b].familyKey = f
      BY <2>1, <2>2, <3>1, <3>2, <3>3 DEF Siblings
    <3>4. CASE attempts[b].familyKey # f
      BY <2>1, <2>2, <3>1, <3>2, <3>4
    <3> QED
      BY <3>3, <3>4
  <2>6. ~ UNCHANGED coordinatorVars
    BY DEF coordinatorVars, CanPublish, Active, Live
  <2> QED
    BY <2>3, <2>4, <2>5, <2>6, StepCases
<1> QED
  BY <1>1, InitInv, NextInv, PTL DEF CoordinatorSpec, RightsLostOnlyToNewer

-----------------------------------------------------------------------------
(* The coordinator implements PublishRights: its ordinals, which start     *)
(* over when a family is cleared, and its two maps never show outside.     *)

\* An entry names an authoritative attempt exactly when it has an ordinal.
Named(s) == (s.latestAuthoritativeAttemptId = NoAttempt)
              <=> (s.latestAuthoritativeClaimOrdinal = 0)

\* What SupersedingAttemptId needs beside the invariant of the coordinator.
AuthorityNamed == \A f \in DOMAIN families : Named(families[f])

RefinementInv == CoordinatorInv /\ AuthorityNamed

-----------------------------------------------------------------------------
(* The authority has a name *)

\* A promotion sets the ordinal and the id together.
LEMMA PromotedNamed ==
  ASSUME NEW s \in FamilyState, Named(s), NEW a \in AttemptIds, NEW o \in Nat \ {0}
  PROVE  Named(Promoted(s, a, o))
<1> DEFINE up == [s EXCEPT !.latestAuthoritativeClaimOrdinal = o,
                         !.latestAuthoritativeAttemptId = a]
<1>1. up.latestAuthoritativeClaimOrdinal = o /\ up.latestAuthoritativeAttemptId = a
  BY Zenon DEF FamilyState
<1>2. Promoted(s, a, o)
        = IF o > s.latestAuthoritativeClaimOrdinal THEN up ELSE s
  BY Zenon DEF Promoted
<1> HIDE DEF up
<1>3. a # NoAttempt /\ o # 0
  BY DEF AttemptIds, NoAttempt
<1>4. Named(up)
  BY <1>1, <1>3 DEF Named
<1> QED
  BY <1>2, <1>4

\* Recomputing sets both, or clears both.
LEMMA RecomputedNamed ==
  ASSUME CoordinatorInv, NEW s \in FamilyState, s.attemptIds \subseteq Live,
         \A b \in s.attemptIds : attempts[b].claimOrdinal \in 1..s.nextClaimOrdinal
  PROVE  Named(Recomputed(s))
<1> DEFINE candidates == {b \in s.attemptIds : Active(b)}
           Newest(b) == \A c \in candidates :
                          attempts[c].claimOrdinal <= attempts[b].claimOrdinal
           newest == CHOOSE b \in candidates : Newest(b)
           nobody == [s EXCEPT !.latestAuthoritativeClaimOrdinal = 0,
                               !.latestAuthoritativeAttemptId = NoAttempt]
           heir   == [s EXCEPT
                        !.latestAuthoritativeClaimOrdinal = attempts[newest].claimOrdinal,
                        !.latestAuthoritativeAttemptId = newest]
<1>1. Recomputed(s) = IF candidates = {} THEN nobody ELSE heir
  BY DEF Recomputed
<1>2. \A o, b :
        LET t == [s EXCEPT !.latestAuthoritativeClaimOrdinal = o,
                           !.latestAuthoritativeAttemptId = b]
        IN /\ t.latestAuthoritativeClaimOrdinal = o
           /\ t.latestAuthoritativeAttemptId = b
  BY Zenon DEF FamilyState
<1>3. CASE candidates = {}
  <2>1. Recomputed(s) = nobody
    BY <1>1, <1>3
  <2>2. /\ nobody.latestAuthoritativeClaimOrdinal = 0
        /\ nobody.latestAuthoritativeAttemptId = NoAttempt
    BY <1>2, Zenon
  <2> HIDE DEF nobody
  <2> QED
    BY <2>1, <2>2 DEF Named
<1>4. CASE candidates # {}
  <2>1. \E b \in candidates : Newest(b)
    <3> DEFINE T == {attempts[b].claimOrdinal : b \in candidates}
    <3>1. T \in SUBSET (0..s.nextClaimOrdinal) /\ T # {}
      BY <1>4
    <3>2. s.nextClaimOrdinal \in Nat
      BY DEF FamilyState
    <3>3. PICK x \in T : \A y \in T : y <= x
      BY <3>1, <3>2, GreatestNat
    <3>4. PICK b \in candidates : x = attempts[b].claimOrdinal
      BY <3>3
    <3>5. \A c \in candidates : attempts[c].claimOrdinal <= attempts[b].claimOrdinal
      BY <3>3, <3>4
    <3> QED
      BY <3>4, <3>5
  <2>2. newest \in candidates
    BY <2>1
  <2>3. /\ heir.latestAuthoritativeClaimOrdinal = attempts[newest].claimOrdinal
        /\ heir.latestAuthoritativeAttemptId = newest
    <3> HIDE DEF newest
    <3> QED
      BY <1>2, Zenon
  <2>4. Recomputed(s) = heir
    BY <1>1, <1>4
  <2>5. attempts[newest].claimOrdinal # 0 /\ newest # NoAttempt
    <3>1. newest \in s.attemptIds /\ newest \in Live
      BY <2>2
    <3>2. newest \in AttemptIds
      BY <3>1 DEF CoordinatorInv, TypeOK, Live
    <3> HIDE DEF newest
    <3>3. attempts[newest].claimOrdinal \in 1..s.nextClaimOrdinal
      BY <3>1
    <3> QED
      BY <3>2, <3>3 DEF AttemptIds, NoAttempt
  <2> HIDE DEF heir, newest
  <2> QED
    BY <2>3, <2>4, <2>5 DEF Named
<1> QED
  BY <1>3, <1>4

\* An attempt that joins a family leaves the authority of the entry alone.
LEMMA ClaimNamed ==
  ASSUME RefinementInv, NEW a, NEW f \in Families, NEW phase, Claim(a, f, phase)
  PROVE  AuthorityNamed'
<1> DEFINE s == FamilyStateOf(f)
           o == s.nextClaimOrdinal
           joined == [s EXCEPT !.attemptIds = @ \cup {a}, !.nextClaimOrdinal = @ + 1]
           life == IF phase = "claimed" THEN "pending" ELSE "active"
<1>1. /\ a = nextAttemptId /\ a \in AttemptIds
      /\ families' = [g \in DOMAIN families \cup {f} |->
                        IF g # f THEN families[g]
                        ELSE IF life = "active" THEN Promoted(joined, a, o)
                        ELSE joined]
  BY DEF Claim
<1>2. s \in FamilyState /\ o \in Nat \ {0}
  BY FamilyStateOfFields DEF RefinementInv
<1>3. Named(s)
  BY DEF RefinementInv, AuthorityNamed, FamilyStateOf, FreshFamily, Named
<1>4. joined \in FamilyState /\ Named(joined)
  <2>1. s.attemptIds \cup {a} \in SUBSET AttemptIds /\ o + 1 \in Nat
    BY <1>1, <1>2 DEF FamilyState
  <2>2. \A ids \in SUBSET AttemptIds, n \in Nat :
          LET t == [s EXCEPT !.attemptIds = ids, !.nextClaimOrdinal = n]
          IN /\ t \in FamilyState
             /\ t.latestAuthoritativeClaimOrdinal = s.latestAuthoritativeClaimOrdinal
             /\ t.latestAuthoritativeAttemptId = s.latestAuthoritativeAttemptId
    BY <1>2, Zenon DEF FamilyState
  <2>3. /\ joined \in FamilyState
        /\ joined.latestAuthoritativeClaimOrdinal = s.latestAuthoritativeClaimOrdinal
        /\ joined.latestAuthoritativeAttemptId = s.latestAuthoritativeAttemptId
    BY <2>1, <2>2
  <2> HIDE DEF joined
  <2> QED
    BY <1>3, <2>3 DEF Named
<1> HIDE DEF joined
<1>5. Named(Promoted(joined, a, o))
  BY <1>1, <1>2, <1>4, PromotedNamed
<1>6. \A g \in DOMAIN families' : Named(families'[g])
  <2> SUFFICES ASSUME NEW g \in DOMAIN families' PROVE Named(families'[g])
    OBVIOUS
  <2>1. CASE g # f
    <3>1. g \in DOMAIN families /\ families'[g] = families[g]
      BY <1>1, <2>1
    <3> QED
      BY <3>1 DEF RefinementInv, AuthorityNamed
  <2>2. CASE g = f
    <3>1. families'[f] = IF life = "active" THEN Promoted(joined, a, o) ELSE joined
      BY <1>1
    <3> QED
      BY <2>2, <3>1, <1>4, <1>5
  <2> QED
    BY <2>1, <2>2
<1> QED
  BY <1>6 DEF AuthorityNamed, Named

\* So does the start of an attempt, which may take the authority.
LEMMA SetPhaseNamed ==
  ASSUME RefinementInv, NEW a, a \in Live, ~Active(a), SetPhase(a)
  PROVE  AuthorityNamed'
<1> DEFINE f == attempts[a].familyKey
<1>1. /\ DOMAIN families' = DOMAIN families
      /\ \A g \in DOMAIN families \ {f} : families'[g] = families[g]
      /\ families'[f] = Promoted(families[f], a, attempts[a].claimOrdinal)
  BY SetPhaseEffect DEF RefinementInv
<1>2. /\ f \in DOMAIN families /\ families[f] \in FamilyState
      /\ a \in AttemptIds
      /\ attempts[a].claimOrdinal \in 1..(families[f].nextClaimOrdinal - 1)
      /\ families[f].nextClaimOrdinal \in Nat
  BY LiveFacts DEF RefinementInv
<1>3. attempts[a].claimOrdinal \in Nat \ {0} /\ Named(families[f])
  BY <1>2 DEF RefinementInv, AuthorityNamed
<1>4. Named(families'[f])
  BY <1>1, <1>2, <1>3, PromotedNamed
<1>5. \A g \in DOMAIN families' : Named(families'[g])
  BY <1>1, <1>4 DEF RefinementInv, AuthorityNamed
<1> QED
  BY <1>5 DEF AuthorityNamed, Named

\* What stays of a family when a leaves keeps its authority; release then
\* recomputes it.
LEMMA RemovalFamily ==
  ASSUME RefinementInv, NEW a, a \in Live, Siblings(a) # {},
         Release(a) \/ (Active(a) /\ Complete(a))
  PROVE  LET f == attempts[a].familyKey
         IN \E kept \in FamilyState :
              /\ kept.attemptIds = Siblings(a)
              /\ kept.nextClaimOrdinal = families[f].nextClaimOrdinal
              /\ kept.latestAuthoritativeClaimOrdinal
                   = families[f].latestAuthoritativeClaimOrdinal
              /\ Named(kept)
              /\ Release(a) => families'[f] = Recomputed(kept)
              /\ (Active(a) /\ Complete(a)) => families'[f] = kept
<1> DEFINE f == attempts[a].familyKey
           left == FamiliesWithout(a)
<1>1. f \in DOMAIN families /\ families[f] \in FamilyState /\ Named(families[f])
  BY DEF RefinementInv, AuthorityNamed, CoordinatorInv, MapsAgree, TypeOK
<1>2. families[f].attemptIds \ {a} = Siblings(a)
  BY <1>1 DEF RefinementInv, CoordinatorInv, MapsAgree, Siblings
<1>3. left = [families EXCEPT ![f].attemptIds = Siblings(a)]
  BY <1>2 DEF FamiliesWithout
<1> DEFINE kept == [families[f] EXCEPT !.attemptIds = Siblings(a)]
<1>4. f \in DOMAIN left /\ left[f] = kept
  BY <1>1, <1>3
<1>5. Siblings(a) \in SUBSET AttemptIds
  BY DEF RefinementInv, CoordinatorInv, TypeOK, Siblings, Live
<1>6. /\ kept \in FamilyState
      /\ kept.attemptIds = Siblings(a)
      /\ kept.nextClaimOrdinal = families[f].nextClaimOrdinal
      /\ kept.latestAuthoritativeClaimOrdinal
           = families[f].latestAuthoritativeClaimOrdinal
      /\ kept.latestAuthoritativeAttemptId = families[f].latestAuthoritativeAttemptId
  BY <1>1, <1>5, Zenon DEF FamilyState
<1>7. Release(a) => families' = [left EXCEPT ![f] = Recomputed(@)]
  BY <1>4 DEF Release
<1>8. (Active(a) /\ Complete(a)) => families' = left
  BY DEF Complete
<1> HIDE DEF left, kept
<1>9. /\ Release(a) => families'[f] = Recomputed(kept)
      /\ (Active(a) /\ Complete(a)) => families'[f] = kept
  BY <1>4, <1>7, <1>8
<1>10. Named(kept)
  BY <1>1, <1>6 DEF Named
<1> QED
  BY <1>6, <1>9, <1>10

\* Neither removal leaves an ordinal without a name.
LEMMA RemovalNamed ==
  ASSUME RefinementInv, NEW a, a \in Live, Release(a) \/ (Active(a) /\ Complete(a))
  PROVE  AuthorityNamed'
<1> DEFINE f == attempts[a].familyKey
<1>1. /\ DOMAIN families' = IF Siblings(a) = {} THEN DOMAIN families \ {f}
                            ELSE DOMAIN families
      /\ \A g \in DOMAIN families \ {f} : families'[g] = families[g]
  BY RemovalEffect DEF RefinementInv
<1>2. ASSUME Siblings(a) # {} PROVE Named(families'[f])
  <2>1. PICK kept \in FamilyState :
          /\ kept.attemptIds = Siblings(a)
          /\ kept.nextClaimOrdinal = families[f].nextClaimOrdinal
          /\ Named(kept)
          /\ Release(a) => families'[f] = Recomputed(kept)
          /\ (Active(a) /\ Complete(a)) => families'[f] = kept
    BY <1>2, RemovalFamily
  <2>2. \A b \in Siblings(a) :
          /\ b \in Live
          /\ attempts[b].claimOrdinal \in 1..kept.nextClaimOrdinal
    BY <2>1, LiveFacts DEF Siblings, RefinementInv
  <2>3. Named(Recomputed(kept))
    BY <2>1, <2>2, RecomputedNamed DEF RefinementInv
  <2> QED
    BY <2>1, <2>3
<1>3. \A g \in DOMAIN families' : Named(families'[g])
  BY <1>1, <1>2 DEF RefinementInv, AuthorityNamed
<1> QED
  BY <1>3 DEF AuthorityNamed, Named

\* The invariant of the refinement is inductive.
LEMMA RefinementInvNext ==
  RefinementInv /\ [CoordinatorNext]_coordinatorVars => RefinementInv'
<1> SUFFICES ASSUME RefinementInv, [CoordinatorNext]_coordinatorVars
             PROVE  RefinementInv'
  OBVIOUS
<1>1. CoordinatorInv'
  BY NextInv DEF RefinementInv
<1>2. CASE UNCHANGED coordinatorVars
  BY <1>1, <1>2 DEF coordinatorVars, RefinementInv, AuthorityNamed
<1>3. ASSUME NEW a, NEW f \in Families, NEW phase, Claim(a, f, phase)
      PROVE  AuthorityNamed'
  BY <1>3, ClaimNamed
<1>4. ASSUME NEW a \in Live, ~Active(a), SetPhase(a)
      PROVE  AuthorityNamed'
  BY <1>4, SetPhaseNamed
<1>5. ASSUME NEW a \in Live, Release(a) \/ (Active(a) /\ Complete(a))
      PROVE  AuthorityNamed'
  BY <1>5, RemovalNamed
<1> QED
  BY <1>1, <1>2, <1>3, <1>4, <1>5, StepCases DEF RefinementInv

-----------------------------------------------------------------------------
(* The coordinator as PublishRights sees it *)

Members(f) == {a \in Live : attempts[a].familyKey = f}
Running(f) == {a \in Live : attempts[a].familyKey = f /\ Active(a)}
Overtaken(f) ==
  {a \in Live : attempts[a].familyKey = f /\ SupersedingAttemptId(a) # NoAttempt}

\* An attempt is overtaken when the authoritative ordinal is above its own.
OvertakenByOrdinal ==
  \A f \in Families, a \in Live :
    a \in Overtaken(f) <=>
      /\ a \in Members(f)
      /\ families[f].latestAuthoritativeClaimOrdinal > attempts[a].claimOrdinal

\* The id that setPhase and getSnapshot report says what the ordinals say.
LEMMA OvertakenMeans == RefinementInv => OvertakenByOrdinal
<1> SUFFICES ASSUME RefinementInv, NEW f \in Families, NEW a \in Live
             PROVE  a \in Overtaken(f) <=>
                      /\ a \in Members(f)
                      /\ families[f].latestAuthoritativeClaimOrdinal
                           > attempts[a].claimOrdinal
  BY DEF OvertakenByOrdinal
<1>1. CASE attempts[a].familyKey # f
  BY <1>1 DEF Overtaken, Members
<1>2. CASE attempts[a].familyKey = f
  <2>1. /\ f \in DOMAIN families
        /\ families[f].latestAuthoritativeClaimOrdinal \in Nat
        /\ attempts[a].claimOrdinal \in Nat
    BY <1>2, LiveFacts DEF RefinementInv
  <2>2. Named(families[f])
    BY <2>1 DEF RefinementInv, AuthorityNamed
  <2>3. families[f].latestAuthoritativeClaimOrdinal > attempts[a].claimOrdinal
          => families[f].latestAuthoritativeAttemptId # NoAttempt
    BY <2>1, <2>2 DEF Named
  <2> QED
    BY <1>2, <2>1, <2>3 DEF Overtaken, Members, SupersedingAttemptId
<1> QED
  BY <1>1, <1>2

\* The same of the next state.
LEMMA OvertakenMeansNext == RefinementInv' => OvertakenByOrdinal'
<1> QED
  BY OvertakenMeans, PTL

\* Within a family, ids and ordinals are in the same order.
LEMMA OrdinalOrder ==
  ASSUME CoordinatorInv, NEW a \in Live, NEW b \in Live,
         attempts[a].familyKey = attempts[b].familyKey
  PROVE  a < b <=> attempts[a].claimOrdinal < attempts[b].claimOrdinal
<1>1. /\ a \in Nat /\ attempts[a].claimOrdinal \in Nat
      /\ b \in Nat /\ attempts[b].claimOrdinal \in Nat
  BY LiveFacts DEF AttemptIds, Attempt
<1>2. /\ a < b => attempts[a].claimOrdinal < attempts[b].claimOrdinal
      /\ b < a => attempts[b].claimOrdinal < attempts[a].claimOrdinal
  BY DEF CoordinatorInv, OrdinalsOrdered
<1> QED
  BY <1>1, <1>2

MappedMembers == [f \in Families |-> Members(f)]
MappedStarted == [f \in Families |-> Running(f)]
MappedBarred == [f \in Families |-> Overtaken(f)]

\* A step that changes one family as an action of PublishRights does.
LEMMA MappedStep ==
  ASSUME NEW f \in Families, NEW m, NEW s, NEW b,
         \A g \in Families \ {f} : /\ Members(g)' = Members(g)
                                   /\ Running(g)' = Running(g)
                                   /\ Overtaken(g)' = Overtaken(g),
         Members(f)' = m, Running(f)' = s, Overtaken(f)' = b
  PROVE  /\ MappedMembers' = [MappedMembers EXCEPT ![f] = m]
         /\ MappedStarted' = [MappedStarted EXCEPT ![f] = s]
         /\ MappedBarred' = [MappedBarred EXCEPT ![f] = b]
<1> QED
  BY DEF MappedMembers, MappedStarted, MappedBarred

\* claim adds the newest review; one that starts at once bars all the others.
LEMMA ClaimStep ==
  ASSUME RefinementInv, RefinementInv', NEW a, NEW f \in Families, NEW phase,
         Claim(a, f, phase)
  PROVE  Rights!Claim(f, a) \/ Rights!ClaimStarted(f, a)
<1> DEFINE s == FamilyStateOf(f)
<1>1. /\ a \in AttemptIds /\ a \notin Live /\ a = nextAttemptId
      /\ Live' = Live \cup {a}
      /\ attempts'[a].familyKey = f
      /\ attempts'[a].claimOrdinal = s.nextClaimOrdinal
      /\ \A b \in Live : attempts'[b] = attempts[b]
      /\ DOMAIN families' = DOMAIN families \cup {f}
      /\ \A g \in DOMAIN families \ {f} : families'[g] = families[g]
      /\ attempts'[a].lifecycle = "active" =>
           families'[f].latestAuthoritativeClaimOrdinal = s.nextClaimOrdinal
      /\ attempts'[a].lifecycle # "active" =>
           families'[f].latestAuthoritativeClaimOrdinal
             = s.latestAuthoritativeClaimOrdinal
  BY ClaimEffect DEF RefinementInv
<1>2. /\ s.nextClaimOrdinal \in Nat \ {0}
      /\ s.latestAuthoritativeClaimOrdinal < s.nextClaimOrdinal
      /\ s.latestAuthoritativeClaimOrdinal \in Nat
      /\ \A b \in Members(f) :
           /\ s = families[f]
           /\ attempts[b].claimOrdinal < s.nextClaimOrdinal
  BY FamilyStateOfFields DEF RefinementInv, FamilyState, FamilyStateOf, Members
<1> HIDE DEF s
<1>3. OvertakenByOrdinal /\ OvertakenByOrdinal'
  BY OvertakenMeans, OvertakenMeansNext
<1>4. \A b \in Live : /\ b \in Nat /\ b < a
                      /\ attempts[b].familyKey \in DOMAIN families
                      /\ attempts[b].claimOrdinal \in Nat
  BY <1>1, LiveFacts DEF RefinementInv, CoordinatorInv, OrdinalsOrdered, AttemptIds
<1>5. \A g \in Families \ {f} : /\ Members(g)' = Members(g)
                                /\ Running(g)' = Running(g)
                                /\ Overtaken(g)' = Overtaken(g)
  <2> TAKE g \in Families \ {f}
  <2>1. Members(g)' = Members(g) /\ Running(g)' = Running(g)
    BY <1>1 DEF Members, Running, Active, Live
  <2>2. ASSUME NEW b \in Members(g)
        PROVE  b \in Overtaken(g)' <=> b \in Overtaken(g)
    <3>1. b \in Live /\ b \in Live' /\ b \in Members(g)'
          /\ attempts'[b] = attempts[b] /\ families'[g] = families[g]
      BY <1>1, <1>4, <2>1 DEF Members
    <3> QED
      BY <1>3, <3>1 DEF OvertakenByOrdinal
  <2>3. Overtaken(g) \subseteq Members(g) /\ Overtaken(g)' \subseteq Members(g)'
    BY DEF Overtaken, Members
  <2> QED
    BY <2>1, <2>2, <2>3
<1>6. Members(f)' = Members(f) \cup {a}
  BY <1>1 DEF Members
<1>7. Overtaken(f) \subseteq Members(f) /\ Overtaken(f)' \subseteq Members(f)'
  BY DEF Overtaken, Members
<1>8. \A b \in Members(f) : b \in Live /\ b \in Live' /\ b \in Members(f)'
                            /\ attempts'[b] = attempts[b]
  BY <1>1, <1>6 DEF Members
<1>9. \A g \in Families : \A b \in Members(g) : b < a
  BY <1>4 DEF Members
<1>10. CASE attempts'[a].lifecycle # "active"
  <2>1. Running(f)' = Running(f)
    BY <1>1, <1>10 DEF Running, Active, Live
  <2>2. a \notin Overtaken(f)'
    BY <1>1, <1>2, <1>3, <1>10 DEF OvertakenByOrdinal
  <2>3. \A b \in Members(f) : b \in Overtaken(f)' <=> b \in Overtaken(f)
    BY <1>1, <1>2, <1>3, <1>8, <1>10 DEF OvertakenByOrdinal
  <2>4. Overtaken(f)' = Overtaken(f)
    BY <1>6, <1>7, <2>2, <2>3
  <2>5. /\ MappedMembers' = [MappedMembers EXCEPT ![f] = Members(f) \cup {a}]
        /\ MappedStarted' = [MappedStarted EXCEPT ![f] = Running(f)]
        /\ MappedBarred' = [MappedBarred EXCEPT ![f] = Overtaken(f)]
    BY <1>5, <1>6, <2>1, <2>4, MappedStep
  <2>6. /\ MappedMembers' = [MappedMembers EXCEPT ![f] = MappedMembers[f] \cup {a}]
        /\ MappedStarted' = MappedStarted /\ MappedBarred' = MappedBarred
    BY <2>5 DEF MappedMembers, MappedStarted, MappedBarred
  <2>7. \A g \in Families : \A b \in MappedMembers[g] : b < a
    BY <1>9 DEF MappedMembers
  <2> QED
    BY <2>6, <2>7 DEF Rights!Claim, MappedMembers, MappedStarted, MappedBarred,
       Members, Running, Overtaken
<1>11. CASE attempts'[a].lifecycle = "active"
  <2>1. Running(f)' = Running(f) \cup {a}
    BY <1>1, <1>11 DEF Running, Active, Live
  <2>2. a \notin Overtaken(f)'
    BY <1>1, <1>2, <1>3, <1>11 DEF OvertakenByOrdinal
  <2>3. \A b \in Members(f) : b \in Overtaken(f)'
    BY <1>1, <1>2, <1>3, <1>4, <1>8, <1>11 DEF OvertakenByOrdinal
  <2>4. Overtaken(f)' = Members(f)
    BY <1>6, <1>7, <2>2, <2>3
  <2>5. /\ MappedMembers' = [MappedMembers EXCEPT ![f] = Members(f) \cup {a}]
        /\ MappedStarted' = [MappedStarted EXCEPT ![f] = Running(f) \cup {a}]
        /\ MappedBarred' = [MappedBarred EXCEPT ![f] = Members(f)]
    BY <1>5, <1>6, <2>1, <2>4, MappedStep
  <2>6. /\ MappedMembers' = [MappedMembers EXCEPT ![f] = MappedMembers[f] \cup {a}]
        /\ MappedStarted' = [MappedStarted EXCEPT ![f] = MappedStarted[f] \cup {a}]
        /\ MappedBarred' = [MappedBarred EXCEPT ![f] = MappedMembers[f]]
    BY <2>5 DEF MappedMembers, MappedStarted, MappedBarred
  <2>7. \A g \in Families : \A b \in MappedMembers[g] : b < a
    BY <1>9 DEF MappedMembers
  <2> QED
    BY <2>6, <2>7 DEF Rights!ClaimStarted, MappedMembers, MappedStarted, MappedBarred,
       Members, Running, Overtaken
<1> QED
  BY <1>10, <1>11

\* setPhase starts the review and bars the older ones of its family.
LEMMA StartStep ==
  ASSUME RefinementInv, RefinementInv', NEW a, a \in Live, ~Active(a), SetPhase(a),
         NEW f, f = attempts[a].familyKey
  PROVE  Rights!Start(f, a)
<1> DEFINE o == attempts[a].claimOrdinal
<1>1. /\ Live' = Live
      /\ \A b \in Live : /\ attempts'[b].familyKey = attempts[b].familyKey
                         /\ attempts'[b].claimOrdinal = attempts[b].claimOrdinal
      /\ attempts'[a].lifecycle = "active"
      /\ \A b \in Live \ {a} : attempts'[b] = attempts[b]
      /\ DOMAIN families' = DOMAIN families
      /\ \A g \in DOMAIN families \ {f} : families'[g] = families[g]
      /\ families'[f] = Promoted(families[f], a, o)
  BY SetPhaseEffect DEF RefinementInv
<1>2. /\ f \in Families /\ f \in DOMAIN families /\ families[f] \in FamilyState
      /\ a \in AttemptIds /\ o \in Nat
      /\ families[f].latestAuthoritativeClaimOrdinal \in Nat
  BY LiveFacts DEF RefinementInv, Attempt
<1>3. LET p == Promoted(families[f], a, o)
      IN /\ p.latestAuthoritativeClaimOrdinal
              \in {families[f].latestAuthoritativeClaimOrdinal, o}
         /\ p.latestAuthoritativeClaimOrdinal
              >= families[f].latestAuthoritativeClaimOrdinal
         /\ p.latestAuthoritativeClaimOrdinal >= o
  BY <1>2, PromotedFields, Zenon
<1>4. OvertakenByOrdinal /\ OvertakenByOrdinal'
  BY OvertakenMeans, OvertakenMeansNext
<1>5. \A g \in Families : Members(g)' = Members(g)
  BY <1>1 DEF Members
<1>6. \A b \in Live : /\ b \in Live' /\ attempts[b].claimOrdinal \in Nat
                      /\ attempts[b].familyKey \in DOMAIN families
  BY <1>1, LiveFacts DEF RefinementInv, Attempt
<1>7. \A g \in Families : /\ Overtaken(g) \subseteq Members(g)
                          /\ Overtaken(g)' \subseteq Members(g)'
                          /\ Members(g) \subseteq Live
  BY DEF Overtaken, Members
<1>8. \A g \in Families \ {f} : /\ Members(g)' = Members(g)
                                /\ Running(g)' = Running(g)
                                /\ Overtaken(g)' = Overtaken(g)
  <2> TAKE g \in Families \ {f}
  <2>1. Running(g)' = Running(g)
    BY <1>1 DEF Running, Active, Live
  <2>2. ASSUME NEW b \in Members(g)
        PROVE  b \in Overtaken(g)' <=> b \in Overtaken(g)
    <3>1. g \in DOMAIN families
      BY <1>6 DEF Members
    <3>2. b \in Live /\ b \in Live' /\ b \in Members(g)'
          /\ attempts'[b].claimOrdinal = attempts[b].claimOrdinal
          /\ families'[g] = families[g]
      BY <1>1, <1>5, <1>6, <3>1 DEF Members
    <3> QED
      BY <1>4, <3>2 DEF OvertakenByOrdinal
  <2> QED
    BY <1>5, <1>7, <2>1, <2>2
<1>9. Running(f)' = Running(f) \cup {a}
  BY <1>1 DEF Running, Active, Live
<1>10. a \in Members(f) /\ a \notin Running(f)
  BY DEF Members, Running
<1>11. Overtaken(f)' = Overtaken(f) \cup {b \in Members(f) : b < a}
  <2>1. ASSUME NEW b \in Members(f)
        PROVE  b \in Overtaken(f)' <=> b \in Overtaken(f) \/ b < a
    <3>1. b \in Live /\ b \in Live' /\ b \in Members(f)'
          /\ attempts'[b].claimOrdinal = attempts[b].claimOrdinal
          /\ attempts[b].claimOrdinal \in Nat
          /\ attempts[b].familyKey = f
      BY <1>1, <1>5, <1>6, <1>2 DEF Members
    <3>2. b < a <=> attempts[b].claimOrdinal < o
      BY <3>1, OrdinalOrder DEF RefinementInv
    <3>3. families'[f].latestAuthoritativeClaimOrdinal > attempts[b].claimOrdinal
            <=> \/ families[f].latestAuthoritativeClaimOrdinal > attempts[b].claimOrdinal
                \/ attempts[b].claimOrdinal < o
      <4> DEFINE l == families[f].latestAuthoritativeClaimOrdinal
                 n == families'[f].latestAuthoritativeClaimOrdinal
      <4>1. l \in Nat /\ n \in {l, o} /\ n >= l /\ n >= o
        BY <1>1, <1>2, <1>3, Zenon
      <4> HIDE DEF l, n, o
      <4>2. o \in Nat /\ attempts[b].claimOrdinal \in Nat
        BY <1>2, <3>1
      <4>3. n > attempts[b].claimOrdinal
              <=> l > attempts[b].claimOrdinal \/ attempts[b].claimOrdinal < o
        BY <4>1, <4>2
      <4> QED
        BY <4>3 DEF l, n
    <3> HIDE DEF o
    <3> QED
      BY <1>2, <1>4, <3>1, <3>2, <3>3 DEF OvertakenByOrdinal
  <2> QED
    BY <1>2, <1>5, <1>7, <2>1
<1>12. /\ MappedMembers' = [MappedMembers EXCEPT ![f] = Members(f)]
       /\ MappedStarted' = [MappedStarted EXCEPT ![f] = Running(f) \cup {a}]
       /\ MappedBarred' = [MappedBarred EXCEPT
                             ![f] = Overtaken(f) \cup {b \in Members(f) : b < a}]
  BY <1>2, <1>5, <1>8, <1>9, <1>11, MappedStep
<1>13. /\ MappedMembers' = MappedMembers
       /\ MappedStarted' = [MappedStarted EXCEPT ![f] = MappedStarted[f] \cup {a}]
       /\ MappedBarred' = [MappedBarred EXCEPT
                             ![f] = MappedBarred[f] \cup {b \in MappedMembers[f] : b < a}]
       /\ a \in MappedMembers[f] \ MappedStarted[f]
  BY <1>2, <1>10, <1>12 DEF MappedMembers, MappedStarted, MappedBarred
<1> QED
  BY <1>13 DEF Rights!Start, MappedMembers, MappedStarted, MappedBarred,
       Members, Running, Overtaken

\* What both removals do to the members, and to the other families.
LEMMA RemovalMembers ==
  ASSUME RefinementInv, RefinementInv', NEW a, a \in Live,
         Release(a) \/ (Active(a) /\ Complete(a)),
         NEW f, f = attempts[a].familyKey
  PROVE  /\ f \in Families
         /\ Members(f)' = Members(f) \ {a}
         /\ Members(f) \ {a} = Siblings(a)
         /\ Running(f)' = Running(f) \ {a}
         /\ \A g \in Families \ {f} : /\ Members(g)' = Members(g)
                                      /\ Running(g)' = Running(g)
                                      /\ Overtaken(g)' = Overtaken(g)
<1>1. /\ Live' = Live \ {a}
      /\ \A b \in Live \ {a} : attempts'[b] = attempts[b]
      /\ \A g \in DOMAIN families \ {f} : families'[g] = families[g]
  BY RemovalEffect DEF RefinementInv
<1>2. f \in Families
  BY LiveFacts DEF RefinementInv
<1>3. OvertakenByOrdinal /\ OvertakenByOrdinal'
  BY OvertakenMeans, OvertakenMeansNext
<1>4. \A b \in Live : attempts[b].familyKey \in DOMAIN families
  BY LiveFacts DEF RefinementInv
<1>5. ASSUME NEW g \in Families \ {f}
      PROVE  /\ Members(g)' = Members(g)
             /\ Running(g)' = Running(g)
             /\ Overtaken(g)' = Overtaken(g)
  <2>1. Members(g)' = Members(g)
    BY <1>1 DEF Members
  <2>2. Running(g)' = Running(g)
    BY <1>1 DEF Running, Active, Live
  <2>3. ASSUME NEW b \in Members(g)
        PROVE  b \in Overtaken(g)' <=> b \in Overtaken(g)
    <3>1. g \in DOMAIN families
      BY <1>4 DEF Members
    <3>2. b \in Live /\ b \in Live' /\ b \in Members(g)'
          /\ attempts'[b] = attempts[b] /\ families'[g] = families[g]
      BY <1>1, <2>1, <3>1 DEF Members
    <3> QED
      BY <1>3, <3>2 DEF OvertakenByOrdinal
  <2>4. Overtaken(g) \subseteq Members(g) /\ Overtaken(g)' \subseteq Members(g)'
    BY DEF Overtaken, Members
  <2> QED
    BY <2>1, <2>2, <2>3, <2>4
<1>6. Members(f)' = Members(f) \ {a} /\ Members(f) \ {a} = Siblings(a)
  BY <1>1 DEF Members, Siblings
<1>7. Running(f)' = Running(f) \ {a}
  BY <1>1 DEF Running, Active, Live
<1> QED
  BY <1>2, <1>5, <1>6, <1>7

\* release takes the review out; only the running siblings bar afterwards.
LEMMA WithdrawStep ==
  ASSUME RefinementInv, RefinementInv', NEW a, a \in Live, Release(a),
         NEW f, f = attempts[a].familyKey
  PROVE  Rights!Withdraw(f, a)
<1> DEFINE left == {b \in Members(f) \ {a} : \E c \in Running(f) \ {a} : b < c}
<1>1. /\ f \in Families
      /\ Members(f)' = Members(f) \ {a}
      /\ Members(f) \ {a} = Siblings(a)
      /\ Running(f)' = Running(f) \ {a}
      /\ \A g \in Families \ {f} : /\ Members(g)' = Members(g)
                                   /\ Running(g)' = Running(g)
                                   /\ Overtaken(g)' = Overtaken(g)
  BY RemovalMembers
<1>2. Overtaken(f)' \subseteq Members(f)' /\ left \subseteq Members(f)'
  BY <1>1 DEF Overtaken, Members
<1>3. ASSUME NEW b \in Siblings(a)
      PROVE  b \in Overtaken(f)' <=> \E c \in Running(f) \ {a} : b < c
  <2>1. PICK kept \in FamilyState :
          /\ kept.attemptIds = Siblings(a)
          /\ kept.nextClaimOrdinal = families[f].nextClaimOrdinal
          /\ families'[f] = Recomputed(kept)
    BY <1>3, RemovalFamily
  <2>2. \A c \in Siblings(a) :
          /\ c \in Live /\ attempts[c].familyKey = f
          /\ attempts[c].claimOrdinal \in 1..(kept.nextClaimOrdinal - 1)
    BY <2>1, LiveFacts DEF Siblings, RefinementInv
  <2>3. kept.nextClaimOrdinal \in Nat
    BY DEF FamilyState
  <2> DEFINE l == families'[f].latestAuthoritativeClaimOrdinal
  <2>4. /\ \/ l = 0
           \/ \E c \in Siblings(a) : Active(c) /\ l = attempts[c].claimOrdinal
        /\ \A c \in Siblings(a) : Active(c) => attempts[c].claimOrdinal <= l
    <3>1. /\ kept.attemptIds \subseteq Live
          /\ \A c \in kept.attemptIds :
               attempts[c].claimOrdinal \in 0..kept.nextClaimOrdinal
      BY <2>1, <2>2, <2>3
    <3>2. LET p == Recomputed(kept)
          IN /\ \/ p.latestAuthoritativeClaimOrdinal = 0
                \/ \E c \in kept.attemptIds :
                     /\ Active(c)
                     /\ p.latestAuthoritativeClaimOrdinal = attempts[c].claimOrdinal
             /\ \A c \in kept.attemptIds : Active(c) =>
                  attempts[c].claimOrdinal <= p.latestAuthoritativeClaimOrdinal
      BY <3>1, RecomputedFields DEF RefinementInv
    <3> QED
      BY <2>1, <3>2, Zenon
  <2>5. /\ b \in Live' /\ b \in Members(f)'
        /\ attempts'[b].claimOrdinal = attempts[b].claimOrdinal
    <3>1. Live' = Live \ {a} /\ \A c \in Live \ {a} : attempts'[c] = attempts[c]
      BY RemovalEffect DEF RefinementInv
    <3> QED
      BY <1>1, <2>2, <3>1 DEF Siblings
  <2>6. b \in Overtaken(f)' <=> l > attempts[b].claimOrdinal
    BY <1>1, <2>5, OvertakenMeansNext DEF OvertakenByOrdinal
  <2>7. \A c \in Siblings(a) : Active(c) <=> c \in Running(f) \ {a}
    BY DEF Siblings, Running
  <2>8. \A c \in Siblings(a) :
          b < c <=> attempts[b].claimOrdinal < attempts[c].claimOrdinal
    BY <2>2, OrdinalOrder DEF RefinementInv
  <2>9. Running(f) \ {a} \subseteq Siblings(a)
    BY DEF Running, Siblings
  <2> HIDE DEF l
  <2>10. ASSUME l > attempts[b].claimOrdinal
         PROVE  \E c \in Running(f) \ {a} : b < c
    <3>1. l # 0
      BY <2>2, <2>3, <2>10
    <3>2. PICK c \in Siblings(a) : Active(c) /\ l = attempts[c].claimOrdinal
      BY <2>4, <3>1
    <3>3. attempts[b].claimOrdinal < attempts[c].claimOrdinal
      BY <2>2, <2>3, <2>10, <3>2
    <3> QED
      BY <2>7, <2>8, <3>2, <3>3
  <2>11. ASSUME NEW c \in Running(f) \ {a}, b < c
         PROVE  l > attempts[b].claimOrdinal
    <3>1. c \in Siblings(a) /\ attempts[c].claimOrdinal <= l
      BY <2>4, <2>7, <2>9
    <3>2. attempts[b].claimOrdinal < attempts[c].claimOrdinal
      BY <2>8, <2>11, <3>1
    <3>3. l \in Nat
      BY <2>2, <2>3, <2>4
    <3> QED
      BY <2>2, <2>3, <3>1, <3>2, <3>3
  <2> QED
    BY <2>6, <2>10, <2>11
<1>4. Overtaken(f)' = left
  BY <1>1, <1>2, <1>3
<1>5. /\ MappedMembers' = [MappedMembers EXCEPT ![f] = Members(f) \ {a}]
      /\ MappedStarted' = [MappedStarted EXCEPT ![f] = Running(f) \ {a}]
      /\ MappedBarred' = [MappedBarred EXCEPT ![f] = left]
  BY <1>1, <1>4, MappedStep
<1>6. a \in Members(f)
  BY DEF Members
<1>7. /\ MappedMembers' = [MappedMembers EXCEPT ![f] = MappedMembers[f] \ {a}]
      /\ MappedStarted' = [MappedStarted EXCEPT ![f] = MappedStarted[f] \ {a}]
      /\ MappedBarred' = [MappedBarred EXCEPT
                            ![f] = {b \in MappedMembers[f] \ {a} :
                                      \E c \in MappedStarted[f] \ {a} : b < c}]
      /\ a \in MappedMembers[f]
  <2>1. MappedMembers[f] = Members(f) /\ MappedStarted[f] = Running(f)
    BY <1>1 DEF MappedMembers, MappedStarted
  <2>2. left = {b \in MappedMembers[f] \ {a} : \E c \in MappedStarted[f] \ {a} : b < c}
    BY <2>1
  <2> HIDE DEF left
  <2> QED
    BY <1>5, <1>6, <2>1, <2>2
<1> QED
  BY <1>7 DEF Rights!Withdraw, MappedMembers, MappedStarted, MappedBarred,
       Members, Running, Overtaken

\* complete takes the review out; what it barred stays barred.
LEMMA FinishStep ==
  ASSUME RefinementInv, RefinementInv', NEW a, a \in Live, Active(a), Complete(a),
         NEW f, f = attempts[a].familyKey
  PROVE  Rights!Finish(f, a)
<1>1. /\ f \in Families
      /\ Members(f)' = Members(f) \ {a}
      /\ Members(f) \ {a} = Siblings(a)
      /\ Running(f)' = Running(f) \ {a}
      /\ \A g \in Families \ {f} : /\ Members(g)' = Members(g)
                                   /\ Running(g)' = Running(g)
                                   /\ Overtaken(g)' = Overtaken(g)
  BY RemovalMembers
<1>2. Overtaken(f)' \subseteq Members(f)' /\ Overtaken(f) \subseteq Members(f)
  BY DEF Overtaken, Members
<1>3. ASSUME NEW b \in Siblings(a)
      PROVE  b \in Overtaken(f)' <=> b \in Overtaken(f)
  <2>1. families'[f].latestAuthoritativeClaimOrdinal
          = families[f].latestAuthoritativeClaimOrdinal
    BY <1>3, RemovalFamily
  <2>2. Live' = Live \ {a} /\ \A c \in Live \ {a} : attempts'[c] = attempts[c]
    BY RemovalEffect DEF RefinementInv
  <2>3. /\ b \in Live /\ b \in Live' /\ b \in Members(f) /\ b \in Members(f)'
        /\ attempts'[b].claimOrdinal = attempts[b].claimOrdinal
    BY <1>1, <2>2 DEF Siblings
  <2> QED
    BY <1>1, <2>1, <2>3, OvertakenMeans, OvertakenMeansNext DEF OvertakenByOrdinal
<1>4. Overtaken(f)' = Overtaken(f) \ {a}
  BY <1>1, <1>2, <1>3
<1>5. /\ MappedMembers' = [MappedMembers EXCEPT ![f] = Members(f) \ {a}]
      /\ MappedStarted' = [MappedStarted EXCEPT ![f] = Running(f) \ {a}]
      /\ MappedBarred' = [MappedBarred EXCEPT ![f] = Overtaken(f) \ {a}]
  BY <1>1, <1>4, MappedStep
<1>6. a \in Running(f)
  BY DEF Running
<1>7. /\ MappedMembers' = [MappedMembers EXCEPT ![f] = MappedMembers[f] \ {a}]
      /\ MappedStarted' = [MappedStarted EXCEPT ![f] = MappedStarted[f] \ {a}]
      /\ MappedBarred' = [MappedBarred EXCEPT ![f] = MappedBarred[f] \ {a}]
      /\ a \in MappedStarted[f]
  BY <1>1, <1>5, <1>6 DEF MappedMembers, MappedStarted, MappedBarred
<1> QED
  BY <1>7 DEF Rights!Finish, MappedMembers, MappedStarted, MappedBarred,
       Members, Running, Overtaken

-----------------------------------------------------------------------------
(* The theorem *)

\* Every behaviour of the coordinator is one of PublishRights: claims number
\* the reviews, a start bars the older ones, a release gives the right back to
\* the newest review still running and a completion gives it to nobody,
\* whatever ordinals the code reuses and whatever entries it clears.
THEOREM CoordinatorImplementsRights == CoordinatorSpec => ImplementsPublishRights
<1>1. CoordinatorInit => RefinementInv
  <2>1. CoordinatorInit => AuthorityNamed
    BY DEF CoordinatorInit, AuthorityNamed
  <2> QED
    BY <2>1, InitInv DEF RefinementInv
<1>2. CoordinatorInit => Rights!Init
  BY DEF CoordinatorInit, Rights!Init, Live
<1>3. RefinementInv /\ RefinementInv' /\ [CoordinatorNext]_coordinatorVars
        => [Rights!Next]_Rights!vars
  <2> SUFFICES ASSUME RefinementInv, RefinementInv',
                      [CoordinatorNext]_coordinatorVars
               PROVE  [Rights!Next]_Rights!vars
    OBVIOUS
  <2>1. CASE UNCHANGED coordinatorVars
    BY <2>1 DEF coordinatorVars, Rights!vars, Live, Active, SupersedingAttemptId
  <2>2. ASSUME NEW a \in AttemptIds, NEW f \in Families, NEW phase,
               Claim(a, f, phase)
        PROVE  Rights!Next
    BY <2>2, ClaimStep DEF Rights!Next
  <2>3. ASSUME NEW a \in Live, ~Active(a), SetPhase(a)
        PROVE  Rights!Next
    BY <2>3, StartStep, LiveFacts DEF Rights!Next, RefinementInv
  <2>4. ASSUME NEW a \in Live, Release(a) \/ (Active(a) /\ Complete(a))
        PROVE  Rights!Next
    BY <2>4, WithdrawStep, FinishStep, LiveFacts DEF Rights!Next, RefinementInv
  <2> QED
    BY <2>1, <2>2, <2>3, <2>4, StepCases
<1> QED
  BY <1>1, <1>2, <1>3, RefinementInvNext, PTL
     DEF CoordinatorSpec, ImplementsPublishRights, Rights!Spec
=============================================================================
