----------------------- MODULE ReviewWorkCoordinator -----------------------
(***************************************************************************)
(* The in-memory arbiter of src/jobs/review-work-coordinator.ts.  Every    *)
(* review of a pull request (a family) claims an attempt; an attempt is    *)
(* pending until it really starts and active from then on.  The publish    *)
(* right of a family belongs to the active attempt whose claim ordinal is  *)
(* the family's authoritative one.                                         *)
(*                                                                         *)
(* The two maps of the code are the variables attempts and families, both  *)
(* partial functions; an attempt id ("review-work-N") is the number N.     *)
(* Phase names other than "claimed" are not told apart: only the first     *)
(* move away from "claimed" changes who may publish.                       *)
(***************************************************************************)
EXTENDS Naturals, FiniteSets

CONSTANTS Families,     \* family keys: owner/repo#number
          MaxAttempts   \* bound on the claims of one process lifetime

ASSUME MaxAttemptsAssumption == MaxAttempts \in Nat

VARIABLES attempts,       \* attemptsById
          families,       \* familyStatesByKey
          nextAttemptId

coordinatorVars == <<attempts, families, nextAttemptId>>

AttemptIds == 1..MaxAttempts

\* latestAuthoritativeAttemptId when it is undefined.
NoAttempt == 0

Attempt == [familyKey: Families,
            lifecycle: {"pending", "active"},
            claimOrdinal: Nat]

FamilyState == [attemptIds: SUBSET AttemptIds,
                nextClaimOrdinal: Nat,
                latestAuthoritativeClaimOrdinal: Nat,
                latestAuthoritativeAttemptId: AttemptIds \cup {NoAttempt}]

FreshFamily == [attemptIds |-> {},
                nextClaimOrdinal |-> 1,
                latestAuthoritativeClaimOrdinal |-> 0,
                latestAuthoritativeAttemptId |-> NoAttempt]

Live == DOMAIN attempts

\* getOrCreateFamilyState, without the side effect of storing it.
FamilyStateOf(f) == IF f \in DOMAIN families THEN families[f] ELSE FreshFamily

Active(a) == a \in Live /\ attempts[a].lifecycle = "active"

\* f without the argument x.
Without(f, x) == [y \in DOMAIN f \ {x} |-> f[y]]

\* Seeded fault for CanPublish: the authoritative ordinal is not compared.
CanPublishWhileActive(a) == Active(a)

-----------------------------------------------------------------------------
\* Reads.

CanPublish(a) ==
  /\ Active(a)
  /\ attempts[a].familyKey \in DOMAIN families
  /\ families[attempts[a].familyKey].latestAuthoritativeClaimOrdinal
       = attempts[a].claimOrdinal

\* The attempt that getSnapshot and setPhase report as superseding a.
SupersedingAttemptId(a) ==
  LET f == attempts[a].familyKey
  IN IF /\ f \in DOMAIN families
        /\ families[f].latestAuthoritativeClaimOrdinal > attempts[a].claimOrdinal
     THEN families[f].latestAuthoritativeAttemptId
     ELSE NoAttempt

-----------------------------------------------------------------------------
\* Writes.

\* Seeded fault for Promoted: the latest to start wins, whenever it was claimed.
PromotedRegardless(family, a, ordinal) ==
  [family EXCEPT !.latestAuthoritativeClaimOrdinal = ordinal,
                 !.latestAuthoritativeAttemptId = a]

\* family with a made authoritative, unless a newer claim already is.
Promoted(family, a, ordinal) ==
  IF ordinal > family.latestAuthoritativeClaimOrdinal
  THEN [family EXCEPT !.latestAuthoritativeClaimOrdinal = ordinal,
                      !.latestAuthoritativeAttemptId = a]
  ELSE family

\* removeAttemptFromFamily: the last attempt takes the family with it.
FamiliesWithout(a) ==
  LET f    == attempts[a].familyKey
      left == families[f].attemptIds \ {a}
  IN IF left = {}
     THEN Without(families, f)
     ELSE [families EXCEPT ![f].attemptIds = left]

\* Seeded fault for Recomputed: the attempts that stay are not looked at.
RecomputedToNobody(family) ==
  [family EXCEPT !.latestAuthoritativeClaimOrdinal = 0,
                 !.latestAuthoritativeAttemptId = NoAttempt]

\* recomputeAuthoritativeAttempt: among the attempts ids of a family, the
\* active one claimed last, or nobody.
Recomputed(family) ==
  LET candidates == {b \in family.attemptIds : Active(b)}
      newest     == CHOOSE b \in candidates :
                      \A c \in candidates :
                        attempts[c].claimOrdinal <= attempts[b].claimOrdinal
  IN IF candidates = {}
     THEN [family EXCEPT !.latestAuthoritativeClaimOrdinal = 0,
                         !.latestAuthoritativeAttemptId = NoAttempt]
     ELSE [family EXCEPT
             !.latestAuthoritativeClaimOrdinal = attempts[newest].claimOrdinal,
             !.latestAuthoritativeAttemptId = newest]

\* claim({familyKey: f, phase}) returns the id a.
Claim(a, f, phase) ==
  /\ a = nextAttemptId
  /\ nextAttemptId \in AttemptIds
  /\ LET state   == FamilyStateOf(f)
         ordinal == state.nextClaimOrdinal
         joined  == [state EXCEPT !.attemptIds = @ \cup {a},
                                  !.nextClaimOrdinal = @ + 1]
         life    == IF phase = "claimed" THEN "pending" ELSE "active"
     IN /\ attempts' = [b \in Live \cup {a} |->
                          IF b = a
                          THEN [familyKey |-> f, lifecycle |-> life,
                                claimOrdinal |-> ordinal]
                          ELSE attempts[b]]
        /\ families' = [g \in DOMAIN families \cup {f} |->
                          IF g # f THEN families[g]
                          ELSE IF life = "active" THEN Promoted(joined, a, ordinal)
                          ELSE joined]
  /\ nextAttemptId' = nextAttemptId + 1

\* setPhase(a, phase) with a phase other than "claimed".  An attempt that is
\* gone, or active already, is left alone.
SetPhase(a) ==
  /\ IF a \in Live /\ ~Active(a)
     THEN LET f == attempts[a].familyKey
          IN /\ attempts' = [attempts EXCEPT ![a].lifecycle = "active"]
             /\ families' = [families EXCEPT
                               ![f] = Promoted(@, a, attempts[a].claimOrdinal)]
     ELSE UNCHANGED <<attempts, families>>
  /\ UNCHANGED nextAttemptId

\* release(a): authority is computed anew among the attempts that stay.
Release(a) ==
  /\ IF a \in Live
     THEN LET f    == attempts[a].familyKey
              left == FamiliesWithout(a)
          IN /\ attempts' = Without(attempts, a)
             /\ families' = IF f \in DOMAIN left
                            THEN [left EXCEPT ![f] = Recomputed(@)]
                            ELSE left
     ELSE UNCHANGED <<attempts, families>>
  /\ UNCHANGED nextAttemptId

\* Seeded fault for Complete: the attempt stays in attemptsById.
CompleteKeepingAttempt(a) ==
  /\ IF Active(a)
     THEN families' = FamiliesWithout(a)
     ELSE UNCHANGED families
  /\ UNCHANGED <<attempts, nextAttemptId>>

\* complete(a): an active attempt leaves, its authority stays behind.
Complete(a) ==
  /\ IF Active(a)
     THEN /\ attempts' = Without(attempts, a)
          /\ families' = FamiliesWithout(a)
     ELSE UNCHANGED <<attempts, families>>
  /\ UNCHANGED nextAttemptId

CoordinatorInit ==
  /\ attempts = << >>
  /\ families = << >>
  /\ nextAttemptId = 1

-----------------------------------------------------------------------------
\* Any caller may make any call, with the id of any attempt ever claimed.

ClaimAny == \E f \in Families, phase \in {"claimed", "workspace-create"} :
              Claim(nextAttemptId, f, phase)

CoordinatorNext ==
  \/ ClaimAny
  \/ \E a \in AttemptIds : SetPhase(a)
  \/ \E a \in AttemptIds : Release(a)
  \/ \E a \in AttemptIds : Complete(a)

CoordinatorSpec == CoordinatorInit /\ [][CoordinatorNext]_coordinatorVars

-----------------------------------------------------------------------------
\* Both maps hold values of their types, and ids are handed out in order.
TypeOK ==
  /\ DOMAIN attempts \subseteq AttemptIds
  /\ \A a \in DOMAIN attempts : attempts[a] \in Attempt
  /\ DOMAIN families \subseteq Families
  /\ \A f \in DOMAIN families : families[f] \in FamilyState
  /\ nextAttemptId \in 1..(MaxAttempts + 1)
-----------------------------------------------------------------------------
(* Properties *)

\* Each family entry lists exactly the live attempts of that family, and no
\* entry outlives its last attempt: removeAttemptFromFamily, clearFamily and
\* claim keep the two maps in step.
MapsAgree ==
  /\ \A a \in Live : attempts[a].familyKey \in DOMAIN families
  /\ \A f \in DOMAIN families :
       /\ families[f].attemptIds = {a \in Live : attempts[a].familyKey = f}
       /\ families[f].attemptIds # {}

\* Ordinals follow the order of the claims, and no active attempt is newer
\* than the authoritative one: neither the restart of the ordinals when a
\* family is cleared nor recomputeAuthoritativeAttempt breaks the order that
\* canPublish and supersededByAttemptId compare.
OrdinalsOrdered ==
  /\ \A a \in Live : a < nextAttemptId
  /\ \A a, b \in Live :
       /\ attempts[a].familyKey = attempts[b].familyKey
       /\ a < b
       => attempts[a].claimOrdinal < attempts[b].claimOrdinal
  /\ \A a \in Live :
       LET family == families[attempts[a].familyKey]
       IN /\ attempts[a].claimOrdinal \in 1..(family.nextClaimOrdinal - 1)
          /\ Active(a) => attempts[a].claimOrdinal
                            <= family.latestAuthoritativeClaimOrdinal
  /\ \A f \in DOMAIN families :
       families[f].latestAuthoritativeClaimOrdinal < families[f].nextClaimOrdinal

\* The two maps are well formed, in step and in order: what every operation
\* relies on and leaves behind.
CoordinatorInv == TypeOK /\ MapsAgree /\ OrdinalsOrdered

\* Two reviews of one pull request never hold the publish right together,
\* whatever claims, starts, releases and completions came before.
AtMostOnePublisher ==
  \A a, b \in Live :
    /\ attempts[a].familyKey = attempts[b].familyKey
    /\ CanPublish(a)
    /\ CanPublish(b)
    => a = b

\* A running review loses its right only to a newer review of its own pull
\* request that starts in that very step: a claim that is only queued, or any
\* release or completion of another attempt, takes nothing from it.
RightsLostOnlyToNewer ==
  [][\A a \in Live : (CanPublish(a) /\ a \in Live' /\ ~CanPublish(a)') =>
       \E b \in Live' : /\ b > a
                        /\ ~CanPublish(b)
                        /\ CanPublish(b)'
                        /\ attempts'[b].familyKey = attempts[a].familyKey
    ]_coordinatorVars

-----------------------------------------------------------------------------
(* The promise that the maps, ordinals and clean-up implement. *)

Rights == INSTANCE PublishRights WITH
  Attempts <- AttemptIds,
  members <- [f \in Families |-> {a \in Live : attempts[a].familyKey = f}],
  started <- [f \in Families |-> {a \in Live : attempts[a].familyKey = f /\ Active(a)}],
  barred  <- [f \in Families |->
                {a \in Live : attempts[a].familyKey = f /\ SupersedingAttemptId(a) # NoAttempt}]

\* Every step of the coordinator is a step of PublishRights or changes
\* nothing there; in particular a pull request's ordinals starting over never
\* shows outside.
ImplementsPublishRights == Rights!Spec
=============================================================================
