--------------------------- MODULE PublishRights ---------------------------
(***************************************************************************)
(* What the review-work coordinator promises, without its maps, ordinals   *)
(* and clean-up: reviews of a family are numbered in the order they are    *)
(* claimed, a review that starts bars every older one, and a review may    *)
(* publish while it is started and not barred.  A finished review keeps    *)
(* the older ones barred.  A withdrawn review gives the right back to the  *)
(* newest review still running.                                            *)
(***************************************************************************)
EXTENDS Naturals

CONSTANTS Families,
          Attempts   \* natural numbers, in the order the reviews are claimed

VARIABLES members,   \* members[f]: the reviews claimed and not over
          started,   \* started[f]: those of them that run
          barred     \* barred[f]: those of them a newer review has overtaken

vars == <<members, started, barred>>

Init ==
  /\ members = [f \in Families |-> {}]
  /\ started = [f \in Families |-> {}]
  /\ barred = [f \in Families |-> {}]

\* A claim is newer than every review still known.
Claim(f, a) ==
  /\ \A g \in Families : \A b \in members[g] : b < a
  /\ members' = [members EXCEPT ![f] = @ \cup {a}]
  /\ UNCHANGED <<started, barred>>

Start(f, a) ==
  /\ a \in members[f] \ started[f]
  /\ started' = [started EXCEPT ![f] = @ \cup {a}]
  /\ barred' = [barred EXCEPT ![f] = @ \cup {b \in members[f] : b < a}]
  /\ UNCHANGED members

\* A claim that starts at once.
ClaimStarted(f, a) ==
  /\ \A g \in Families : \A b \in members[g] : b < a
  /\ members' = [members EXCEPT ![f] = @ \cup {a}]
  /\ started' = [started EXCEPT ![f] = @ \cup {a}]
  /\ barred' = [barred EXCEPT ![f] = members[f]]

\* Nothing but the reviews still running bars a review after this.
Withdraw(f, a) ==
  /\ a \in members[f]
  /\ members' = [members EXCEPT ![f] = @ \ {a}]
  /\ started' = [started EXCEPT ![f] = @ \ {a}]
  /\ barred' = [barred EXCEPT
                  ![f] = {b \in members[f] \ {a} :
                            \E c \in started[f] \ {a} : b < c}]

Finish(f, a) ==
  /\ a \in started[f]
  /\ members' = [members EXCEPT ![f] = @ \ {a}]
  /\ started' = [started EXCEPT ![f] = @ \ {a}]
  /\ barred' = [barred EXCEPT ![f] = @ \ {a}]

Next == \E f \in Families, a \in Attempts :
          \/ Claim(f, a)
          \/ ClaimStarted(f, a)
          \/ Start(f, a)
          \/ Withdraw(f, a)
          \/ Finish(f, a)

Spec == Init /\ [][Next]_vars

MayPublish(f, a) == a \in started[f] \ barred[f]
=============================================================================
