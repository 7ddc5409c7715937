---------------------------- MODULE MCIssueTriage ---------------------------
(* One issue: issues.opened in two executions of one delivery and in one of *)
(* another, issues.closed in two executions of one delivery.                *)
EXTENDS IssueTriage, TLC

CONSTANTS o1, o2, o3, c1, c2

MCIssueOf(e) == "issue"

MCDeliveryOf(e) ==
  CASE e \in {o1, o2} -> "opened-1"
    [] e = o3         -> "opened-2"
    [] e \in {c1, c2} -> "closed-1"

\* The two executions of one delivery are alike.
Twins == Permutations({o1, o2}) \cup Permutations({c1, c2})
=============================================================================
