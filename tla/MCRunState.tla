----------------------------- MODULE MCRunState -----------------------------
(* One pull request, two heads and three deliveries: two claims can race    *)
(* for one head or for two, with a third run before, between or after them. *)
EXTENDS RunState, TLC

Symmetry == Permutations(Heads) \cup Permutations(Deliveries)
=============================================================================
