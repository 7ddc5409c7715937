------------------------ MODULE MCContinuationFamily ------------------------
(* One pull request: the review of one delivery, its retry, other reviews. *)
EXTENDS ContinuationFamily

=============================================================================
