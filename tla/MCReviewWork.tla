---------------------------- MODULE MCReviewWork ----------------------------
(* Reviews of one pull request: up to three attempts of any kind.           *)
EXTENDS ReviewWork
=============================================================================
