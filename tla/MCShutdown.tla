----------------------------- MODULE MCShutdown -----------------------------
(* Three jobs over the scopes of two pull requests: all three can meet in   *)
(* one scope, which can empty and fill again in between, one can run while  *)
(* another of its pull request waits, and both pull requests compete for    *)
(* one notice.                                                              *)
EXTENDS Shutdown

CONSTANTS s1, s2, p1, p2

MCPullRequestOf == [s \in Scopes |-> IF s = s2 THEN p2 ELSE p1]
=============================================================================
