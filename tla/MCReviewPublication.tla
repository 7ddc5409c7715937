------------------------- MODULE MCReviewPublication -------------------------
(* Two reviews of one head in either order, of either lane.  The agent of   *)
(* one of them calls its tools, and the other may be a review that only     *)
(* takes the rights and gives them back.                                    *)
EXTENDS ReviewPublication

MCLanesOf(e) == IF e = 1 THEN {"explicit", "automatic"}
                ELSE {"explicit", "quiet"}
MCMaxCalls(e) == IF e = 1 THEN 2 ELSE 0
=============================================================================
