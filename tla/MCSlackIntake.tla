--------------------------- MODULE MCSlackIntake ---------------------------
(* One process after another over the table: a thread, its follow-up and a  *)
(* GitHub delivery, each sent again, queued, replayed or answered.          *)
EXTENDS SlackIntake

CONSTANTS question, followUp

MCRoot == [m \in Messages |-> question]
=============================================================================
