-------------------------- MODULE MCWebhookIntake --------------------------
(* Two processes over one table, two HTTP requests and batches of two rows: *)
(* a redelivery can meet its first copy in the other process, in the table  *)
(* or in the cache, and two replays can meet in one row.                    *)
EXTENDS WebhookIntake

\* Processes, and delivery ids, are interchangeable.
Symmetry == Permutations(Instances) \cup Permutations(Deliveries)
=============================================================================
