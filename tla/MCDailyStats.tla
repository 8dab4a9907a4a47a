----------------------------- MODULE MCDailyStats -----------------------------
(* DailyStats on small instances.  The days a query may name go well beyond  *)
(* those of the tables: differences reach the limits of a Duration.          *)
EXTENDS DailyStats, TLC

MCQueryDays == -4..5

Interchangeable == Permutations(Events) \cup Permutations(Groups) \cup Permutations(Writers)
=============================================================================
