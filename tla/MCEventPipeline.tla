--------------------------- MODULE MCEventPipeline ---------------------------
(* EventPipeline on small instances.  Workers, events and the partitions of  *)
(* a topic are interchangeable, which the safety runs use.                   *)
EXTENDS EventPipeline, TLC

Interchangeable ==
    Permutations(Workers) \cup Permutations(Events) \cup Permutations(EventPartitions)
=============================================================================
