--------------------------- MODULE MCOutboundClient ---------------------------
(* OutboundClient on small instances; the callers are interchangeable.       *)
EXTENDS OutboundClient, TLC

Interchangeable == Permutations(Callers)
=============================================================================
