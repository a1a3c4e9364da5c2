-------------------------- MODULE MCDestinationCache --------------------------
(* Values for TLC: room for two of three keys, so that the listing evicts  *)
(* and is evicted.                                                         *)
EXTENDS DestinationCache, TLC

CONSTANTS listing, other1, other2, rate1, rate2, fallback, h1, h2, h3

MCKeys == {listing, other1, other2}
MCValues == {rate1, rate2, fallback}
Symmetric == Permutations(Handlers) \cup Permutations({other1, other2})
==============================================================================
