------------------------- MODULE MCIdempotencyCache -------------------------
(* Model-checking instance of IdempotencyCache. *)
EXTENDS IdempotencyCache, TLC

CONSTANT MaxTime   \* bound on the clock

(* Message IDs are interchangeable, so they may be used up in order. *)
Bounds == clock <= MaxTime /\ \A a \in completed : a.message <= Cardinality(completed)

Symmetry == Permutations(Holders) \cup Permutations(Fingerprints)
=============================================================================
