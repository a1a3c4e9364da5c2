----------------------- MODULE MCShipRequestLifecycle -----------------------
(* ShipRequestLifecycle on small instances.                                *)
EXTENDS ShipRequestLifecycle, TLC

CONSTANTS h1, h2, i1, i2, r1, r2, p1, p2, c1, c2, w1, w2, b1, m1, m2  \* model values

ClerkSymmetry ==
    Permutations(Clerks) \cup Permutations(Handlers) \cup Permutations(Weights)
RequestSymmetry ==
    Permutations(Requests) \cup Permutations(Packages)
        \cup Permutations(Manifests)
=============================================================================
