----------------------------- MODULE MCProjector -----------------------------
\* Instances of Projector for TLC.
EXTENDS Projector, TLC

CONSTANTS i1, i2, alice, bob, d1, d2

\* Two aggregates of two owners.
MCOwner == (i1 :> alice) @@ (i2 :> bob) @@ (NoId :> alice)

\* Dispatchers can be exchanged.
Symmetry == Permutations({d1, d2})

=============================================================================
