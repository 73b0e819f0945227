---------------------------- MODULE MCEventStore ----------------------------
\* Instances of EventStore for TLC.
EXTENDS EventStore

CONSTANTS w1, w2, acc1

\* Two writers race for one aggregate.
MCTarget == (w1 :> acc1) @@ (w2 :> acc1)
MCBatchSize == (w1 :> 3) @@ (w2 :> 2)

=============================================================================
