------------------------------ MODULE MCOutbox ------------------------------
\* Instances of Outbox for TLC.
EXTENDS Outbox, TLC

CONSTANTS e1, e2, e3, acc1, acc2, c1, c2

\* Two events of one aggregate and one of another.
MCAgg == (e1 :> acc1) @@ (e2 :> acc1) @@ (e3 :> acc2)

\* Two copies of the first aggregate.
MCCopyOf == (c1 :> acc1) @@ (c2 :> acc1)
MCOneCopy == c1 :> acc1

\* Use cases that number by NextSequence keep no copies.
MCNoCopies == << >>

\* inserted_at texts that sort like the instants they stand for.
MCRank == [n \in 1 .. MaxInstant |-> n]

\* Texts of the instants 0.10 s, 0.11 s and 0.20 s, sorted as SQLite does.
Clock == INSTANCE Rfc3339Text WITH Places <- 2
Readings == << 10, 11, 20 >>
MCTextRank ==
    [n \in 1 .. MaxInstant |->
        Clock!TextRank(Readings[n], {Readings[m] : m \in 1 .. MaxInstant})]

=============================================================================
