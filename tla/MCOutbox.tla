------------------------------ MODULE MCOutbox ------------------------------
EXTENDS Outbox, TLC

CONSTANTS c1, c2, w1, w2

MCContacts == {c1, c2}
MCOneContact == {c1}
MCWorkers == {w1, w2}
MCOneWorker == {w1}
MCBackoff == [a \in 1 .. MaxAttempts |-> a]
MCNow == {0}
MCNowOrHeld == {0, 2}

Symmetry == Permutations(Contacts) \union Permutations(Workers)
=============================================================================
