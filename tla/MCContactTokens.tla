-------------------------- MODULE MCContactTokens --------------------------
\* Instances of ContactTokens for TLC: two requests at a time, an hour of a few ticks.
EXTENDS ContactTokens

CONSTANTS r1, r2

MCRequests == {r1, r2}
=============================================================================
