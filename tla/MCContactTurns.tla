--------------------------- MODULE MCContactTurns ---------------------------
\* Instances of ContactTurns for TLC: a few messages of one contact, short timers.
EXTENDS ContactTurns

=============================================================================
