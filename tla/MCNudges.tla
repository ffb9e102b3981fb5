------------------------------ MODULE MCNudges ------------------------------
\* Instances of Nudges for TLC: a few messages of one contact.
EXTENDS Nudges

=============================================================================
