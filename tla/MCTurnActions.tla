--------------------------- MODULE MCTurnActions ---------------------------
\* Instances of TurnActions for TLC: a few turns, a short funnel and a low cap.
EXTENDS TurnActions

=============================================================================
