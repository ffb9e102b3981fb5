----------------------------- MODULE MCPlaybook -----------------------------
\* Instances of Playbook for TLC.  Nothing was live yet, or one version was: it is reviewed,
\* evaluated and activated by one command.  Two were: two commands race, one to activate what a
\* review makes and the other to bring the earlier one back.  Three were: two commands may bring
\* two back at once, and nothing is proposed or evaluated.
EXTENDS Playbook

CONSTANTS a, b

Long == {<<b, b>>}
Fresh == {<<>>}
Histories == {<<>>, << <<a>> >>, << <<b>>, <<a>> >>, << <<a>>, <<>>, <<b>> >>}

Proposals(status) == \A p \in Proposed : proposals[p] = status

MCInit ==
    /\ Init
    /\ CASE Len(timeline) <= 2 -> suite = 1 /\ evals = 0 /\ Proposals("none")
                                  /\ commands = MaxCommands \div 2 /\ faults = 0
         [] Len(timeline) = 4 -> suite = 1 /\ evals = 0 /\ Proposals("rejected")
                                  /\ commands = 0 /\ faults = MaxFaults
         [] OTHER -> suite = MaxSuites /\ evals = MaxEvals /\ Proposals("rejected")
                                  /\ commands = 0 /\ faults = 0

MCSpec == MCInit /\ [][Next]_vars /\ Fairness

=============================================================================
