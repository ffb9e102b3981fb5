----------------------------- MODULE MCProcess -----------------------------
EXTENDS Process, TLC

CONSTANTS r1, r2, ana, bea, p1

\* The catalogs: one offering, or two of which only one has a link.
One == <<[id |-> "a", url |-> TRUE]>>
Two == <<[id |-> "a", url |-> TRUE], [id |-> "b", url |-> FALSE]>>

Field(id, marks, values) ==
    [id |-> id, field |-> id, marks |-> marks, values |-> values, systemValues |-> TRUE]
Flow(id, role, silent) ==
    [id |-> id, flowNs |-> {id}, role |-> role, offering |-> "none", onStage |-> "none",
     silent |-> silent, settles |-> FALSE, repeatable |-> FALSE]
Tools(offerings, flows) ==
    [NO_TOOLS EXCEPT
        !.flows = flows,
        !.fields = <<Field("intent", {"intent"}, {}), Field("stage", {"funnel"}, {}),
                     Field("offer", {"offering"}, offerings)>>]

LinkTools == Tools({"a"}, <<Flow("pay", "payment_link", TRUE)>>)
TwoTools == Tools({"a", "b"}, <<[Flow("video", "none", FALSE) EXCEPT !.offering = "b"]>>)
\* Aimed at the reply flow.
AimedTools == Tools({"a"}, <<Flow("reply_ns", "none", FALSE)>>)

MCStart == [catalog |-> One, rules |-> [learning |-> TRUE], tools |-> LinkTools,
            overrides |-> Absent, persona |-> "person"]
MCEdits == {<<"catalog", Two>>, <<"catalog", Broken>>, <<"tools", TwoTools>>,
            <<"tools", AimedTools>>, <<"tools", Absent>>, <<"rules", [learning |-> FALSE]>>, <<"rules", Absent>>,
            <<"overrides", {"sales"}>>, <<"persona", Absent>>, <<"persona", "another">>}

\* A catalog with one offering under its id twice, and a field with as many values.
TwinEdits == {<<"catalog", <<One[1], One[1]>>>>, <<"tools", Tools({"a", "b"}, <<>>)>>}

MCEnv == [channel |-> "whatsapp", channels |-> {"whatsapp", "instagram"},
          flows |-> [whatsapp |-> "reply_ns", instagram |-> "insta_ns", messenger |-> ""],
          token |-> TRUE, langchain |-> FALSE, traced |-> TRUE, traceKeys |-> TRUE,
          traceElsewhere |-> FALSE, traceHoldsTurn |-> FALSE, abortMs |-> 9, raceMs |-> 5]

\* What may happen in each of the instance's scenarios.
Quiet == [service |-> [edits |-> 0, loads |-> 0, versions |-> 0, requests |-> 0, hours |-> 0,
                       faults |-> 0, batches |-> 0, races |-> 0, sends |-> 0, signals |-> 0, hooked |-> FALSE,
                       texts |-> {"plain"}],
          job |-> [runs |-> 0, weeks |-> 0, moves |-> 0, faults |-> 0]]
With(changes) == [Quiet EXCEPT !.service = changes @@ @]
WithJob(changes, s) == [Quiet EXCEPT !.job = changes @@ @, !.service.signals = s]
MCBounds ==
    {With([edits |-> 3, loads |-> 2]),
     With([edits |-> 1, loads |-> 1, versions |-> 1, requests |-> 2]),
     With([requests |-> 3, hours |-> 1, races |-> 1, texts |-> {"audio"}]),
     With([requests |-> 1, races |-> 1, faults |-> 1, hooked |-> TRUE, texts |-> Texts]),
     With([requests |-> 2, batches |-> 1, races |-> 1, faults |-> 1, signals |-> 1]),
     With([sends |-> 2]), With([sends |-> 1, signals |-> 1]),
     WithJob([runs |-> 2, weeks |-> 1], 0),
     WithJob([runs |-> 1, moves |-> 1, faults |-> 1], 1)}

Contact(offered, paid) == [offered |-> offered, settled |-> TRUE, paid |-> paid]
MCBeginnings == {[k \in Contacts |-> Contact(TRUE, k \in {1, 3})]}
Cites(turns) == [tactic |-> TRUE, turnIds |-> turns]
MCOutputs == {<<>>, <<Cites({ReadableTurn(1)})>>,
              <<Cites({ReadableTurn(3)}), Cites({ReadableTurn(2)}), Cites({<<1, "superseded">>}),
                Cites({ReadableTurn(1)}), [tactic |-> FALSE, turnIds |-> {}]>>}

Symmetry == Permutations(Slots) \union Permutations(Subscribers)
=============================================================================
