---------------------------- MODULE TurnActions ----------------------------
(***************************************************************************)
(* What the model does to a contact (src/agent/tools/, flows.ts): the      *)
(* tools of one turn stage actions or send a flow at once, the turn's row  *)
(* records them (recorder.ts), the staged ones are performed after the     *)
(* text, and the rows tell the next turn what the contact already has      *)
(* (contact-actions.ts).                                                   *)
(*                                                                         *)
(* The tools node runs a step's calls one after the other                  *)
(* (langgraph-runner.ts), so a turn has one call under way.  A refused     *)
(* call, and one dropped over the cap, changes nothing that is kept here.  *)
(* One step is one request to ManyChat or one statement.  The tenant has   *)
(* an intent and a funnel field, an opening, a flow tied to a stage and a  *)
(* payment link, each sent once, and no offering field or plugin.          *)
(***************************************************************************)
EXTENDS Integers, Sequences, FiniteSets

CONSTANTS N,           \* turns of the contact
          Kinds,       \* "ordered", "unbound" (outside the lanes), "nudge"
          LinkSent,    \* the last funnel stage; the first is 0
          Values,      \* the stages the tenant's funnel field lists for the model
          OnStage,     \* the stage that carries the tied flow
          EventStages, \* the stages with a tracking flow
          Cap,         \* MAX_ACTIONS_PER_TURN
          Plain,       \* the flows without a role
          MaxFaults    \* requests refused or answered too late, failed statements, a crash

Turns == 1..N
NoStage == -1
Stages == 0..LinkSent
Flows == Plain \union {"opening", "tied", "link"}

ASSUME ActionsAssumption ==
    /\ N \in Nat /\ Cap \in Nat /\ MaxFaults \in Nat
    /\ Kinds \subseteq {"ordered", "unbound", "nudge"}
    /\ LinkSent \in Nat \ {0} /\ Values \subseteq 0..(LinkSent - 1)
    /\ OnStage \in Values /\ EventStages \subseteq 0..LinkSent
    /\ Plain \intersect {"opening", "tied", "link"} = {}

\* What a tool stages or sends, and what follows it.
SendFlowOf(f) == <<"send_flow", f>>
SetStage(v) == <<"set_field", v>>
Event(v) == <<"send_event", v>>
Intent == <<"set_intent", "prospect">>
Note == <<"write_note", "handoff">>
Opening == SendFlowOf("opening")
Link == SendFlowOf("link")

VARIABLES pc, kind,   \* where each turn is, and what started it
          facts,      \* ContactActions: what the turn read of the ones before it
          order,      \* ActionStage: the turn's staged and sent actions, in call order
          queue,      \* flows the current call has yet to send
          hand,       \* the actions being performed, one after the other
          kept,       \* what the turn performs after its text
          opened,     \* openingSend: the turn has tried its opening
          awaited,    \* the sends its row waits for: all, or those begun when the call was aborted
          rows,       \* turns in the order of their rows
          openingAt,  \* the conversation's mark: the opening is claimed
          field, got, fired, \* at ManyChat: the funnel field, flows played, events counted
          beside,     \* the turns not yet over when this one read its facts
          faults

stageVars == <<order, queue, hand, kept, opened, awaited>>
manychat == <<field, got, fired>>
vars == <<pc, kind, facts, stageVars, rows, openingAt, manychat, beside, faults>>

-----------------------------------------------------------------------------
\* The records of a turn: an entry is staged, sent while its request is in flight,
\* or done.  Of its chain of requests `did` were answered as performed, `landed` reached
\* the contact and `known` are performed in the turn's row; -1 if the row has no such entry.

Entry(a, s) == [act |-> a, state |-> s, did |-> 0, landed |-> 0, known |-> -1]
Entries(t) == DOMAIN order[t]
InState(t, s) == {i \in Entries(t) : order[t][i].state = s}
Staged(t) == {order[t][i].act : i \in InState(t, "staged")}
SentActs(t) == {order[t][i].act : i \in Entries(t) \ InState(t, "staged")}

\* The requests of an action: the link is followed by its stage write, and a write that
\* advances the stage past the last one performed by its event.
FollowedBy(t, v) == IF v \in EventStages /\ v > facts[t].stage THEN <<Event(v)>> ELSE <<>>
Chain(t, a) ==
    <<a>> \o (IF a = Link THEN <<SetStage(LinkSent)>> \o FollowedBy(t, LinkSent)
              ELSE IF a[1] = "set_field" THEN FollowedBy(t, a[2]) ELSE <<>>)

\* The stage write among the first n requests of an action, if any.
Wrote(a, n) == IF a = Link /\ n > 1 THEN LinkSent
               ELSE IF a[1] = "set_field" /\ n > 0 THEN a[2] ELSE NoStage

Max0(S) == CHOOSE x \in S : \A y \in S : x >= y

(***************************************************************************)
(* contactActionsFrom: the flows performed, the last stage written, intent *)
(* and whether the opening is spent, from the rows in their order.         *)
(***************************************************************************)
Shown == {w \in (DOMAIN rows) \X (1..(Cap + 1)) :
             w[2] \in Entries(rows[w[1]]) /\ order[rows[w[1]]][w[2]].known >= 0}
At(w) == order[rows[w[1]]][w[2]]
Later(v, w) == v[1] > w[1] \/ (v[1] = w[1] /\ v[2] > w[2])

ReadSent == {f \in Flows : \E w \in Shown : At(w).act = SendFlowOf(f) /\ At(w).known > 0}
ReadStage ==
    LET W == {w \in Shown : Wrote(At(w).act, At(w).known) # NoStage}
    IN  IF W = {} THEN NoStage
        ELSE LET w == CHOOSE v \in W : \A x \in W : ~Later(x, v) IN Wrote(At(w).act, At(w).known)
ReadFacts ==
    [sent |-> ReadSent,
     stage |-> ReadStage,
     prospect |-> \/ \E w \in Shown : At(w).act = Intent /\ At(w).known > 0
                  \/ ReadStage > 0,
     spent |-> \E w \in Shown : At(w).act \in {Intent, Opening}]

-----------------------------------------------------------------------------
\* ToolTurn and ActionStage: what a tool of the turn may do.

Prospect(t) == facts[t].prospect \/ Intent \in Staged(t)
Sends(t) == kind[t] # "nudge"          \* the turn has FlowSends
OpeningDue(t) == Sends(t) /\ ~facts[t].spent /\ ~facts[t].prospect
Floor(t) == Max0({facts[t].stage}
                 \union {a[2] : a \in {b \in Staged(t) : b[1] = "set_field"}}
                 \union {Wrote(order[t][i].act, order[t][i].did)
                           : i \in InState(t, "done")})
Counted(t) == Cardinality({i \in Entries(t) : order[t][i].act # Opening})

\* Mutant: the flows sent do not count against the cap.
FullOfStaged(t) == Cardinality(InState(t, "staged")) >= Cap

Full(t) == Counted(t) >= Cap

\* The opening goes ahead of the turn's first flow once the turn has staged `prospect`.
OpeningFirst(t) ==
    IF OpeningDue(t) /\ Intent \in Staged(t) /\ ~opened[t] THEN <<"opening">> ELSE <<>>

\* The flows a call sends.
Sending(t, f) == OpeningFirst(t) \o <<f>>

\* stage.stage, and its order afterwards.
Accepts(t, a) == a \notin Staged(t) /\ ~Full(t)
With(t, a) == Append(order[t], Entry(a, "staged"))

-----------------------------------------------------------------------------
Over(t) == pc[t] \in {"idle", "done"}
Left(t) == pc[t] \in {"perform", "after", "done"}   \* the turn has given its lane back

\* The loop is between two calls.
Calling(t) == pc[t] \in {"calls", "late", "after"} /\ queue[t] = <<>> /\ hand[t] = {}

Init ==
    /\ pc = [t \in Turns |-> "idle"]
    /\ kind = [t \in Turns |-> "ordered"]
    /\ facts = [t \in Turns |-> [sent |-> {}, stage |-> NoStage, prospect |-> FALSE, spent |-> FALSE]]
    /\ order = [t \in Turns |-> <<>>]
    /\ queue = [t \in Turns |-> <<>>]
    /\ hand = [t \in Turns |-> {}]
    /\ kept = [t \in Turns |-> {}]
    /\ opened = [t \in Turns |-> FALSE]
    /\ awaited = [t \in Turns |-> 1..(Cap + 1)]
    /\ rows = <<>>
    /\ openingAt = FALSE
    /\ field = NoStage
    /\ got = [f \in Flows |-> 0]
    /\ fired = [v \in Stages |-> 0]
    /\ beside = [t \in Turns |-> {}]
    /\ faults = 0

\* A turn starts: the contact's own once the one before it has left its lane.
Start(t, k) ==
    /\ pc[t] = "idle" /\ (t > 1 => pc[t - 1] # "idle")
    /\ kind' = [kind EXCEPT ![t] = k]
    /\ k = "ordered" => \A u \in 1..(t - 1) : kind[u] = "ordered" => Left(u)
    /\ pc' = [pc EXCEPT ![t] = "calls"]
    /\ facts' = [facts EXCEPT ![t] = ReadFacts]
    /\ beside' = [beside EXCEPT ![t] = {u \in Turns : ~Over(u)}]
    /\ UNCHANGED <<stageVars, rows, openingAt, manychat, faults>>

\* The tools.  Each returns at once when the contact is no prospect, or sends first.
Stage(t, a) ==
    /\ order' = IF Accepts(t, a) THEN [order EXCEPT ![t] = With(t, a)] ELSE order
    /\ UNCHANGED <<queue, opened>>

\* With FlowSends, the opening and then the flow; a nudge turn stages it.
SendOrStage(t, f, before) ==
    IF Sends(t)
    THEN /\ order' = [order EXCEPT ![t] = before]
         /\ queue' = [queue EXCEPT ![t] = Sending(t, f)]
         /\ opened' = [opened EXCEPT ![t] = @ \/ OpeningFirst(t) # <<>>]
    ELSE /\ order' = [order EXCEPT ![t] =
                        IF SendFlowOf(f) \notin Staged(t) /\ Len(before) < Cap
                        THEN Append(before, Entry(SendFlowOf(f), "staged")) ELSE before]
         /\ UNCHANGED <<queue, opened>>

SetIntent(t) == Stage(t, Intent)

WriteNote(t) == Stage(t, Note)

\* A write that moves the stage to the tied flow's sends it too.
SetFunnel(t, v) ==
    /\ Prospect(t) /\ v >= Floor(t)
    /\ IF /\ v = OnStage /\ v > Floor(t) /\ Accepts(t, SetStage(v))
          /\ "tied" \notin facts[t].sent /\ SendFlowOf("tied") \notin SentActs(t)
       THEN SendOrStage(t, "tied", With(t, SetStage(v)))
       ELSE Stage(t, SetStage(v))

\* The link waits for the stage before link_sent, unless the contact asked to pay.
SendFlow(t, f, asked) ==
    /\ Prospect(t) /\ f # "opening" /\ f \notin facts[t].sent
    /\ f = "link" => asked \/ Floor(t) >= LinkSent - 1
    /\ SendOrStage(t, f, order[t])

Call(t) ==
    /\ Calling(t)
    /\ \/ SetIntent(t)
       \/ WriteNote(t)
       \/ \E v \in Values : SetFunnel(t, v)
       \/ \E f \in Flows, asked \in BOOLEAN : SendFlow(t, f, asked)
    /\ UNCHANGED <<pc, kind, facts, hand, kept, awaited, rows, openingAt, manychat, beside, faults>>

\* What a flow takes ahead of it: the funnel writes the turn has staged, for the link.
Ahead(t, f) ==
    IF f = "link" THEN {i \in InState(t, "staged") : order[t][i].act[1] = "set_field"} ELSE {}

\* Mutant: the opening is sent by every turn that finds it due.
GoesUnclaimed(t, f) == SendFlowOf(f) \notin SentActs(t) /\ (f = "opening" \/ ~Full(t))

\* stage.send: not twice in one turn, not over the cap; the opening is uncapped, and sent
\* by the turn that claims it.
Goes(t, f) == IF f = "opening" THEN ~openingAt
              ELSE SendFlowOf(f) \notin SentActs(t) /\ ~Full(t)

SendNow(t) ==
    /\ queue[t] # <<>> /\ hand[t] = {}
    /\ queue' = [queue EXCEPT ![t] = Tail(@)]
    /\ LET f == Head(queue[t])
           now == [i \in Entries(t) |-> IF i \in Ahead(t, f) THEN [order[t][i] EXCEPT !.state = "sent"]
                                        ELSE order[t][i]]
       IN  /\ openingAt' = (openingAt \/ f = "opening")
           /\ IF Goes(t, f)
              THEN /\ order' = [order EXCEPT ![t] = Append(now, Entry(SendFlowOf(f), "sent"))]
                   /\ hand' = [hand EXCEPT ![t] = Ahead(t, f) \union {Len(order[t]) + 1}]
              ELSE UNCHANGED <<order, hand>>
    /\ UNCHANGED <<pc, kind, facts, kept, opened, awaited, rows, manychat, beside, faults>>

\* A request lands.
Lands(r) ==
    /\ field' = IF r[1] = "set_field" THEN r[2] ELSE field
    /\ got' = IF r[1] = "send_flow" THEN [got EXCEPT ![r[2]] = @ + 1] ELSE got
    /\ fired' = IF r[1] = "send_event" THEN [fired EXCEPT ![r[2]] = @ + 1] ELSE fired

\* performActions: the next request of the action in hand, of which d is answered as
\* performed and l lands.  A chain goes on only behind a performed one; the last action
\* settles the whole group.
Advance(t, i, d, l) ==
    LET ends == d = 0 \/ order[t][i].did + 1 = Len(Chain(t, order[t][i].act))
        now == [order[t] EXCEPT ![i].did = @ + d, ![i].landed = @ + l]
    IN  /\ hand' = [hand EXCEPT ![t] = IF ends THEN @ \ {i} ELSE @]
        /\ order' = [order EXCEPT ![t] =
                       [j \in Entries(t) |-> IF ends /\ hand[t] = {i} /\ now[j].state = "sent"
                                             THEN [now[j] EXCEPT !.state = "done"] ELSE now[j]]]

Request(t) ==
    /\ \E i \in hand[t] :
         /\ \A j \in hand[t] : i <= j
         /\ LET r == Chain(t, order[t][i].act)[order[t][i].did + 1]
            IN  \/ Lands(r) /\ Advance(t, i, 1, 1) /\ UNCHANGED faults
                \/ /\ faults < MaxFaults /\ faults' = faults + 1
                   /\ \/ UNCHANGED manychat /\ Advance(t, i, 0, 0)
                      \/ Lands(r) /\ Advance(t, i, 0, 1)     \* landed, and answered too late
    /\ UNCHANGED <<pc, kind, facts, queue, kept, opened, awaited, rows, openingAt, beside>>

\* The claim's statement fails: the opening is not sent, and nobody has it.
ClaimFails(t) ==
    /\ queue[t] # <<>> /\ hand[t] = {} /\ Head(queue[t]) = "opening"
    /\ faults < MaxFaults /\ faults' = faults + 1
    /\ queue' = [queue EXCEPT ![t] = Tail(@)]
    /\ UNCHANGED <<pc, kind, facts, order, hand, kept, opened, awaited, rows, openingAt, manychat, beside>>

-----------------------------------------------------------------------------
\* How a turn ends.

\* The model replies; the turn that staged `prospect` sends its opening before the reply.
Reply(t) ==
    /\ pc[t] = "calls" /\ Calling(t)
    /\ pc' = [pc EXCEPT ![t] = "reply"]
    /\ queue' = [queue EXCEPT ![t] = OpeningFirst(t)]
    /\ opened' = [opened EXCEPT ![t] = @ \/ OpeningFirst(t) # <<>>]
    /\ UNCHANGED <<kind, facts, order, hand, kept, awaited, rows, openingAt, manychat, beside, faults>>

\* stage.records: what was answered; the placeholder of a request in flight; nothing
\* performed of what is staged.
Records(t) ==
    [i \in Entries(t) |->
        [order[t][i] EXCEPT !.known = IF order[t][i].state = "done" THEN order[t][i].did ELSE 0]]

\* recordAgentReply: the turn's row, and then what it performs after its text.
Row(t, k) ==
    /\ rows' = Append(rows, t)
    /\ order' = [order EXCEPT ![t] = Records(t)]
    /\ kept' = [kept EXCEPT ![t] = k]
    /\ hand' = [hand EXCEPT ![t] = k]
    /\ pc' = [pc EXCEPT ![t] = IF k = {} THEN "done" ELSE "perform"]
    /\ UNCHANGED <<kind, facts, queue, opened, awaited, openingAt, manychat, beside, faults>>

Replied(t) == pc[t] = "reply" /\ queue[t] = <<>> /\ hand[t] = {}

Settle(t) == Replied(t) /\ Row(t, InState(t, "staged"))

\* The contact wrote again and no flow went out: the reply and the staged are dropped.
Supersede(t) == Replied(t) /\ Sends(t) /\ SentActs(t) = {} /\ Row(t, {})

\* An escalation discards what is staged, except the notes when the model made it.
Escalate(t, keeps) ==
    /\ pc[t] = "calls" /\ Calling(t)
    /\ Row(t, {i \in InState(t, "staged") : keeps /\ Sends(t) /\ order[t][i].act = Note})

Ends(t) == pc' = [pc EXCEPT ![t] = "done"]

\* Mutant: the record does not wait for the request in flight.
SettledAtOnce(t) == TRUE

\* stage.settled: the sends begun before the abort are answered.
Settled(t) == awaited[t] \subseteq InState(t, "done")

\* No row: the statement fails, or a nudge finds that the contact wrote or its call failed.
RecordFails(t) ==
    /\ Replied(t) \/ (pc[t] = "calls" /\ Calling(t)) \/ (pc[t] = "late" /\ Settled(t))
    /\ faults < MaxFaults /\ faults' = faults + 1
    /\ pc' = [pc EXCEPT ![t] = IF @ = "late" THEN "after" ELSE "done"]
    /\ UNCHANGED <<kind, facts, stageVars, rows, openingAt, manychat, beside>>

Cancel(t) ==
    /\ ~Sends(t) /\ (Replied(t) \/ pc[t] = "calls")
    /\ Ends(t)
    /\ UNCHANGED <<kind, facts, stageVars, rows, openingAt, manychat, beside, faults>>

\* MODEL_ABORT_MS: the request in flight goes on, and so does the step's loop of calls.
Abort(t) ==
    /\ pc[t] = "calls" /\ Sends(t)
    /\ pc' = [pc EXCEPT ![t] = "late"]
    /\ awaited' = [awaited EXCEPT ![t] = InState(t, "sent") \union InState(t, "done")]
    /\ UNCHANGED <<kind, facts, order, queue, hand, kept, opened, rows, openingAt, manychat, beside, faults>>

\* DeferredSettlement.failed: a row if the turn sent anything.
RecordAborted(t) ==
    /\ pc[t] = "late" /\ Settled(t)
    /\ pc' = [pc EXCEPT ![t] = "after"]
    /\ IF SentActs(t) # {}
       THEN rows' = Append(rows, t) /\ order' = [order EXCEPT ![t] = Records(t)]
       ELSE UNCHANGED <<rows, order>>
    /\ UNCHANGED <<kind, facts, queue, hand, kept, opened, awaited, openingAt, manychat, beside, faults>>

LoopEnds(t) ==
    /\ pc[t] = "after" /\ Calling(t)
    /\ Ends(t)
    /\ UNCHANGED <<kind, facts, stageVars, rows, openingAt, manychat, beside, faults>>

\* Mutant: an action that was refused is recorded as performed.
ResolvedBlindly(t) ==
    [i \in Entries(t) |-> IF i \in kept[t]
                         THEN [order[t][i] EXCEPT !.known = 1] ELSE order[t][i]]

\* resolveStaged, once all were performed.
Resolved(t) ==
    [i \in Entries(t) |-> IF i \in kept[t]
                         THEN [order[t][i] EXCEPT !.known = order[t][i].did] ELSE order[t][i]]

\* None of the actions that follow the text has been tried yet.
Waits(t) == pc[t] = "perform" /\ hand[t] = kept[t] /\ \A i \in kept[t] : order[t][i].did = 0

Performed(t) == pc[t] = "perform" /\ hand[t] = {}

Resolve(t) ==
    /\ Performed(t) /\ Ends(t)
    /\ order' = [order EXCEPT ![t] = Resolved(t)]
    /\ UNCHANGED <<kind, facts, queue, hand, kept, opened, awaited, rows, openingAt, manychat, beside, faults>>

ResolveFails(t) ==
    /\ Performed(t) /\ Ends(t)
    /\ faults < MaxFaults /\ faults' = faults + 1
    /\ UNCHANGED <<kind, facts, stageVars, rows, openingAt, manychat, beside>>

\* The reply is dead-lettered, or never queued: its actions are not performed.
Drop(t) ==
    /\ Waits(t) /\ Ends(t)
    /\ hand' = [hand EXCEPT ![t] = {}]
    /\ UNCHANGED <<kind, facts, order, queue, kept, opened, awaited, rows, openingAt, manychat, beside, faults>>

\* The process dies: a turn that is not over, and not waiting in the outbox, is cut off.
Crash ==
    /\ faults < MaxFaults /\ faults' = faults + 1
    /\ LET cut == {t \in Turns : ~Over(t) /\ ~Waits(t)}
       IN  /\ cut # {}
           /\ pc' = [t \in Turns |-> IF t \in cut THEN "done" ELSE pc[t]]
           /\ queue' = [t \in Turns |-> IF t \in cut THEN <<>> ELSE queue[t]]
           /\ hand' = [t \in Turns |-> IF t \in cut THEN {} ELSE hand[t]]
    /\ UNCHANGED <<kind, facts, order, kept, opened, awaited, rows, openingAt, manychat, beside>>

Turn(t) ==
    \/ \E k \in Kinds : Start(t, k)
    \/ Call(t) \/ SendNow(t) \/ ClaimFails(t) \/ Request(t)
    \/ Reply(t) \/ Settle(t) \/ Supersede(t) \/ Escalate(t, TRUE) \/ Escalate(t, FALSE)
    \/ RecordFails(t) \/ Cancel(t) \/ Abort(t) \/ RecordAborted(t) \/ LoopEnds(t)
    \/ Resolve(t) \/ ResolveFails(t) \/ Drop(t)

Next == Crash \/ \E t \in Turns : Turn(t)

Spec == Init /\ [][Next]_vars

-----------------------------------------------------------------------------
\* Properties

\* The types of the variables; an action is in flight, and its batch awaited, only within a call.
TypeOK ==
    /\ pc \in [Turns -> {"idle", "calls", "reply", "perform", "late", "after", "done"}]
    /\ kind \in [Turns -> Kinds \union {"ordered"}]
    /\ \A t \in Turns :
         /\ \A i \in Entries(t) : order[t][i].state \in {"staged", "sent", "done"}
         /\ hand[t] \subseteq Entries(t)
         /\ ~Over(t) => (InState(t, "sent") # {} <=> hand[t] # {} /\ pc[t] # "perform")
         /\ Over(t) => queue[t] = <<>> /\ hand[t] = {}
         /\ awaited[t] \subseteq 1..(Cap + 1) /\ beside[t] \subseteq Turns
    /\ openingAt \in BOOLEAN /\ faults \in 0..MaxFaults
    /\ field \in Stages \union {NoStage} /\ got \in [Flows -> 0..N] /\ fired \in [Stages -> 0..N]

\* What reached the contact and is not performed in the row of its turn.
MissedOf(t) ==
    {i \in Entries(t) : /\ order[t][i].landed > 0 /\ order[t][i].landed > order[t][i].known
                        /\ \/ pc[t] \in {"after", "done"}
                           \/ pc[t] = "perform" /\ order[t][i].state = "done"}

\* However its calls come, a turn stages and sends no more than the cap, its opening apart.
CapHeld == \A t \in Turns : Counted(t) <= Cap

\* Concurrent turns, refusals and crashes notwithstanding, the contact has the opening once.
OpeningOnce == got["opening"] <= 1

\* Without a failure, the row of a turn says of every action what became of it, those
\* in flight at the abort of its model call included.
RecordedIsSent ==
    \A t \in Turns : faults = 0 =>
        \A i \in MissedOf(t) : i \notin awaited[t]

\* The stages a turn has written to the contact.
StagesWritten(t) == {Wrote(order[t][i].act, order[t][i].landed) : i \in Entries(t)} \ {NoStage}

\* Two turns of which one was under way when the other read its facts.
Overlapped(t, u) == t \in beside[u] \/ u \in beside[t]

\* Turns may overlap: the deferred actions of one are performed while the next one calls.
\* Once none is under way, and their rows missed nothing, the flows the next turn reads as
\* sent are those the contact got; the stage it reads is the contact's, unless the write
\* read and the one that landed last are of two turns that overlapped.
BelievedIsTrue ==
    (\A t \in Turns : Over(t) /\ MissedOf(t) = {}) =>
        /\ ReadSent = {f \in Flows : got[f] > 0}
        /\ \/ ReadStage = field
           \/ \E t, u \in Turns : /\ Overlapped(t, u)
                                  /\ ReadStage \in StagesWritten(t) /\ field \in StagesWritten(u)

\* The contact's stage only moves forward, as specs/023-sales-funnel.md:60 has it.  The
\* code does not keep this of turns that overlap, and no run that must pass checks it.
StageMovesOn == [][field' >= field]_vars

=============================================================================
