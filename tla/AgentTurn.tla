----------------------------- MODULE AgentTurn -----------------------------
(***************************************************************************)
(* The turns of one conversation from the prepared prompt to the guarded   *)
(* reply (src/agent/): the graph of a model, a tools and a reply node      *)
(* (langgraph-runner.ts), the one rewrite of a draft that carries working  *)
(* notes (runner.ts), the guardrails (guardrails.ts) and the history the   *)
(* next turn is compared with.                                             *)
(*                                                                         *)
(* What a model writes is any of Drafts.  A message is a sequence of lines *)
(* and a line is only what the guardrails tell apart.  The tools are in    *)
(* TurnActions; here a call leaves a fact about the turn behind.  The      *)
(* tenant has an intent and an offering field, an opening and a silent     *)
(* payment-link flow, and several offerings, each with its link.           *)
(***************************************************************************)
EXTENDS Integers, Sequences, FiniteSets, SequencesExt

CONSTANTS Drafts,          \* the replies a model may write
          Kinds,           \* "inbound", "nudge"
          HasCloser,       \* the tenant wrote messages.closer
          MAX_STEPS,       \* model calls of a turn before a rewrite
          MAX_READS_PER_TURN,
          RECURSION_LIMIT, \* supersteps of the graph
          MaxCalls,        \* tool calls in one step
          MaxTurns         \* turns of the conversation: bounds of the instance

\* A line of a message.  "marker" is a piece of the prompt, "note" a working note, "long" is as
\* long as a message may be, "handoff" and "closer" are the tenant's own messages.
Line == {"say", "ask", "echo", "marker", "note", "link", "long", "handoff", "closer"}
Message == Seq(Line)

\* What the reply schema makes of a model's text.
ModelReply == [messages : Seq(Message), closing : Message,
               escalate : BOOLEAN, reasoned : BOOLEAN, confident : BOOLEAN]

ASSUME AgentAssumption ==
    /\ MAX_STEPS \in Nat \ {0, 1} /\ {MAX_READS_PER_TURN, MaxTurns, MaxCalls} \subseteq Nat
    /\ RECURSION_LIMIT = 2 * (MAX_STEPS - 1) + 2
    /\ Kinds \subseteq {"inbound", "nudge"} /\ HasCloser \in BOOLEAN
    /\ Drafts \subseteq ModelReply /\ \A d \in Drafts : d.messages # <<>>

\* What the turn's calls did: flows sent or refused, and what is staged.
Facts == {"sent", "refused", "link_recorded", "link_staged", "prospect", "offering"}

VARIABLES at, kind, tools,        \* where the turn is, what started it, whether it is offered tools
          turn,                   \* turns begun
          calls, steps, todo,     \* TurnState.calls, supersteps, calls the tools node has left
          reads, latest,          \* ReadBudget.made; the sources that were read
          facts, known, opening,  \* the actions, the contact's offering, the opening is due
          told,                   \* what the notice to the reply step said
          billed, usage,          \* what the provider counted, and what the turn's usage says
          draft, result,          \* the reply as the model wrote it last, and as it is given
          history                 \* the earlier agent replies, as they are stored

loopVars == <<calls, steps, todo>>
toolVars == <<reads, latest, facts>>
turnVars == <<kind, tools, turn, known, opening>>
replyVars == <<told, billed, usage, draft, result>>
vars == <<at, loopVars, toolVars, turnVars, replyVars, history>>

-----------------------------------------------------------------------------
\* Text

Has(message, line) == Contains(message, line)
hasFieldEcho(message) == Has(message, "echo")
Some(messages, line) == \E i \in DOMAIN messages : Has(messages[i], line)
endsWithQuestion(message) == message # <<>> /\ Last(message) = "ask"

\* The elements of s that are not x, in their order.
Without(s, x) ==
    LET kept[n \in 0..Len(s)] ==
            IF n = 0 THEN <<>>
            ELSE IF s[n] = x THEN kept[n - 1] ELSE Append(kept[n - 1], s[n])
    IN  kept[Len(s)]

\* The text without its field-echo lines.
stripFieldEchoes(message) == Without(message, "echo")

\* A reply as it is stored and compared: its messages joined by newlines.
Joined(messages) == FlattenSeq(messages)

carriesLink(messages) == Some(messages, "link")

Handoff == <<"handoff">>

\* The draft is a reply: escalation_reason is given exactly with an escalation.
WellFormed(d) == d.escalate = d.reasoned

carriesWorkingNotes(d) ==
    WellFormed(d) /\ (Some(d.messages, "note") \/ Has(d.closing, "note"))

Reply(messages, cause, did) == [messages |-> messages, cause |-> cause, did |-> did]

\* The scripted handoff that takes the place of a draft.
escalationReply(cause) == Reply(<<Handoff>>, cause, {})

\* A draft without the fields written into its text.
Stripped(d) ==
    [d EXCEPT !.messages = Without([i \in DOMAIN @ |-> stripFieldEchoes(@[i])], <<>>),
              !.closing = stripFieldEchoes(@)]

\* Whether a message of the body alone, or the whole reply, is an earlier one.
repeatsEarlierReply(body, delivered) ==
    \/ Joined(delivered) \in history
    \/ \E i \in DOMAIN body : body[i] \in history

\* The link on a line of its own after the body, ahead of the question that ends the reply.
withLink(messages, questionAppended) ==
    LET asked == questionAppended \/ endsWithQuestion(Last(messages))
        target == IF asked THEN Len(messages) - 1 ELSE Len(messages)
    IN  IF target = 0 \/ Has(messages[target], "long")
        THEN InsertAt(messages, target + 1, <<"link">>)
        ELSE [messages EXCEPT ![target] = Append(@, "link")]

\* The end of a reply that hands nothing off: its question, repetition and link.
Delivered(d, link) ==
    LET appended == d.closing # <<>> /\ ~endsWithQuestion(Last(d.messages))
        asked == IF appended THEN Append(d.messages, d.closing) ELSE d.messages
        repeats == repeatsEarlierReply(d.messages, asked)
        replaced == repeats /\ HasCloser
        said == IF replaced THEN <<<<"closer">>>> ELSE asked
        linked == link /\ ~carriesLink(said)
    IN  Reply(IF linked THEN withLink(said, appended /\ ~replaced) ELSE said, "none",
              (IF replaced THEN {"replaced"} ELSE IF repeats THEN {"duplicate"} ELSE {})
              \union (IF linked THEN {"link_added"} ELSE {}))

applyGuardrails(raw, link) ==
    LET d == Stripped(raw)
    IN  IF ~WellFormed(raw) THEN escalationReply("schema")
        ELSE IF d.messages = <<>> \/ Some(d.messages, "marker") THEN escalationReply("leak")
        ELSE IF d.escalate THEN Reply(d.messages, "model", {})
        ELSE IF ~d.confident THEN escalationReply("confidence")
        ELSE Delivered(d, link)

-----------------------------------------------------------------------------
\* The turn's own knowledge

\* Mutant: only a flow sent already leaves the link to the reply.
LinkRecorded == "link_recorded" \in facts

\* silentPaymentLink: the turn sent the silent flow, or staged it.
LinkOwed == facts \intersect {"link_recorded", "link_staged"} # {}

OfferingKnown == known \/ "offering" \in facts

\* stagesProspect, on a turn the opening belongs to.
OpeningQueued == opening /\ "prospect" \in facts

\* What stagedNotice tells the reply step.
Notice ==
    facts \union latest \union (IF OpeningQueued THEN {"opening"} ELSE {})

Guarded(d) ==
    LET guarded == applyGuardrails(d, LinkOwed /\ OfferingKnown)
    IN  IF LinkOwed /\ ~OfferingKnown /\ guarded.cause = "none"
        THEN escalationReply("error") ELSE guarded

-----------------------------------------------------------------------------
\* The graph

NoDraft == [messages |-> <<>>, closing |-> <<>>, escalate |-> FALSE, reasoned |-> FALSE,
            confident |-> FALSE]
NoReply == Reply(<<>>, "none", {})

Init ==
    /\ at = "over" /\ kind = "inbound" /\ tools = FALSE /\ turn = 0
    /\ calls = 0 /\ steps = 0 /\ todo = 0
    /\ reads = 0 /\ latest = {} /\ facts = {} /\ known = FALSE /\ opening = FALSE
    /\ told = {} /\ billed = 0 /\ usage = 0 /\ draft = NoDraft /\ result = NoReply
    /\ history = {}

\* PromptedRunner.run: the graph starts at the model node if there are tools.
Run == \E k \in Kinds, offered, has, due \in BOOLEAN :
    /\ at = "over" /\ turn < MaxTurns
    /\ turn' = turn + 1
    /\ kind' = k /\ tools' = offered /\ known' = has
    /\ opening' = (due /\ k = "inbound")
    /\ at' = IF offered THEN "model" ELSE "reply"
    /\ calls' = 0 /\ steps' = 1 /\ todo' = 0
    /\ reads' = 0 /\ latest' = {} /\ facts' = {}
    /\ told' = {} /\ billed' = 0 /\ usage' = 0 /\ draft' = NoDraft /\ result' = NoReply
    /\ UNCHANGED history

\* The turn has its reply.
Gives(r) == at' = "answered" /\ result' = r

\* The graph ends; what led to the reply is forgotten.
GraphEnds == calls' = 0 /\ steps' = 0 /\ todo' = 0 /\ reads' = 0

\* A graph node runs, within the graph's limit.
InLimit == steps < RECURSION_LIMIT
Superstep == InLimit /\ steps' = steps + 1

\* Each response counts.
Responds == billed' = billed + 1 /\ usage' = usage + 1

\* The reply was generated: it is written again if it carries notes, and guarded if not.
Generated(d) ==
    /\ draft' = d
    /\ IF carriesWorkingNotes(d)
       THEN at' = "rewrite" /\ UNCHANGED result
       ELSE Gives(Guarded(d))
    /\ GraphEnds

\* The model node: tool calls, or the reply.
ModelCalls == \E n \in 1..MaxCalls :
    /\ at = "model" /\ Superstep
    /\ Responds
    /\ calls' = calls + 1 /\ todo' = n /\ at' = "tools"
    /\ UNCHANGED <<toolVars, turnVars, told, draft, result, history>>

ModelReplies == \E d \in Drafts :
    /\ at = "model" /\ InLimit
    /\ Responds
    /\ Generated(d)
    /\ UNCHANGED <<latest, facts, turnVars, told, history>>

\* Mutant: four steps with tools before the reply.
EnoughAtLast == calls >= MAX_STEPS

\* After the tools node: the reply step is forced once one call is left.
Enough == calls >= MAX_STEPS - 1

\* A call of the step is performed, one at a time.
Performed ==
    /\ at = "tools" /\ todo > 0
    /\ todo' = todo - 1
    /\ UNCHANGED <<at, calls, steps, turnVars, replyVars, history>>

\* ReadBudget.take: get_contact and the plugins' reads spend the same budget.
Take == reads < MAX_READS_PER_TURN /\ reads' = reads + 1

\* get_contact, answered in time or not.
ReadContact == \E answered \in BOOLEAN :
    /\ Performed
    /\ Take
    /\ latest' = IF answered THEN latest \union {"contact"} ELSE latest
    /\ UNCHANGED facts

\* A plugin's read: a query cleaned to nothing, a failure, the timeout and an invalid result
\* spend the budget as well.
ReadPlugin == \E answered \in BOOLEAN :
    /\ Performed
    /\ Take
    /\ latest' = IF answered THEN latest \union {"plugin"} ELSE latest
    /\ UNCHANGED facts

\* send_flow: sent at once on an inbound turn, the link once the turn may send it.
SendFlow == \E fact \in {"sent", "link_recorded", "refused"} :
    /\ Performed /\ kind = "inbound"
    /\ facts' = facts \union {fact}
    /\ UNCHANGED <<reads, latest>>

\* A write is staged.
StageWrite == \E fact \in {"offering", "prospect", "link_staged"} :
    /\ Performed /\ (fact = "link_staged" => kind = "nudge")
    /\ facts' = facts \union {fact}
    /\ UNCHANGED <<reads, latest>>

\* The call is of no such tool, has an invalid input, throws, is refused or over a limit.
CallFails ==
    /\ Performed
    /\ UNCHANGED toolVars

ToolsDone ==
    /\ at = "tools" /\ todo = 0 /\ Superstep
    /\ at' = IF Enough THEN "reply" ELSE "model"
    /\ UNCHANGED <<calls, todo, toolVars, turnVars, replyVars, history>>

\* Mutant: the notice is written when the turn is prepared.
ReadsFirstNotice == told' = IF tools THEN {{}} ELSE {}

\* The notice is read when the step starts.
ReadsNotice == told' = IF tools THEN {Notice} ELSE {}

\* The reply node offers no tools, and reads the notice in place of the turn's calls.
ReplyNode == \E d \in Drafts :
    /\ at = "reply" /\ InLimit
    /\ ReadsNotice
    /\ Responds
    /\ Generated(d)
    /\ UNCHANGED <<latest, facts, turnVars, history>>

\* addUsage: the draft thrown away is counted with the rewrite.
RewriteResponds == Responds

\* Mutant: the rewrite is not read for notes again.
RewrittenAsIs(d) == Gives(Guarded(d))

\* A rewrite that carries notes too hands off.
Rewritten(d) == Gives(IF carriesWorkingNotes(d) THEN escalationReply("leak") ELSE Guarded(d))

Rewrite == \E d \in Drafts :
    /\ at = "rewrite"
    /\ ReadsNotice
    /\ RewriteResponds
    /\ draft' = d
    /\ Rewritten(d)
    /\ UNCHANGED <<loopVars, toolVars, turnVars, history>>

RewriteFails ==
    /\ at = "rewrite"
    /\ Gives(escalationReply("leak"))
    /\ UNCHANGED <<loopVars, toolVars, turnVars, told, billed, usage, draft, history>>

\* The call is thrown: to the turn's own handoff, whose usage counts nothing.
Throws ==
    /\ usage' = 0
    /\ Gives(escalationReply("error")) /\ GraphEnds
    /\ UNCHANGED <<latest, facts, turnVars, told, draft, history>>

\* The provider fails, its text is no reply, or the graph is past its limit.
ModelFails == \E counted \in 0..1 :
    /\ at \in {"model", "reply"} \/ (at = "tools" /\ ~InLimit)
    /\ billed' = IF InLimit THEN billed + counted ELSE billed
    /\ Throws

\* MODEL_ABORT_MS passes: the call is thrown to the turn handler, which hands off.
Aborted ==
    /\ at \in {"model", "tools", "reply", "rewrite"}
    /\ UNCHANGED billed
    /\ Throws

\* The contact wrote on while the model ran, and the reply sent no flow: it is dropped.
Superseded ==
    kind = "inbound" /\ result.cause = "none"
    /\ facts \intersect {"sent", "refused", "link_recorded"} = {}

\* The turn's row.  History leaves out a nudge the model declined and a superseded reply.
Record == \E superseded \in BOOLEAN :
    /\ at = "answered" /\ at' = "over"
    /\ superseded => Superseded
    /\ history' = IF superseded \/ (kind = "nudge" /\ result.cause # "none") THEN history
                  ELSE history \union {Joined(result.messages)}
    /\ latest' = {} /\ facts' = {} /\ told' = {} /\ billed' = 0 /\ usage' = 0
    /\ draft' = NoDraft /\ result' = NoReply
    /\ UNCHANGED <<loopVars, reads, turnVars>>

Next ==
    \/ Run \/ ModelCalls \/ ModelReplies \/ ReadContact \/ ReadPlugin \/ SendFlow \/ StageWrite \/ CallFails
    \/ ToolsDone \/ ReplyNode \/ Rewrite \/ RewriteFails \/ ModelFails \/ Aborted \/ Record

Spec == Init /\ [][Next]_vars

-----------------------------------------------------------------------------
\* Properties

\* The types of the variables, and where a turn has a reply.
TypeOK ==
    /\ at \in {"over", "model", "tools", "reply", "rewrite", "answered"}
    /\ kind \in {"inbound", "nudge"} /\ {tools, known, opening} \subseteq BOOLEAN
    /\ turn \in 0..MaxTurns /\ {calls, steps, todo, reads, billed, usage} \subseteq Nat
    /\ facts \subseteq Facts /\ latest \subseteq {"contact", "plugin"} /\ history \subseteq Message
    /\ told \subseteq SUBSET (Facts \union {"contact", "plugin", "opening"})
    /\ draft \in Drafts \union {NoDraft}
    /\ result.messages \in Seq(Message)
    /\ result.cause \in {"none", "model", "confidence", "schema", "leak", "error"}
    /\ at = "answered" <=> result # NoReply

\* However many calls the model makes, a turn reaches its reply: when a node of the graph is to
\* run a model call and a superstep are left for it, and the reply step keeps the last call
\* (MAX_STEPS, RECURSION_LIMIT).  A turn makes no more reads than its budget.
ReplyIsReached ==
    /\ at \in {"model", "tools", "reply"} => InLimit
    /\ at = "model" => calls < MAX_STEPS - 1
    /\ at = "reply" => calls < MAX_STEPS
    /\ reads <= MAX_READS_PER_TURN

\* What reaches the contact holds no field of the reply, no working note, and no piece of the
\* prompt, whichever of the two drafts it was written in.  The appended question is read for
\* fields and notes only.
NothingInternalIsSaid ==
    \A i \in DOMAIN result.messages : LET message == result.messages[i] IN
        /\ ~hasFieldEcho(message) /\ ~Has(message, "note")
        /\ Has(message, "marker") => message = Stripped(draft).closing

\* Model output is "checked for leakage before any of it can reach a customer"
\* (guardrails.ts, applyGuardrails).
NoMarkerIsSaid == ~Some(result.messages, "marker")

\* A turn that sent the silent payment flow, or will after its reply, says the link, unless a
\* person takes over (specs/023).
LinkIsSaid ==
    at = "answered" /\ result.cause = "none" /\ facts \intersect {"link_recorded", "link_staged"} # {} =>
        Some(result.messages, "link")

\* The last notice a reply was written under is still true when the reply is given: what was
\* sent, refused and staged, the contact's record and the opening queued ahead of it.
ToldTheTruth == at = "answered" => told \subseteq {Notice}
=============================================================================
