---------------------------- MODULE TenantConfig ----------------------------
(***************************************************************************)
(* What a tenant's files may say and how the loader judges them together   *)
(* (src/config/loader.ts, src/contracts/config/), and the system prompt    *)
(* that is built from an accepted configuration (src/agent/prompt.ts).     *)
(*                                                                         *)
(* A file is a record of what the checks tell apart.  Copy is left out: a  *)
(* body is only who wrote it.  An entry list is a sequence, so that two    *)
(* entries may carry one id.                                               *)
(***************************************************************************)
EXTENDS Integers, Sequences, FiniteSets

CONSTANTS ReplyField, TokenField,  \* the fields the service writes for its own delivery
          Absent,                  \* no file, or no entry
          Broken                   \* not JSON, of an earlier version, or refused by its schema

Ids(entries) == {entries[i].id : i \in DOMAIN entries}
Entries(entries) == {entries[i] : i \in DOMAIN entries}
uniqueIds(entries) == Cardinality(Ids(entries)) = Len(entries)
Those(entries, Test(_)) == {i \in DOMAIN entries : Test(entries[i])}
AtMostOne(entries, Test(_)) == Cardinality(Those(entries, Test)) <= 1
None(entries, Test(_)) == Those(entries, Test) = {}

-----------------------------------------------------------------------------
\* The environment

\* META_CHANNELS; those with a reply flow of their own.
META_CHANNELS == {"whatsapp", "instagram", "messenger"}
OWN_REPLY_FLOW == {"instagram", "messenger"}
isKnownChannel(channel) == channel \in META_CHANNELS \union {"telegram"}

\* CHANNELS, or CHANNEL alone when it is unset.
acceptedChannels(env) == IF env.channels = {} THEN {env.channel} ELSE env.channels

\* The flow that renders a deferred reply on a channel; "" is none.
replyFlowFor(env, channel) ==
    IF channel \in OWN_REPLY_FLOW /\ env.flows[channel] # "" THEN env.flows[channel]
    ELSE IF channel \in OWN_REPLY_FLOW /\ Cardinality(acceptedChannels(env)) # 1 THEN ""
    ELSE env.flows["whatsapp"]

ownReplyFlows(env) ==
    {replyFlowFor(env, c) : c \in acceptedChannels(env) \intersect OWN_REPLY_FLOW} \ {""}

\* What env.ts refuses once every variable has its type: LangChain's own outputs, traces without
\* their keys, kept elsewhere or holding a turn, and channels the service cannot answer on.
EnvSchema(env) ==
    /\ ~env.langchain
    /\ env.traced => env.traceKeys /\ ~env.traceElsewhere /\ ~env.traceHoldsTurn
    /\ env.abortMs > env.raceMs
    /\ isKnownChannel(env.channel) /\ env.channels \subseteq META_CHANNELS
    /\ env.channel \in acceptedChannels(env)
    /\ env.token =>
         \A c \in acceptedChannels(env) \intersect OWN_REPLY_FLOW : replyFlowFor(env, c) # ""

\* The flows no tool may aim at.
reservedNames(env) == ({env.flows["whatsapp"]} \union ownReplyFlows(env)) \ {""}

-----------------------------------------------------------------------------
\* tools.json

NO_TOOLS == [flows |-> <<>>, tags |-> <<>>, fields |-> <<>>, notes |-> <<>>, events |-> <<>>,
             readable |-> [tags |-> <<>>, fields |-> <<>>], nudge |-> Absent]

offersTools(tools) == \E key \in DOMAIN NO_TOOLS \ {"events"} : tools[key] # NO_TOOLS[key]

Marked(tools, mark) == {tools.fields[i] : i \in Those(tools.fields, LAMBDA f : mark \in f.marks)}
HasMark(tools, mark) == Marked(tools, mark) # {}
OfRole(tools, role) == {tools.flows[i] : i \in Those(tools.flows, LAMBDA f : f.role = role)}

FlowsSchema(flows) ==
    /\ uniqueIds(flows)
    /\ None(flows, LAMBDA f : f.silent /\ (f.settles \/ f.role = "opening"))
    /\ AtMostOne(flows, LAMBDA f : f.role = "payment_link")
    /\ AtMostOne(flows, LAMBDA f : f.role = "opening")
    /\ None(flows, LAMBDA f : f.role # "none" /\ (f.offering # "none" \/ f.onStage # "none"))
    /\ None(flows, LAMBDA f : f.role = "opening" /\ f.repeatable)
    /\ \A stage \in {f.onStage : f \in Entries(flows)} \ {"none"} :
         AtMostOne(flows, LAMBDA f : f.onStage = stage)

\* A mark of the system's own values lists them all, in its order.
FieldsSchema(fields) ==
    /\ uniqueIds(fields)
    /\ \A mark \in {"intent", "funnel", "offering"} : AtMostOne(fields, LAMBDA f : mark \in f.marks)
    /\ None(fields, LAMBDA f : Cardinality(f.marks \ {"switchable"}) > 1)
    /\ None(fields, LAMBDA f : f.marks \intersect {"intent", "funnel"} # {} /\ ~f.systemValues)
    /\ None(fields, LAMBDA f : "switchable" \in f.marks /\ "offering" \notin f.marks)
    /\ None(fields, LAMBDA f : "funnel" \in f.marks)
         \/ ~None(fields, LAMBDA f : "intent" \in f.marks)

EventsSchema(events, flows) ==
    /\ uniqueIds(events)
    /\ \A e, other \in Entries(events) :
         e # other => e.stage # other.stage /\ e.flowNs \intersect other.flowNs = {}
    /\ None(events, LAMBDA e : \E f \in Entries(flows) : e.flowNs \intersect f.flowNs # {})

ToolsSchema(tools) ==
    /\ FlowsSchema(tools.flows) /\ FieldsSchema(tools.fields)
    /\ uniqueIds(tools.notes) /\ None(tools.notes, LAMBDA n : ~n.neverRendered)
    /\ uniqueIds(tools.tags \o tools.readable.tags)
    /\ uniqueIds(tools.fields \o tools.readable.fields)
    /\ None(tools.tags, LAMBDA t : t.tag = tools.nudge)
    /\ OfRole(tools, "opening") # {} => HasMark(tools, "intent")
    /\ (~None(tools.flows, LAMBDA f : f.onStage # "none") \/ tools.events # <<>>)
         => HasMark(tools, "funnel")
    /\ EventsSchema(tools.events, tools.flows)

\* A note writes a field nothing else writes.
noteCollisions(tools) ==
    ~ /\ \A n \in Entries(tools.notes) :
           n.field \notin {ReplyField, TokenField} \union {f.field : f \in Entries(tools.fields)}
      /\ Cardinality({n.field : n \in Entries(tools.notes)}) = Len(tools.notes)

\* An entry names an object the service uses for delivery.
Collides(tools, env) ==
    \/ \E f \in Entries(tools.flows) \union Entries(tools.events) :
         f.flowNs \intersect reservedNames(env) # {}
    \/ \E f \in Entries(tools.fields) : f.field \in {ReplyField, TokenField}
    \/ noteCollisions(tools)

\* Mutant: a flow's offering is looked up and the field's values are not.
offeringMismatchesOfFlows(tools, catalog) ==
    \E f \in Entries(tools.flows) : f.offering \notin Ids(catalog) \union {"none"}

\* The offering field, the flows' offerings or a silent link disagree with the catalog.
offeringMismatches(tools, catalog) ==
    LET fields == Marked(tools, "offering")
        named == \E f \in Entries(tools.flows) : f.offering # "none"
        linked == \E f \in OfRole(tools, "payment_link") : f.silent
        \* As many values as offerings, and each offering among them.
        sameSet(field) == /\ Cardinality(field.values) = Len(catalog)
                          /\ Ids(catalog) \subseteq field.values
    IN  \/ \E field \in fields : ~sameSet(field)
        \/ \E f \in Entries(tools.flows) : f.offering \notin Ids(catalog) \union {"none"}
        \/ fields = {} /\ named
        \/ linked /\ \E o \in Entries(catalog) : ~o.url
        \/ linked /\ fields = {} /\ Len(catalog) # 1

\* What loadTools makes of the file it read; it throws when Refused.
loadTools(file) == IF file = Absent THEN NO_TOOLS ELSE file

RefusesTools(file, env, catalog) ==
    /\ file # Absent
    /\ \/ file = Broken
       \/ ~ToolsSchema(file) \/ Collides(file, env) \/ offeringMismatches(file, catalog)

\* prompt-overrides.json: the sections it replaces.
loadPromptOverrides(file) == IF file = Absent THEN {} ELSE file

\* The learning block needs a funnel to take its cohort from.
RefusesRules(rules, tools) == rules.learning /\ ~HasMark(tools, "funnel")

-----------------------------------------------------------------------------
\* The system prompt

\* A replaceable section: who wrote its body, and the framework's rules after it, by what they
\* depend on.
renderSection(key, overrides, rules) ==
    [key |-> key, body |-> IF key \in overrides THEN "tenant" ELSE "default", rules |-> rules]

\* A section the configuration calls for, or nothing.
When(condition, section) == IF condition THEN <<section>> ELSE <<>>

actionsSection(plugins, overrides) == renderSection("actions", overrides, plugins)

intentSection(tools, overrides) ==
    When(HasMark(tools, "intent"),
         renderSection("intent", overrides, {f.id : f \in OfRole(tools, "opening")}))

salesSection(tools, overrides) ==
    When(HasMark(tools, "funnel"),
         renderSection("sales", overrides,
                       {<<f.id, f.silent>> : f \in OfRole(tools, "payment_link")}))

offeringsSection(tools, overrides) ==
    When(HasMark(tools, "offering"),
         renderSection("offerings", overrides,
                       {<<f.values, HasMark(tools, "funnel"), "switchable" \in f.marks>> :
                           f \in Marked(tools, "offering")}))

FollowUpSection(tools, overrides) ==
    When(tools.nudge # Absent, renderSection("followUps", overrides, {}))

\* What only the framework writes.
Framework(key) == [key |-> key, body |-> "framework", rules |-> {}]

withTools(tools, plugins) == offersTools(tools) \/ plugins # {}

\* Whom the prompt says to follow where the persona conflicts with a section.
precedence(sections) ==
    {sections[i].key : i \in Those(sections, LAMBDA s : s.body = "tenant")}

\* One line per offering.
renderCatalog(catalog) == [i \in DOMAIN catalog |-> <<catalog[i].id, catalog[i].url>>]

buildSystemPrompt(config, tools, plugins) ==
    LET own(key) == renderSection(key, config.overrides, {})
        sections == <<own("operating"), Framework("GROUNDING"), Framework("SECURITY"),
                      own("format"), Framework("OUTPUT"), own("closing")>>
                    \o When(withTools(tools, plugins), actionsSection(plugins, config.overrides))
                    \o intentSection(tools, config.overrides)
                    \o salesSection(tools, config.overrides)
                    \o offeringsSection(tools, config.overrides)
                    \o FollowUpSection(tools, config.overrides)
    IN  [persona |-> config.persona, precedence |-> precedence(sections), sections |-> sections,
         catalog |-> renderCatalog(config.catalog)]

\* The active playbook as the prompt carries it, with a learning block only.
renderPlaybook(config, playbook) == IF config.rules.learning THEN playbook ELSE "none"
=============================================================================
